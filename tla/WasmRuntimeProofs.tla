------------------------- MODULE WasmRuntimeProofs -------------------------
(***************************************************************************)
(* The mutex and the fuel of module WasmRuntime, its handles and answers,  *)
(* for every number of threads, modules and operations, and every choice   *)
(* of limits; and that it serves one call at a time as GuestService does.  *)
(*                                                                         *)
(* The inductive invariant says who holds which mutex, that a thread in    *)
(* the critical section works on an instance that exists, and how much of  *)
(* the tank is left at each place: the budget less one unit per guest      *)
(* function this very operation has called.                                *)
(***************************************************************************)
EXTENDS WasmRuntime, TLAPS

\* The mutex of a runtime is held by the thread that is inside, for as long.
Owned ==
  \A r \in Runtimes, t \in Threads :
    lock[r] = t <=> pc[t] \in Inside /\ Mine(t) = r

Busy == Inside \union {"enter"}

\* What a thread on its way has been asked.
Asked(t) ==
  /\ Mine(t) = IF task[t].kind = "fresh" THEN t ELSE Shared
  /\ pc[t] \in {"compile", "mint"} => task[t].bytes \in Modules
  /\ pc[t] \in {"compile", "mint"} /\ task[t].kind = "instantiate" => task[t].doing = "none"
  /\ pc[t] \in {"compile", "mint"} /\ task[t].kind # "instantiate" => task[t].doing # "none"
  /\ pc[t] \in Busy => task[t].doing # "none"

\* The instance it works on.
Placed(t) ==
  /\ pc[t] \in Inside => task[t].handle \in DOMAIN modules[Mine(t)]
  /\ pc[t] \in Busy /\ task[t].kind = "fresh" =>
       task[t].handle \in DOMAIN modules[t] /\ Guest(t).bytes = task[t].bytes

\* What is in the tank.
Fuelled(t) ==
  /\ pc[t] = "name" => task[t].doing = "call" /\ Guest(t).fuel = limits.fuel
  /\ pc[t] = "args" => task[t].doing = "call" /\ Guest(t).fuel = limits.fuel - 1
  /\ pc[t] = "run" /\ task[t].doing # "call" => Guest(t).fuel = limits.fuel
  /\ pc[t] = "run" /\ task[t].doing = "call" =>
       Guest(t).bytes = "spinner" \/ Guest(t).fuel = limits.fuel - 2
  /\ pc[t] = "read" /\ task[t].doing = "call" => limits.fuel >= 3

\* An answered operation, and the instance it was about.
Explained(e) ==
  /\ e.result.why = "fuel" =>
       /\ e.task.doing = "call"
       /\ e.task.kind # "fresh" => e.task.handle \in DOMAIN modules[Shared]
       /\ limits.fuel < 3 \/ ModuleOf(e.task) = "spinner"
  /\ e.task.doing = "call" /\ e.result.ok => limits.fuel >= 3

IInv ==
  /\ TypeOK /\ Owned
  /\ \A t \in Threads : Asked(t) /\ Placed(t) /\ Fuelled(t)
  /\ \A e \in log : Explained(e)

\* Whatever thread t does to the tables, the other threads do not see it.
Undisturbed(t) ==
  /\ limits' = limits
  /\ \A u \in Threads \ {t} :
       /\ task'[u] = task[u] /\ pc'[u] = pc[u]
       /\ pc[u] \in Busy =>
            \A h \in DOMAIN modules[Mine(u)] :
              h \in DOMAIN modules'[Mine(u)]
                /\ modules'[Mine(u)][h].bytes = modules[Mine(u)][h].bytes
       /\ pc[u] \in Inside => modules'[Mine(u)][task[u].handle] = Guest(u)

\* Handles of the shared runtime keep the module they name.
SharedKept ==
  \A h \in DOMAIN modules[Shared] :
    h \in DOMAIN modules'[Shared] /\ modules'[Shared][h].bytes = modules[Shared][h].bytes

-----------------------------------------------------------------------------
(* Frames: what does not depend on the action. *)

\* A thread that is not disturbed keeps its part of the invariant.
LEMMA OthersKeep ==
  ASSUME IInv, NEW t \in Threads, Undisturbed(t)
  PROVE  \A u \in Threads \ {t} : Asked(u)' /\ Placed(u)' /\ Fuelled(u)'
<1> TAKE u \in Threads \ {t}
<1>1. task'[u] = task[u] /\ pc'[u] = pc[u] /\ limits' = limits
  BY DEF Undisturbed
<1>2. Asked(u) /\ Placed(u) /\ Fuelled(u)
  BY DEF IInv
<1>3. Mine(u)' = Mine(u)
  BY <1>1 DEF Mine
<1>4. Asked(u)'
  BY <1>1, <1>2, <1>3 DEF Asked
<1>5. pc[u] \in Inside => Guest(u)' = Guest(u)
  BY <1>1, <1>3 DEF Undisturbed, Guest
<1>6. Placed(u)'
  <2>1. pc[u] \in Inside => task[u].handle \in DOMAIN modules'[Mine(u)]
    BY <1>2 DEF Placed, Undisturbed, Busy
  <2>2. ASSUME pc[u] \in Busy, task[u].kind = "fresh"
        PROVE  task[u].handle \in DOMAIN modules'[u] /\ Guest(u)'.bytes = task[u].bytes
    <3>1. Mine(u) = u
      BY <1>2, <2>2 DEF Asked
    <3>2. task[u].handle \in DOMAIN modules[u] /\ modules[u][task[u].handle].bytes = task[u].bytes
      BY <1>2, <2>2, <3>1 DEF Placed, Guest
    <3> QED BY <1>1, <1>3, <2>2, <3>1, <3>2 DEF Undisturbed, Guest
  <2> QED BY <1>1, <1>3, <2>1, <2>2 DEF Placed, Mine
<1>7. Fuelled(u)'
  BY <1>1, <1>2, <1>5 DEF Fuelled, Inside
<1> QED BY <1>4, <1>6, <1>7

\* What was explained stays explained.
LEMMA StaysExplained ==
  ASSUME NEW e, Explained(e), SharedKept, limits' = limits
  PROVE  Explained(e)'
<1>1. e.task.kind # "fresh" /\ e.task.handle \in DOMAIN modules[Shared]
        => ModuleOf(e.task)' = ModuleOf(e.task)
  BY DEF SharedKept, ModuleOf
<1>2. e.task.kind = "fresh" => ModuleOf(e.task)' = ModuleOf(e.task)
  BY DEF ModuleOf
<1> QED BY <1>1, <1>2 DEF Explained, SharedKept

\* The answers given so far.
LEMMA LogKeeps ==
  ASSUME IInv, SharedKept, limits' = limits
  PROVE  \A e \in log : Explained(e)'
<1> TAKE e \in log
<1>1. Explained(e)
  BY DEF IInv
<1> QED BY <1>1, StaysExplained

\* What is left to show of a step of thread t.
LEMMA StepKeeps ==
  ASSUME IInv, NEW t \in Threads, Undisturbed(t), SharedKept,
         TypeOK', Owned', Asked(t)', Placed(t)', Fuelled(t)',
         \A e \in log' \ log : Explained(e)'
  PROVE  IInv'
<1>1. \A u \in Threads : Asked(u)' /\ Placed(u)' /\ Fuelled(u)'
  BY OthersKeep
<1>2. \A e \in log : Explained(e)'
  BY LogKeeps DEF Undisturbed
<1> QED BY <1>1, <1>2 DEF IInv

-----------------------------------------------------------------------------
(* The critical section. *)

\* Nobody else is inside the runtime of thread t.
Alone(t) == \A u \in Threads \ {t} : pc[u] \in Inside => Mine(u) # Mine(t)

\* The step replaces the instance t works on by guest, and nothing else.
Rewrote(t, guest) ==
  /\ limits' = limits /\ supply' = supply /\ next_handle' = next_handle /\ tasks' = tasks
  /\ IsGuest(guest) /\ guest.bytes = Guest(t).bytes
  /\ DOMAIN modules' = Runtimes
  /\ \A r \in Runtimes : DOMAIN modules'[r] = DOMAIN modules[r]
  /\ modules'[Mine(t)][task[t].handle] = guest
  /\ \A r \in Runtimes : \A h \in DOMAIN modules[r] :
       r # Mine(t) \/ h # task[t].handle => modules'[r][h] = modules[r][h]

\* Becomes does that.
LEMMA BecomesRewrites ==
  ASSUME IInv, NEW t \in Threads, NEW guest, IsGuest(guest), guest.bytes = Guest(t).bytes,
         task[t].handle \in DOMAIN modules[Mine(t)], Becomes(t, guest),
         UNCHANGED <<limits, supply, next_handle, tasks>>
  PROVE  Rewrote(t, guest)
<1> DEFINE r0 == Mine(t)
           h0 == task[t].handle
<1>1. r0 \in Runtimes /\ DOMAIN modules = Runtimes
  BY DEF IInv, TypeOK, Tasks, Mine
<1>2. modules' = [modules EXCEPT ![r0] = [@ EXCEPT ![h0] = guest]]
  BY DEF Becomes
<1>3. h0 \in DOMAIN modules[r0]
  OBVIOUS
<1> HIDE DEF r0, h0
<1>4. DOMAIN modules' = Runtimes /\ \A r \in Runtimes : r # r0 => modules'[r] = modules[r]
  BY <1>1, <1>2
<1>5. modules'[r0] = [modules[r0] EXCEPT ![h0] = guest]
  BY <1>1, <1>2
<1>6. /\ DOMAIN modules'[r0] = DOMAIN modules[r0]
      /\ modules'[r0][h0] = guest
      /\ \A h \in DOMAIN modules[r0] : h # h0 => modules'[r0][h] = modules[r0][h]
  BY <1>3, <1>5
<1> QED BY <1>4, <1>6 DEF r0, h0, Rewrote

\* So does leaving the tables alone.
LEMMA ReadingRewrites ==
  ASSUME IInv, NEW t \in Threads, task[t].handle \in DOMAIN modules[Mine(t)],
         UNCHANGED <<limits, supply, next_handle, tasks, modules>>
  PROVE  Rewrote(t, Guest(t))
<1>1. Mine(t) \in Runtimes
  BY DEF IInv, TypeOK, Tasks, Mine
<1> QED BY <1>1 DEF IInv, TypeOK, Rewrote, Guest

\* What of the types a step inside the critical section keeps, and that the
\* other threads do not see it.
LEMMA RewroteKeeps ==
  ASSUME IInv, NEW t \in Threads, NEW guest, Rewrote(t, guest), Alone(t),
         task[t].handle \in DOMAIN modules[Mine(t)],
         \A u \in Threads \ {t} : task'[u] = task[u] /\ pc'[u] = pc[u]
  PROVE  /\ SharedKept /\ Undisturbed(t)
         /\ \A r \in Runtimes : DOMAIN modules'[r] = 1..next_handle'[r]
         /\ (\A r \in Runtimes : \A h \in DOMAIN modules[r] : IsGuest(modules[r][h]))'
<1>1. Shared \in Runtimes /\ Mine(t) \in Runtimes /\ \A u \in Threads : Mine(u) \in Runtimes
  BY DEF IInv, TypeOK, Tasks, Mine, Runtimes
<1>2. \A r \in Runtimes : \A h \in DOMAIN modules[r] :
        /\ h \in DOMAIN modules'[r] /\ IsGuest(modules'[r][h])
        /\ modules'[r][h].bytes = modules[r][h].bytes
  <2> TAKE r \in Runtimes
  <2> TAKE h \in DOMAIN modules[r]
  <2>1. CASE r = Mine(t) /\ h = task[t].handle
    BY <2>1 DEF Rewrote, Guest
  <2>2. CASE r # Mine(t) \/ h # task[t].handle
    BY <2>2 DEF Rewrote, IInv, TypeOK
  <2> QED BY <2>1, <2>2
<1>3. (\A r \in Runtimes : \A h \in DOMAIN modules[r] : IsGuest(modules[r][h]))'
  <2> SUFFICES ASSUME NEW r \in Runtimes, NEW h \in DOMAIN modules'[r]
               PROVE  IsGuest(modules[r][h])'
    BY DEF Runtimes
  <2>1. h \in DOMAIN modules[r]
    BY DEF Rewrote
  <2>2. IsGuest(modules'[r][h])
    BY <1>2, <2>1
  <2> QED BY <2>2 DEF IsGuest, Rewrote
<1>4. SharedKept
  BY <1>1, <1>2 DEF SharedKept
<1>5. \A u \in Threads \ {t} : pc[u] \in Inside =>
        modules'[Mine(u)][task[u].handle] = Guest(u)
  BY <1>1 DEF Alone, Rewrote, Guest, IInv, Placed
<1>6. Undisturbed(t)
  BY <1>1, <1>2, <1>5 DEF Undisturbed, Rewrote
<1>7. \A r \in Runtimes : DOMAIN modules'[r] = 1..next_handle'[r]
  BY DEF Rewrote, IInv, TypeOK
<1> QED BY <1>3, <1>4, <1>6, <1>7

-----------------------------------------------------------------------------
(* What guest code leaves behind is still a guest. *)

\* The numbers the types depend on.
LEMMA Sizes ==
  /\ Word \in Nat /\ Page \in Nat /\ HeapBase \in Nat
  /\ 2 <= HeapBase /\ HeapBase <= Page /\ Page < Word /\ FrameLimit \in Nat
BY SizesAssumption

\* The limits of a runtime leave at least one unit of fuel.
LEMMA Tank == ASSUME TypeOK PROVE limits.fuel \in Nat \ {0}
BY SizesAssumption DEF TypeOK

\* Enter fills the tank.
LEMMA RefuelledIsGuest ==
  ASSUME NEW guest, IsGuest(guest), NEW n \in 0..limits.fuel
  PROVE  /\ IsGuest([guest EXCEPT !.fuel = n]) /\ [guest EXCEPT !.fuel = n].fuel = n
         /\ [guest EXCEPT !.fuel = n].bytes = guest.bytes
BY DEF IsGuest

\* sim_alloc takes one unit and answers with an address.
LEMMA AllocatedIsGuest ==
  ASSUME TypeOK, NEW guest, IsGuest(guest), guest.fuel > 0, NEW len \in Nat
  PROVE  /\ IsGuest(Allocated(guest, len))
         /\ Allocated(guest, len).fuel = guest.fuel - 1
         /\ Allocated(guest, len).bytes = guest.bytes
         /\ Allocated(guest, len).size = guest.size
         /\ AllocatedAt(guest) \in Nat
<1>1. limits.fuel \in Nat
  BY Tank
<1>2. guest.heap \in Nat /\ guest.heap + len \in Nat
  BY Sizes DEF IsGuest
<1>3. (guest.heap + len) % Word \in 0..(Word - 1)
  BY <1>2, Sizes, SMT
<1> DEFINE heap == IF Bumps(guest) THEN (guest.heap + len) % Word ELSE guest.heap
<1>4. heap \in 0..(Word - 1)
  BY <1>3 DEF IsGuest
<1>5. Allocated(guest, len) = [guest EXCEPT !.fuel = guest.fuel - 1, !.heap = heap]
  BY DEF Allocated, IsGuest
<1>6. guest.fuel - 1 \in 0..limits.fuel
  BY <1>1 DEF IsGuest
<1> HIDE DEF heap
<1>7. AllocatedAt(guest) \in Nat
  BY <1>2 DEF AllocatedAt
<1> QED BY <1>4, <1>5, <1>6, <1>7 DEF IsGuest

\* A write that fits keeps the size of the memory.
LEMMA WrittenIsGuest ==
  ASSUME NEW guest, IsGuest(guest), NEW ptr \in Nat, NEW bytes \in Seq(Bytes)
  PROVE  /\ IsGuest(Written(guest, ptr, bytes))
         /\ Written(guest, ptr, bytes).fuel = guest.fuel
         /\ Written(guest, ptr, bytes).bytes = guest.bytes
<1> DEFINE memory == [a \in 0..(guest.size - 1) |->
                        IF a \in ptr..(ptr + Len(bytes) - 1) THEN bytes[a - ptr + 1]
                        ELSE guest.memory[a]]
<1>1. ASSUME NEW a \in 0..(guest.size - 1) PROVE memory[a] \in Bytes
  <2>1. CASE a \in ptr..(ptr + Len(bytes) - 1)
    <3>1. a - ptr + 1 \in 1..Len(bytes)
      BY <2>1
    <3>2. bytes[a - ptr + 1] \in Bytes
      BY <3>1
    <3> QED BY <2>1, <3>2
  <2>2. CASE a \notin ptr..(ptr + Len(bytes) - 1)
    BY <2>2 DEF IsGuest
  <2> QED BY <2>1, <2>2
<1>2. memory \in [0..(guest.size - 1) -> Bytes]
  BY <1>1
<1>3. Written(guest, ptr, bytes) = [guest EXCEPT !.memory = memory]
  BY DEF Written, IsGuest
<1> HIDE DEF memory
<1> QED BY <1>2, <1>3 DEF IsGuest

\* memory.grow adds a page of zeroes.
LEMMA GrownIsGuest ==
  ASSUME TypeOK, NEW guest, IsGuest(guest), guest.fuel > 0
  PROVE  IsGuest(Grown(guest)) /\ Grown(guest).bytes = guest.bytes
<1>1. limits.fuel \in Nat /\ guest.fuel - 1 \in 0..limits.fuel
  BY Tank DEF IsGuest
<1> DEFINE size == guest.size + Page
           memory == [a \in 0..(guest.size + Page - 1) |->
                        IF a < guest.size THEN guest.memory[a] ELSE Zero]
<1>2. size \in Nat /\ size >= Page /\ size - 1 = guest.size + Page - 1
  BY Sizes DEF IsGuest
<1>3. memory \in [0..(guest.size + Page - 1) -> Bytes]
  BY Sizes DEF IsGuest, Zero, Byte, Bytes
<1>4. Grown(guest) = [guest EXCEPT !.fuel = guest.fuel - 1, !.size = size, !.memory = memory]
  BY DEF Grown, IsGuest
<1> HIDE DEF size, memory
<1> QED BY <1>1, <1>2, <1>3, <1>4 DEF IsGuest

\* The other functions leave at most the counter and its byte behind.
LEMMA RanIsGuest ==
  ASSUME TypeOK, NEW guest, IsGuest(guest), guest.fuel > 0, NEW doing
  PROVE  IsGuest(Ran(guest, doing)) /\ Ran(guest, doing).bytes = guest.bytes
<1>1. limits.fuel \in Nat /\ guest.fuel - 1 \in 0..limits.fuel
  BY Tank DEF IsGuest
<1>2. CASE doing = "call" /\ guest.bytes = "counter"
  <2> DEFINE count == Counted(guest.counter + 1)[1]
             memory == [guest.memory EXCEPT ![0] = count]
  <2>1. count \in Bytes
    BY DEF IsGuest, Counted, Byte, Bytes
  <2>2. memory \in [0..(guest.size - 1) -> Bytes]
    BY <2>1 DEF IsGuest
  <2>3. Ran(guest, doing) =
          [bytes |-> guest.bytes, fuel |-> guest.fuel - 1, heap |-> guest.heap,
           counter |-> guest.counter + 1, size |-> guest.size, memory |-> memory]
    BY <1>2 DEF Ran, IsGuest
  <2>4. guest.counter + 1 \in Nat
    BY DEF IsGuest
  <2> HIDE DEF count, memory
  <2> QED BY <1>1, <2>2, <2>3, <2>4 DEF IsGuest
<1>3. CASE ~(doing = "call" /\ guest.bytes = "counter")
  <2>1. Ran(guest, doing) = [guest EXCEPT !.fuel = guest.fuel - 1]
    BY <1>3 DEF Ran
  <2> QED BY <1>1, <2>1, RefuelledIsGuest
<1> QED BY <1>2, <1>3

\* A new instance has a full tank and a page of memory.
LEMMA InstanceIsGuest ==
  ASSUME TypeOK, NEW bytes \in Modules
  PROVE  IsGuest(Instance(bytes)) /\ Instance(bytes).bytes = bytes
<1>1. limits.fuel \in 0..limits.fuel
  BY Tank
<1>2. [a \in 0..(Page - 1) |-> Data(bytes, a)] \in [0..(Page - 1) -> Bytes]
  BY DEF Data, Zero, Byte, Bytes
<1>3. HeapBase \in 0..(Word - 1) /\ Page \in Nat /\ Page >= Page
  BY Sizes
<1> QED BY <1>1, <1>2, <1>3 DEF IsGuest, Instance

-----------------------------------------------------------------------------
(* The ways out of a step inside the critical section. *)

RefsType == [name : Nat, args : Nat, packed : Nat]
Reply(t, result) == [task |-> task[t], result |-> result]

\* Whoever holds the mutex is alone inside.
LEMMA HolderAlone ==
  ASSUME IInv, NEW t \in Threads, lock[Mine(t)] \in {t, NoThread}
  PROVE  Alone(t)
<1> SUFFICES ASSUME NEW u \in Threads \ {t}, pc[u] \in Inside, Mine(u) = Mine(t)
             PROVE  FALSE
  BY DEF Alone
<1>1. Mine(t) \in Runtimes
  BY DEF IInv, TypeOK, Tasks, Mine
<1>2. lock[Mine(t)] = u
  BY <1>1 DEF IInv, Owned
<1> QED BY <1>2, ThreadsAssumption

\* What is known of a thread that is inside.
LEMMA InsideFacts ==
  ASSUME IInv, NEW t \in Threads, pc[t] \in Inside
  PROVE  /\ Mine(t) \in Runtimes /\ lock[Mine(t)] = t /\ Alone(t)
         /\ task[t] \in Tasks /\ refs[t] \in RefsType
         /\ task[t].handle \in DOMAIN modules[Mine(t)] /\ IsGuest(Guest(t))
<1>1. Mine(t) \in Runtimes /\ task[t] \in Tasks /\ refs[t] \in RefsType
  BY DEF IInv, TypeOK, Tasks, Mine, RefsType
<1>2. lock[Mine(t)] = t
  BY <1>1 DEF IInv, Owned
<1>3. task[t].handle \in DOMAIN modules[Mine(t)]
  BY DEF IInv, Placed
<1>4. IsGuest(Guest(t))
  BY <1>1, <1>3 DEF IInv, TypeOK, Guest
<1> QED BY <1>1, <1>2, <1>3, <1>4, HolderAlone

\* Guest code hands over to the next place inside.
LEMMA GoesOn ==
  ASSUME IInv, NEW t \in Threads, pc[t] \in Inside, NEW guest, Rewrote(t, guest),
         NEW at \in Inside, Goes(t, at), UNCHANGED <<lock, task, log>>,
         refs' \in [Threads -> RefsType], Fuelled(t)'
  PROVE  IInv'
<1>1. /\ Mine(t) \in Runtimes /\ Alone(t)
      /\ task[t].handle \in DOMAIN modules[Mine(t)]
  BY InsideFacts
<1>2. pc' = [pc EXCEPT ![t] = at] /\ pc \in [Threads -> Inside \union {"idle", "compile", "mint", "enter"}]
  BY DEF Goes, IInv, TypeOK
<1>3. pc'[t] = at /\ \A u \in Threads \ {t} : pc'[u] = pc[u] /\ task'[u] = task[u]
  BY <1>2
<1>4. /\ SharedKept /\ Undisturbed(t)
      /\ \A r \in Runtimes : DOMAIN modules'[r] = 1..next_handle'[r]
      /\ (\A r \in Runtimes : \A h \in DOMAIN modules[r] : IsGuest(modules[r][h]))'
  BY <1>1, <1>3, RewroteKeeps
<1>5. \A u \in Threads : (pc'[u] \in Inside <=> pc[u] \in Inside) /\ Mine(u)' = Mine(u)
  BY <1>3 DEF Mine
<1>6. Owned'
  BY <1>5 DEF IInv, Owned
<1>7. pc' \in [Threads -> Inside \union {"idle", "compile", "mint", "enter"}]
  BY <1>2
<1>8. TypeOK'
  <2>1. limits' = limits /\ supply' = supply /\ next_handle' = next_handle /\ tasks' = tasks
    BY DEF Rewrote
  <2>2. DOMAIN modules' = Runtimes /\ \A r \in Runtimes : DOMAIN modules'[r] = 1..next_handle'[r]
    BY <1>4 DEF Rewrote
  <2>3. \A u \in Threads : pc'[u] \in Inside <=> lock'[Mine(u)'] = u
    BY <1>5 DEF IInv, TypeOK
  <2> QED BY <1>4, <1>7, <2>1, <2>2, <2>3 DEF IInv, TypeOK, RefsType
<1>9. Asked(t)'
  BY <1>3, <1>5 DEF IInv, Asked, Busy, Inside
<1>10. Guest(t)'.bytes = Guest(t).bytes
  BY <1>5 DEF Rewrote, Guest
<1>11. Placed(t)'
  <2>1. task[t].handle \in DOMAIN modules'[Mine(t)]
    BY <1>1 DEF Rewrote
  <2>2. task[t].kind = "fresh" => Mine(t) = t /\ Guest(t).bytes = task[t].bytes
    BY DEF IInv, Asked, Placed, Busy
  <2>3. Mine(t)' = Mine(t) /\ task' = task
    BY <1>5
  <2> QED BY <1>10, <2>1, <2>2, <2>3 DEF Placed
<1> QED BY <1>4, <1>6, <1>8, <1>9, <1>11, StepKeeps

\* The operation is answered from inside, and the mutex is free again.
LEMMA GoesOut ==
  ASSUME IInv, NEW t \in Threads, pc[t] \in Inside, NEW guest, Rewrote(t, guest),
         NEW result \in Results, Leaves(t), Answer(t, task[t], result),
         Explained(Reply(t, result))
  PROVE  IInv'
<1>1. /\ Mine(t) \in Runtimes /\ Alone(t) /\ lock[Mine(t)] = t /\ task[t] \in Tasks
      /\ task[t].handle \in DOMAIN modules[Mine(t)]
  BY InsideFacts
<1>2. /\ pc \in [Threads -> Inside \union {"idle", "compile", "mint", "enter"}]
      /\ task \in [Threads -> Tasks] /\ refs \in [Threads -> RefsType]
      /\ lock \in [Runtimes -> Threads \union {NoThread}]
  BY DEF IInv, TypeOK, RefsType
<1>3. /\ pc'[t] = "idle" /\ task'[t] = NoTask
      /\ \A u \in Threads \ {t} : pc'[u] = pc[u] /\ task'[u] = task[u]
  BY <1>2 DEF Answer, Goes
<1>4. /\ SharedKept /\ Undisturbed(t)
      /\ \A r \in Runtimes : DOMAIN modules'[r] = 1..next_handle'[r]
      /\ (\A r \in Runtimes : \A h \in DOMAIN modules[r] : IsGuest(modules[r][h]))'
  BY <1>1, <1>3, RewroteKeeps
<1>5. /\ lock'[Mine(t)] = NoThread
      /\ \A r \in Runtimes : r # Mine(t) => lock'[r] = lock[r]
  BY <1>1, <1>2 DEF Leaves
<1>6. "idle" \notin Inside /\ "idle" \notin Busy
  BY DEF Inside, Busy
<1>7. \A u \in Threads \ {t} : Mine(u)' = Mine(u) /\ Mine(u) \in Runtimes
  BY <1>2, <1>3 DEF Mine, Tasks
<1>8. Owned'
  <2> SUFFICES ASSUME NEW r \in Runtimes, NEW u \in Threads
               PROVE  lock'[r] = u <=> pc'[u] \in Inside /\ Mine(u)' = r
    BY DEF Owned
  <2>1. CASE u = t
    BY <1>1, <1>3, <1>5, <1>6, <2>1, ThreadsAssumption DEF IInv, Owned
  <2>2. CASE u # t /\ r = Mine(t)
    BY <1>1, <1>3, <1>5, <1>7, <2>2, ThreadsAssumption DEF Alone
  <2>3. CASE u # t /\ r # Mine(t)
    BY <1>3, <1>5, <1>7, <2>3 DEF IInv, Owned
  <2> QED BY <2>1, <2>2, <2>3
<1>9. NoTask \in Tasks /\ NoRefs \in RefsType
  BY DEF NoTask, NoRefs, Tasks, RefsType, Runtimes
<1>10. TypeOK'
  <2>1. limits' = limits /\ supply' = supply /\ next_handle' = next_handle /\ tasks' = tasks
    BY DEF Rewrote
  <2>2. DOMAIN modules' = Runtimes
    BY DEF Rewrote
  <2>3. lock' \in [Runtimes -> Threads \union {NoThread}]
    BY <1>2 DEF Leaves
  <2>4. /\ task' \in [Threads -> Tasks] /\ refs' \in [Threads -> RefsType]
        /\ pc' \in [Threads -> Inside \union {"idle", "compile", "mint", "enter"}]
    BY <1>2, <1>9 DEF Answer, Goes
  <2>5. \A u \in Threads : Mine(u)' \in Runtimes
    BY <2>4 DEF Mine, Tasks
  <2>6. \A u \in Threads : pc'[u] \in Inside <=> lock'[Mine(u)'] = u
    BY <1>8, <2>5 DEF Owned
  <2>7. log' \subseteq [task : Tasks, result : Results]
    BY <1>1 DEF IInv, TypeOK, Answer
  <2> QED BY <1>4, <2>1, <2>2, <2>3, <2>4, <2>6, <2>7 DEF IInv, TypeOK, RefsType
<1>11. Asked(t)'
  BY <1>3, <1>6 DEF Asked, Mine, NoTask
<1>12. Placed(t)' /\ Fuelled(t)'
  BY <1>3, <1>6 DEF Placed, Fuelled
<1>13. \A e \in log' \ log : Explained(e)'
  <2> TAKE e \in log' \ log
  <2>1. e = Reply(t, result)
    BY DEF Answer, Reply
  <2>2. Explained(e) /\ limits' = limits
    BY <2>1 DEF Rewrote
  <2> QED BY <1>4, <2>2, StaysExplained
<1> QED BY <1>4, <1>8, <1>10, <1>11, <1>12, <1>13, StepKeeps

\* A refusal by the host or by the guest, from inside.
LEMMA FailKeeps ==
  ASSUME IInv, NEW t \in Threads, pc[t] \in Inside, NEW guest, IsGuest(guest),
         NEW why \in {"fuel", "write", "grow", "limit", "range"},
         guest.bytes = Guest(t).bytes, Fail(t, guest, why),
         UNCHANGED <<limits, supply, next_handle, tasks>>,
         why = "fuel" => /\ task[t].doing = "call"
                         /\ limits.fuel < 3 \/ Guest(t).bytes = "spinner"
  PROVE  IInv'
<1>1. /\ task[t].handle \in DOMAIN modules[Mine(t)]
      /\ Leaves(t) /\ Becomes(t, guest) /\ Answer(t, task[t], Err(why))
  BY InsideFacts DEF Fail
<1>2. Rewrote(t, guest)
  BY <1>1, BecomesRewrites
<1>3. Err(why) \in Results
  <2>1. <<>> \in Seq(Bytes)
    OBVIOUS
  <2> QED BY <2>1 DEF Err, Results, Reasons
<1>4. Explained(Reply(t, Err(why)))
  <2>1. task[t].kind # "fresh" => Mine(t) = Shared /\ ModuleOf(task[t]) = Guest(t).bytes
    BY DEF IInv, Asked, ModuleOf, Guest
  <2>2. task[t].kind = "fresh" => ModuleOf(task[t]) = Guest(t).bytes
    BY DEF IInv, Placed, Busy, ModuleOf
  <2> QED BY <1>1, <2>1, <2>2 DEF Explained, Reply, Err
<1> QED BY <1>1, <1>2, <1>3, <1>4, GoesOut

-----------------------------------------------------------------------------
(* The steps inside. *)

\* write_guest_bytes costs one unit of the tank.
LEMMA WriteKeeps ==
  ASSUME IInv, NEW t \in Threads, pc[t] \in Inside, task[t].doing = "call",
         NEW field \in {"name", "args"}, NEW bytes \in Seq(Bytes), NEW at \in {"args", "run"},
         Guest(t).fuel = IF at = "args" THEN limits.fuel ELSE limits.fuel - 1,
         WriteGuestBytes(t, field, bytes, at),
         UNCHANGED <<limits, supply, next_handle, tasks>>
  PROVE  IInv'
<1>1. /\ task[t].handle \in DOMAIN modules[Mine(t)] /\ IsGuest(Guest(t))
      /\ Mine(t) \in Runtimes /\ TypeOK
  BY InsideFacts DEF IInv
<1>2. limits.fuel \in Nat \ {0}
  BY <1>1, Tank
<1>3. CASE Guest(t).fuel = 0 /\ Fail(t, Guest(t), "fuel")
  <2>1. limits.fuel < 3
    BY <1>2, <1>3
  <2> QED BY <1>1, <1>3, <2>1, FailKeeps
<1> DEFINE taken == Allocated(Guest(t), Len(bytes))
           ptr == AllocatedAt(Guest(t))
<1>4. ASSUME Guest(t).fuel > 0
      PROVE  /\ IsGuest(taken) /\ taken.bytes = Guest(t).bytes /\ ptr \in Nat
             /\ taken.fuel = Guest(t).fuel - 1
  BY <1>1, <1>4, AllocatedIsGuest
<1>5. CASE Guest(t).fuel > 0 /\ Fail(t, taken, "write")
  <2> HIDE DEF taken
  <2> QED BY <1>4, <1>5, FailKeeps
<1>6. CASE /\ Guest(t).fuel > 0 /\ Becomes(t, Written(taken, ptr, bytes))
           /\ refs' = [refs EXCEPT ![t][field] = ptr]
           /\ Goes(t, at) /\ UNCHANGED <<lock, task, log>>
  <2> DEFINE left == Written(taken, ptr, bytes)
  <2>1. /\ IsGuest(taken) /\ taken.bytes = Guest(t).bytes /\ ptr \in Nat
        /\ taken.fuel = Guest(t).fuel - 1
    BY <1>4, <1>6
  <2> HIDE DEF taken, ptr
  <2>2. IsGuest(left) /\ left.bytes = Guest(t).bytes /\ left.fuel = Guest(t).fuel - 1
    BY <2>1, WrittenIsGuest
  <2> HIDE DEF left
  <2>3. Rewrote(t, left)
    BY <1>1, <1>6, <2>2, BecomesRewrites DEF left
  <2>4. refs' \in [Threads -> RefsType]
    BY <1>6, <2>1 DEF IInv, TypeOK, RefsType
  <2>5. pc'[t] = at /\ Guest(t)'.fuel = left.fuel /\ task' = task /\ limits' = limits
    BY <1>6, <2>3 DEF Rewrote, Guest, Mine, Goes, IInv, TypeOK
  <2>6. Fuelled(t)'
    BY <1>2, <2>2, <2>5 DEF Fuelled
  <2> QED BY <1>6, <2>3, <2>4, <2>6, GoesOn DEF Inside
<1> QED BY <1>3, <1>5, <1>6 DEF WriteGuestBytes

\* The name of the export is written.
LEMMA SendNameKeeps ==
  ASSUME IInv, NEW t \in Threads, SendName(t) PROVE IInv'
<1>1. /\ pc[t] \in Inside /\ task[t].doing = "call" /\ Guest(t).fuel = limits.fuel
      /\ task[t] \in Tasks
  BY DEF SendName, Inside, IInv, Fuelled, TypeOK
<1>2. PICK bytes : bytes = <<Byte("name", task[t].ticket)>>
  OBVIOUS
<1>3. bytes \in Seq(Bytes)
  BY <1>1, <1>2 DEF Byte, Bytes, Tasks
<1>4. WriteGuestBytes(t, "name", bytes, "args") /\ UNCHANGED <<limits, supply, next_handle, tasks>>
  BY <1>2 DEF SendName
<1> QED BY <1>1, <1>3, <1>4, WriteKeeps

\* The arguments are written.
LEMMA SendArgumentsKeeps ==
  ASSUME IInv, NEW t \in Threads, SendArguments(t) PROVE IInv'
<1>1. /\ pc[t] \in Inside /\ task[t].doing = "call" /\ Guest(t).fuel = limits.fuel - 1
      /\ task[t] \in Tasks
  BY DEF SendArguments, Inside, IInv, Fuelled, TypeOK
<1>2. PICK bytes : bytes = Arguments(task[t])
  OBVIOUS
<1>3. bytes \in Seq(Bytes)
  <2>1. task[t].length \in Nat /\ Byte("args", task[t].ticket) \in Bytes
    BY <1>1 DEF Byte, Bytes, Tasks
  <2> QED BY <1>2, <2>1 DEF Arguments
<1>4. WriteGuestBytes(t, "args", bytes, "run") /\ UNCHANGED <<limits, supply, next_handle, tasks>>
  BY <1>2 DEF SendArguments
<1> QED BY <1>1, <1>3, <1>4, WriteKeeps

\* Packing a pointer and a length, and taking them apart.
LEMMA Packing ==
  /\ \A ptr, len \in Nat : Pack(ptr, len) \in Nat
  /\ \A packed \in Nat : Unpack(packed).ptr \in Nat /\ Unpack(packed).len \in Nat
<1>1. ASSUME NEW ptr \in Nat, NEW len \in Nat PROVE Pack(ptr, len) \in Nat
  <2>1. len * Word \in Nat
    BY Sizes
  <2> QED BY <2>1 DEF Pack
<1>2. ASSUME NEW packed \in Nat PROVE Unpack(packed).ptr \in Nat /\ Unpack(packed).len \in Nat
  <2>1. Word \in Nat \ {0}
    BY Sizes
  <2>2. packed % Word \in Nat /\ packed \div Word \in Nat
    BY <2>1
  <2> QED BY <2>2 DEF Unpack
<1> QED BY <1>1, <1>2

\* What a guest function returns is a number.
LEMMA ReturnedIsNat ==
  ASSUME NEW bytes, NEW doing, NEW args \in [ptr : Nat, len : Nat]
  PROVE  Returned(bytes, doing, args) \in Nat
<1>1. Pack(0, 1) \in Nat /\ Pack(1, 1) \in Nat /\ Pack(0, 0) \in Nat
  BY Packing
<1>2. Pack(Word - 1, 1) \in Nat /\ AllOnes \in Nat
  <2>1. Word - 1 \in Nat
    BY Sizes
  <2> QED BY <2>1, Packing DEF AllOnes
<1>3. Pack(args.ptr, args.len) \in Nat
  BY Packing
<1> HIDE DEF Pack
<1> QED BY <1>1, <1>2, <1>3 DEF Returned

\* Guest code runs.
LEMMA RunKeeps ==
  ASSUME IInv, NEW t \in Threads, Run(t) PROVE IInv'
<1>1. /\ pc[t] = "run" /\ pc[t] \in Inside
      /\ UNCHANGED <<limits, supply, next_handle, tasks>>
  BY DEF Run, Inside
<1>2. /\ task[t].handle \in DOMAIN modules[Mine(t)] /\ IsGuest(Guest(t))
      /\ Mine(t) \in Runtimes /\ TypeOK /\ task[t] \in Tasks /\ refs[t] \in RefsType
  BY <1>1, InsideFacts DEF IInv
<1>3. limits.fuel \in Nat \ {0} /\ Guest(t).fuel \in Nat
  BY <1>2, Tank DEF IsGuest
<1>4. /\ task[t].doing # "call" => Guest(t).fuel = limits.fuel
      /\ task[t].doing = "call" => Guest(t).bytes = "spinner" \/ Guest(t).fuel = limits.fuel - 2
  BY <1>1 DEF IInv, Fuelled
<1> DEFINE spins == task[t].doing = "call" /\ Guest(t).bytes = "spinner"
           word == Returned(Guest(t).bytes, task[t].doing,
                            [ptr |-> refs[t].args, len |-> task[t].length])
           returns(left) == /\ Becomes(t, left)
                            /\ refs' = [refs EXCEPT ![t].packed = word]
                            /\ Goes(t, "read") /\ UNCHANGED <<lock, task, log>>
<1>5. CASE Guest(t).fuel = 0 /\ Fail(t, Guest(t), "fuel")
  <2>1. task[t].doing = "call" /\ (limits.fuel < 3 \/ Guest(t).bytes = "spinner")
    BY <1>3, <1>4, <1>5
  <2> QED BY <1>1, <1>2, <1>5, <2>1, FailKeeps
<1>6. CASE /\ Guest(t).fuel > 0 /\ spins
           /\ Becomes(t, [Guest(t) EXCEPT !.fuel = @ - 1])
           /\ UNCHANGED <<lock, task, pc, refs, log>>
  <2> DEFINE left == [Guest(t) EXCEPT !.fuel = Guest(t).fuel - 1]
  <2>1. Guest(t).fuel - 1 \in 0..limits.fuel
    BY <1>2, <1>3, <1>6 DEF IsGuest
  <2>2. IsGuest(left) /\ left.bytes = Guest(t).bytes
    BY <1>2, <2>1, RefuelledIsGuest
  <2>3. Becomes(t, left)
    BY <1>6
  <2> HIDE DEF left
  <2>4. Rewrote(t, left)
    BY <1>1, <1>2, <2>2, <2>3, BecomesRewrites
  <2>5. Goes(t, "run")
    BY <1>1, <1>6 DEF Goes, IInv, TypeOK
  <2>6. Guest(t)'.bytes = "spinner" /\ pc'[t] = "run" /\ task' = task
    BY <1>1, <1>6, <2>2, <2>4 DEF Rewrote, Guest, Mine
  <2>7. Fuelled(t)'
    BY <1>6, <2>6 DEF Fuelled
  <2>8. refs' \in [Threads -> RefsType] /\ "run" \in Inside
    BY <1>6 DEF IInv, TypeOK, RefsType, Inside
  <2> QED BY <1>1, <1>6, <2>4, <2>5, <2>7, <2>8, GoesOn
<1>7. CASE Fail(t, Guest(t), "grow")
  BY <1>1, <1>2, <1>7, FailKeeps
<1>8. ASSUME NEW left, IsGuest(left), left.bytes = Guest(t).bytes, returns(left),
             Guest(t).fuel > 0, ~spins
      PROVE  IInv'
  <2>1. Rewrote(t, left)
    BY <1>1, <1>2, <1>8, BecomesRewrites
  <2>2. word \in Nat
    BY <1>2, ReturnedIsNat DEF Tasks, RefsType
  <2>3. refs' \in [Threads -> RefsType]
    <3> HIDE DEF word
    <3> QED BY <1>8, <2>2 DEF IInv, TypeOK, RefsType
  <2>4. pc'[t] = "read" /\ task' = task /\ limits' = limits
    BY <1>1, <1>8 DEF Goes, IInv, TypeOK
  <2>5. task[t].doing = "call" => limits.fuel >= 3
    BY <1>3, <1>4, <1>8
  <2>6. Fuelled(t)'
    BY <2>4, <2>5 DEF Fuelled
  <2>7. "read" \in Inside
    BY DEF Inside
  <2> QED BY <1>1, <1>8, <2>1, <2>3, <2>6, <2>7, GoesOn
<1>9. CASE Guest(t).fuel > 0 /\ ~spins /\ returns(Grown(Guest(t)))
  <2>1. IsGuest(Grown(Guest(t))) /\ Grown(Guest(t)).bytes = Guest(t).bytes
    BY <1>2, <1>9, GrownIsGuest
  <2> HIDE DEF returns, spins
  <2> QED BY <1>8, <1>9, <2>1
<1>10. CASE Guest(t).fuel > 0 /\ ~spins /\ returns(Ran(Guest(t), task[t].doing))
  <2>1. /\ IsGuest(Ran(Guest(t), task[t].doing))
        /\ Ran(Guest(t), task[t].doing).bytes = Guest(t).bytes
    BY <1>2, <1>10, RanIsGuest
  <2> HIDE DEF returns, spins
  <2> QED BY <1>8, <1>10, <2>1
<1> QED BY <1>5, <1>6, <1>7, <1>9, <1>10 DEF Run

\* The loader goes back in for the export table.
LEMMA LoaderTurns ==
  ASSUME IInv, NEW t \in Threads, pc[t] = "read", Rewrote(t, Guest(t)), Leaves(t),
         task[t].kind = "load", task' = [task EXCEPT ![t].doing = "exports"],
         Goes(t, "enter"), UNCHANGED <<refs, log>>
  PROVE  IInv'
<1>1. /\ Mine(t) \in Runtimes /\ Alone(t) /\ lock[Mine(t)] = t /\ task[t] \in Tasks
      /\ task[t].handle \in DOMAIN modules[Mine(t)] /\ pc[t] \in Inside
  BY InsideFacts DEF Inside
<1>2. /\ pc \in [Threads -> Inside \union {"idle", "compile", "mint", "enter"}]
      /\ task \in [Threads -> Tasks] /\ lock \in [Runtimes -> Threads \union {NoThread}]
  BY DEF IInv, TypeOK
<1>3. /\ pc'[t] = "enter" /\ task'[t] = [task[t] EXCEPT !.doing = "exports"]
      /\ \A u \in Threads \ {t} : pc'[u] = pc[u] /\ task'[u] = task[u]
  BY <1>2 DEF Goes
<1>4. /\ SharedKept /\ Undisturbed(t)
      /\ \A r \in Runtimes : DOMAIN modules'[r] = 1..next_handle'[r]
      /\ (\A r \in Runtimes : \A h \in DOMAIN modules[r] : IsGuest(modules[r][h]))'
  BY <1>1, <1>3, RewroteKeeps
<1>5. /\ lock'[Mine(t)] = NoThread
      /\ \A r \in Runtimes : r # Mine(t) => lock'[r] = lock[r]
  BY <1>1, <1>2 DEF Leaves
<1>6. task'[t] \in Tasks /\ task'[t].kind = "load" /\ task'[t].runtime = task[t].runtime
        /\ task'[t].doing = "exports"
  BY <1>1, <1>3 DEF Tasks
<1>7. \A u \in Threads : Mine(u)' = Mine(u) /\ Mine(u) \in Runtimes
  BY <1>2, <1>3, <1>6 DEF Mine, Tasks
<1>8. Owned'
  <2> SUFFICES ASSUME NEW r \in Runtimes, NEW u \in Threads
               PROVE  lock'[r] = u <=> pc'[u] \in Inside /\ Mine(u)' = r
    BY DEF Owned
  <2>1. CASE u = t
    BY <1>1, <1>3, <1>5, <2>1, ThreadsAssumption DEF IInv, Owned, Inside
  <2>2. CASE u # t /\ r = Mine(t)
    BY <1>1, <1>3, <1>5, <1>7, <2>2, ThreadsAssumption DEF Alone
  <2>3. CASE u # t /\ r # Mine(t)
    BY <1>3, <1>5, <1>7, <2>3 DEF IInv, Owned
  <2> QED BY <2>1, <2>2, <2>3
<1>9. TypeOK'
  <2>1. limits' = limits /\ supply' = supply /\ next_handle' = next_handle /\ tasks' = tasks
    BY DEF Rewrote
  <2>2. DOMAIN modules' = Runtimes
    BY DEF Rewrote
  <2>3. lock' \in [Runtimes -> Threads \union {NoThread}]
    BY <1>2 DEF Leaves
  <2>4. /\ task' \in [Threads -> Tasks]
        /\ pc' \in [Threads -> Inside \union {"idle", "compile", "mint", "enter"}]
    BY <1>2, <1>3, <1>6 DEF Goes
  <2>5. \A u \in Threads : pc'[u] \in Inside <=> lock'[Mine(u)'] = u
    BY <1>7, <1>8 DEF Owned
  <2> QED BY <1>4, <2>1, <2>2, <2>3, <2>4, <2>5 DEF IInv, TypeOK
<1>10. Asked(t)'
  BY <1>3, <1>6, <1>7 DEF IInv, Asked, Busy, Inside, Mine
<1>11. Placed(t)' /\ Fuelled(t)'
  BY <1>3, <1>6 DEF Placed, Fuelled, Inside
<1> QED BY <1>4, <1>8, <1>9, <1>10, <1>11, StepKeeps

\* The host reads the frame.
LEMMA ReadKeeps ==
  ASSUME IInv, NEW t \in Threads, Read(t) PROVE IInv'
<1>1. /\ pc[t] = "read" /\ pc[t] \in Inside
      /\ UNCHANGED <<limits, supply, next_handle, tasks>>
  BY DEF Read, Inside
<1>2. /\ task[t].handle \in DOMAIN modules[Mine(t)] /\ IsGuest(Guest(t))
      /\ Mine(t) \in Runtimes /\ TypeOK /\ task[t] \in Tasks /\ refs[t] \in RefsType
  BY <1>1, InsideFacts DEF IInv
<1> DEFINE frame == Unpack(refs[t].packed)
           held == [i \in 1..frame.len |-> Guest(t).memory[frame.ptr + i - 1]]
<1>3. frame.ptr \in Nat /\ frame.len \in Nat
  BY <1>2, Packing DEF RefsType
<1>4. CASE \E why \in {"limit", "range"} : Fail(t, Guest(t), why)
  BY <1>1, <1>2, <1>4, FailKeeps
<1>5. ASSUME UNCHANGED modules PROVE Rewrote(t, Guest(t))
  BY <1>1, <1>2, <1>5, ReadingRewrites
<1>6. ASSUME frame.ptr + frame.len <= Guest(t).size PROVE Ok(held) \in Results
  <2>1. Guest(t).size \in Nat /\ Guest(t).memory \in [0..(Guest(t).size - 1) -> Bytes]
    BY <1>2 DEF IsGuest
  <2> HIDE DEF frame
  <2>2. \A i \in 1..frame.len : Guest(t).memory[frame.ptr + i - 1] \in Bytes
    <3> TAKE i \in 1..frame.len
    <3>1. frame.ptr + i - 1 \in 0..(Guest(t).size - 1)
      BY <1>3, <1>6, <2>1
    <3> QED BY <2>1, <3>1
  <2>3. held \in Seq(Bytes)
    BY <1>3, <2>2
  <2> HIDE DEF held
  <2> QED BY <2>3 DEF Ok, Results, Reasons
<1>7. CASE /\ UNCHANGED modules /\ Leaves(t) /\ frame.ptr + frame.len <= Guest(t).size
           /\ \E result \in {Err("decode"), Ok(held)} : Answer(t, task[t], result)
  <2>1. PICK result \in {Err("decode"), Ok(held)} : Answer(t, task[t], result)
    BY <1>7
  <2>2. Err("decode") \in Results
    <3>1. <<>> \in Seq(Bytes)
      OBVIOUS
    <3> QED BY <3>1 DEF Err, Results, Reasons
  <2>3. result \in Results /\ result.why # "fuel"
    <3>1. Ok(held) \in Results
      BY <1>6, <1>7
    <3> HIDE DEF held
    <3>2. result \in Results
      BY <2>2, <3>1
    <3>3. Ok(held).why = "none" /\ Err("decode").why = "decode"
      BY DEF Ok, Err
    <3> QED BY <3>2, <3>3
  <2>4. task[t].doing = "call" => limits.fuel >= 3
    BY <1>1 DEF IInv, Fuelled
  <2>5. Explained(Reply(t, result))
    BY <2>3, <2>4 DEF Explained, Reply
  <2> QED BY <1>1, <1>5, <1>7, <2>1, <2>3, <2>5, GoesOut
<1>8. CASE /\ UNCHANGED <<modules, refs, log>> /\ Leaves(t) /\ task[t].kind = "load"
           /\ task' = [task EXCEPT ![t].doing = "exports"] /\ Goes(t, "enter")
  BY <1>1, <1>5, <1>8, LoaderTurns
<1> QED BY <1>4, <1>7, <1>8 DEF Read

-----------------------------------------------------------------------------
(* The steps outside. *)

Outside == {"idle", "compile", "mint", "enter"}

\* The types of the two tables.
Tables ==
  /\ next_handle \in [Runtimes -> Nat]
  /\ DOMAIN modules = Runtimes
  /\ \A r \in Runtimes : DOMAIN modules[r] = 1..next_handle[r]
  /\ \A r \in Runtimes : \A h \in DOMAIN modules[r] : IsGuest(modules[r][h])

\* A step that neither begins nor ends inside.
LEMMA OutsideKeeps ==
  ASSUME IInv, NEW t \in Threads, pc[t] \in Outside, NEW at \in Outside, NEW asked \in Tasks,
         Goes(t, at), task' = [task EXCEPT ![t] = asked],
         UNCHANGED <<limits, supply, lock>>, tasks' \in 0..MaxTasks,
         refs' \in [Threads -> RefsType], log' \subseteq [task : Tasks, result : Results],
         Tables', SharedKept, Undisturbed(t), Asked(t)', Placed(t)',
         \A e \in log' \ log : Explained(e)'
  PROVE  IInv'
<1>1. /\ pc \in [Threads -> Inside \union Outside] /\ task \in [Threads -> Tasks]
      /\ "idle" \notin Inside /\ Outside \intersect Inside = {}
  BY DEF IInv, TypeOK, Inside, Outside
<1>2. /\ pc'[t] = at /\ task'[t] = asked
      /\ \A u \in Threads \ {t} : pc'[u] = pc[u] /\ task'[u] = task[u]
  BY <1>1 DEF Goes
<1>3. \A u \in Threads : (pc'[u] \in Inside <=> pc[u] \in Inside)
  BY <1>1, <1>2
<1>4. /\ \A u \in Threads \ {t} : Mine(u)' = Mine(u)
      /\ \A u \in Threads : Mine(u)' \in Runtimes
  BY <1>1, <1>2 DEF Mine, Tasks
<1>5. Owned'
  <2> SUFFICES ASSUME NEW r \in Runtimes, NEW u \in Threads
               PROVE  lock'[r] = u <=> pc'[u] \in Inside /\ Mine(u)' = r
    BY DEF Owned
  <2>1. lock[r] = u <=> pc[u] \in Inside /\ Mine(u) = r
    BY DEF IInv, Owned
  <2>2. CASE u = t
    BY <1>1, <1>3, <2>1, <2>2
  <2>3. CASE u # t
    BY <1>3, <1>4, <2>1, <2>3
  <2> QED BY <2>2, <2>3
<1>6. TypeOK'
  <2>1. /\ task' \in [Threads -> Tasks]
        /\ pc' \in [Threads -> Inside \union {"idle", "compile", "mint", "enter"}]
    BY <1>1 DEF Goes, Outside
  <2>2. \A u \in Threads : pc'[u] \in Inside <=> lock'[Mine(u)'] = u
    BY <1>4, <1>5 DEF Owned
  <2> QED BY <2>1, <2>2 DEF IInv, TypeOK, Tables, RefsType
<1>7. Fuelled(t)'
  BY <1>2 DEF Fuelled, Outside
<1> QED BY <1>5, <1>6, <1>7, StepKeeps

\* The tables are left alone.
LEMMA TablesStay ==
  ASSUME IInv, NEW t \in Threads, UNCHANGED <<limits, next_handle, modules>>,
         \A u \in Threads \ {t} : task'[u] = task[u] /\ pc'[u] = pc[u]
  PROVE  Tables' /\ SharedKept /\ Undisturbed(t)
<1>1. Tables'
  BY DEF IInv, TypeOK, Tables, IsGuest
<1>2. \A u \in Threads \ {t} : Mine(u) \in Runtimes
  BY DEF IInv, TypeOK, Tasks, Mine
<1> QED BY <1>1, <1>2 DEF SharedKept, Undisturbed, Guest

\* The operation ends before it gets in.
LEMMA AnsweredOutside ==
  ASSUME IInv, NEW t \in Threads, pc[t] \in Outside, NEW asked \in Tasks,
         NEW result \in Results, Answer(t, asked, result), UNCHANGED <<limits, supply, lock, tasks>>,
         Tables', SharedKept, Undisturbed(t),
         result.why # "fuel", result.ok => asked.doing # "call"
  PROVE  IInv'
<1>1. NoTask \in Tasks /\ NoRefs \in RefsType /\ "idle" \in Outside
  BY DEF NoTask, NoRefs, Tasks, RefsType, Runtimes, Outside
<1>2. /\ task' = [task EXCEPT ![t] = NoTask] /\ pc' = [pc EXCEPT ![t] = "idle"]
      /\ Goes(t, "idle")
      /\ log' = log \union {[task |-> asked, result |-> result]}
  BY DEF Answer, Goes
<1>3. refs' \in [Threads -> RefsType] /\ log' \subseteq [task : Tasks, result : Results]
  BY <1>1 DEF IInv, TypeOK, Answer, RefsType
<1>4. pc'[t] = "idle" /\ task'[t] = NoTask
  BY <1>2 DEF IInv, TypeOK
<1>5. Asked(t)'
  BY <1>4 DEF Asked, Mine, NoTask, Busy, Inside
<1>6. Placed(t)'
  BY <1>4 DEF Placed, Busy, Inside
<1>7. \A e \in log' \ log : Explained(e)'
  <2> TAKE e \in log' \ log
  <2>1. Explained(e)
    BY <1>2 DEF Explained
  <2> QED BY <2>1, StaysExplained
<1>8. tasks' \in 0..MaxTasks
  BY DEF IInv, TypeOK
<1> QED BY <1>1, <1>2, <1>3, <1>5, <1>6, <1>7, <1>8, OutsideKeeps

\* Compiling.
LEMMA CompileKeeps ==
  ASSUME IInv, NEW t \in Threads, Compile(t) PROVE IInv'
<1>1. /\ pc[t] = "compile" /\ pc[t] \in Outside /\ task[t] \in Tasks
      /\ UNCHANGED <<limits, supply, lock, next_handle, modules, tasks>>
  BY DEF Compile, Outside, IInv, TypeOK, state
<1>2. ASSUME NEW at, Goes(t, at), \A u \in Threads \ {t} : task'[u] = task[u]
      PROVE  Tables' /\ SharedKept /\ Undisturbed(t)
  <2>1. \A u \in Threads \ {t} : pc'[u] = pc[u]
    BY <1>2 DEF Goes, IInv, TypeOK
  <2> QED BY <1>1, <1>2, <2>1, TablesStay
<1>3. CASE Answer(t, task[t], Err("module"))
  <2>1. Err("module") \in Results /\ Err("module").why # "fuel" /\ ~Err("module").ok
    <3>1. <<>> \in Seq(Bytes)
      OBVIOUS
    <3> QED BY <3>1 DEF Err, Results, Reasons
  <2>2. Goes(t, "idle") /\ \A u \in Threads \ {t} : task'[u] = task[u]
    BY <1>3 DEF Answer, IInv, TypeOK
  <2> QED BY <1>1, <1>2, <1>3, <2>1, <2>2, AnsweredOutside
<1>4. CASE Goes(t, "mint") /\ UNCHANGED <<task, refs, log>>
  <2>1. Tables' /\ SharedKept /\ Undisturbed(t)
    BY <1>2, <1>4
  <2>2. pc'[t] = "mint" /\ task' = [task EXCEPT ![t] = task[t]]
    BY <1>4 DEF Goes, IInv, TypeOK
  <2>3. refs' \in [Threads -> RefsType] /\ log' \subseteq [task : Tasks, result : Results]
          /\ tasks' \in 0..MaxTasks /\ log' \ log = {}
    BY <1>1, <1>4 DEF IInv, TypeOK, RefsType
  <2>4. Asked(t)' /\ Placed(t)'
    BY <1>1, <1>4, <2>2 DEF IInv, Asked, Placed, Mine, Busy, Inside
  <2>5. "mint" \in Outside
    BY DEF Outside
  <2> QED BY <1>1, <1>4, <2>1, <2>2, <2>3, <2>4, <2>5, OutsideKeeps
<1> QED BY <1>3, <1>4 DEF Compile

\* The handle is counted up and names the guest.
Minted(t, handle, guest) ==
  /\ limits' = limits /\ handle = next_handle[Mine(t)] + 1
  /\ next_handle' = [next_handle EXCEPT ![Mine(t)] = handle]
  /\ modules' = [modules EXCEPT ![Mine(t)] = Inserted(modules[Mine(t)], handle, guest)]

\* A handle that is counted up is new, and names what was compiled.
LEMMA MintedTables ==
  ASSUME IInv, NEW t \in Threads, NEW guest, IsGuest(guest), lock[Mine(t)] = NoThread,
         NEW handle, Minted(t, handle, guest),
         \A u \in Threads \ {t} : task'[u] = task[u] /\ pc'[u] = pc[u]
  PROVE  /\ Tables' /\ SharedKept /\ Undisturbed(t)
         /\ handle \in DOMAIN modules'[Mine(t)] /\ modules'[Mine(t)][handle] = guest
<1> DEFINE r0 == Mine(t)
           now == Inserted(modules[r0], handle, guest)
<1>1. /\ r0 \in Runtimes /\ \A u \in Threads : Mine(u) \in Runtimes
      /\ Shared \in Runtimes
  BY DEF IInv, TypeOK, Tasks, Mine, Runtimes
<1>2. /\ next_handle \in [Runtimes -> Nat] /\ DOMAIN modules = Runtimes
      /\ \A r \in Runtimes : DOMAIN modules[r] = 1..next_handle[r]
  BY DEF IInv, TypeOK
<1>3. /\ modules' = [modules EXCEPT ![r0] = now] /\ limits' = limits
      /\ handle = next_handle[r0] + 1 /\ next_handle' = [next_handle EXCEPT ![r0] = handle]
  BY DEF Minted
<1>4. /\ DOMAIN now = 1..handle /\ now[handle] = guest
      /\ \A h \in DOMAIN modules[r0] : h \in DOMAIN now /\ now[h] = modules[r0][h]
  BY <1>1, <1>2, <1>3 DEF Inserted
<1>5. Alone(t)
  BY HolderAlone
<1> HIDE DEF r0, now
<1>6. /\ modules'[r0] = now /\ DOMAIN modules' = Runtimes
      /\ \A r \in Runtimes : r # r0 => modules'[r] = modules[r]
  BY <1>1, <1>2, <1>3
<1>7. \A r \in Runtimes : \A h \in DOMAIN modules[r] :
        h \in DOMAIN modules'[r] /\ modules'[r][h] = modules[r][h]
  BY <1>4, <1>6
<1>8. (\A r \in Runtimes : \A h \in DOMAIN modules[r] : IsGuest(modules[r][h]))'
  <2> SUFFICES ASSUME NEW r \in Runtimes, NEW h \in DOMAIN modules'[r]
               PROVE  IsGuest(modules[r][h])'
    BY DEF Runtimes
  <2>0. limits' = limits
    BY <1>3
  <2>1. (r = r0 /\ h = handle) \/ h \in DOMAIN modules[r]
    BY <1>1, <1>2, <1>3, <1>4, <1>6
  <2>2. IsGuest(modules'[r][h])
    <3>1. CASE h \in DOMAIN modules[r]
      BY <1>7, <3>1 DEF IInv, TypeOK
    <3>2. CASE r = r0 /\ h = handle
      BY <1>4, <1>6, <3>2
    <3> QED BY <2>1, <3>1, <3>2
  <2> QED BY <2>0, <2>2 DEF IsGuest
<1>9. /\ next_handle' \in [Runtimes -> Nat]
      /\ \A r \in Runtimes : DOMAIN modules'[r] = 1..next_handle'[r]
  BY <1>1, <1>2, <1>3, <1>4, <1>6
<1>10. Tables'
  BY <1>6, <1>8, <1>9 DEF Tables
<1>11. SharedKept
  BY <1>1, <1>7 DEF SharedKept
<1>12. Undisturbed(t)
  <2>1. \A u \in Threads \ {t} : pc[u] \in Inside =>
          modules'[Mine(u)][task[u].handle] = Guest(u)
    BY <1>1, <1>7 DEF IInv, Placed, Guest
  <2> QED BY <1>1, <1>3, <1>7, <2>1 DEF Undisturbed
<1>13. handle \in DOMAIN now
  BY <1>1, <1>2, <1>3, <1>4
<1> QED BY <1>4, <1>6, <1>10, <1>11, <1>12, <1>13 DEF r0

\* The handle is minted and the instance inserted.
LEMMA MintKeeps ==
  ASSUME IInv, NEW t \in Threads, Mint(t) PROVE IInv'
<1> DEFINE handle == next_handle[Mine(t)] + 1
           asked == [task[t] EXCEPT !.handle = handle]
           guest == Instance(task[t].bytes)
<1>1. /\ pc[t] = "mint" /\ pc[t] \in Outside /\ lock[Mine(t)] = NoThread
      /\ UNCHANGED <<limits, supply, lock, tasks>> /\ task[t] \in Tasks
      /\ Mine(t) \in Runtimes /\ TypeOK
  BY DEF Mint, Outside, IInv, TypeOK, Tasks, Mine
<1>2. handle \in Nat /\ asked \in Tasks /\ asked.bytes = task[t].bytes
        /\ asked.handle = handle /\ asked.runtime = task[t].runtime
        /\ asked.kind = task[t].kind /\ asked.doing = task[t].doing
  <2>1. handle \in Nat
    BY <1>1 DEF TypeOK
  <2> HIDE DEF handle
  <2> QED BY <1>1, <2>1 DEF Tasks
<1>3. task[t].bytes \in Modules
  BY <1>1 DEF IInv, Asked
<1>4. IsGuest(guest) /\ guest.bytes = task[t].bytes
  BY <1>1, <1>3, InstanceIsGuest
<1>5. Minted(t, handle, guest)
  BY <1>1, <1>2 DEF Mint, Minted
<1>6. ASSUME \A u \in Threads \ {t} : task'[u] = task[u] /\ pc'[u] = pc[u]
      PROVE  /\ Tables' /\ SharedKept /\ Undisturbed(t)
             /\ handle \in DOMAIN modules'[Mine(t)] /\ modules'[Mine(t)][handle] = guest
  <2>1. PICK h : h = handle
    OBVIOUS
  <2>2. PICK g : g = guest
    OBVIOUS
  <2> HIDE DEF guest
  <2>3. IsGuest(g) /\ Minted(t, h, g)
    BY <1>4, <1>5, <2>1, <2>2
  <2>4. /\ Tables' /\ SharedKept /\ Undisturbed(t)
        /\ h \in DOMAIN modules'[Mine(t)] /\ modules'[Mine(t)][h] = g
    BY <1>1, <1>6, <2>3, MintedTables
  <2> QED BY <2>1, <2>2, <2>4
<1> HIDE DEF guest, asked, handle
<1>7. CASE asked.kind = "instantiate" /\ Answer(t, asked, Ok(<<>>))
  <2>1. Ok(<<>>) \in Results /\ Ok(<<>>).why # "fuel"
    <3>1. <<>> \in Seq(Bytes)
      OBVIOUS
    <3> QED BY <3>1 DEF Ok, Results, Reasons
  <2>2. asked.doing # "call"
    BY <1>1, <1>2, <1>7 DEF IInv, Asked
  <2>3. \A u \in Threads \ {t} : task'[u] = task[u] /\ pc'[u] = pc[u]
    BY <1>7 DEF Answer, Goes, IInv, TypeOK
  <2> QED BY <1>1, <1>2, <1>6, <1>7, <2>1, <2>2, <2>3, AnsweredOutside
<1>8. CASE /\ asked.kind # "instantiate" /\ task' = [task EXCEPT ![t] = asked]
           /\ Goes(t, "enter") /\ UNCHANGED <<refs, log>>
  <2>1. /\ pc'[t] = "enter" /\ task'[t] = asked
        /\ \A u \in Threads \ {t} : task'[u] = task[u] /\ pc'[u] = pc[u]
    BY <1>8 DEF Goes, IInv, TypeOK
  <2>2. Mine(t)' = Mine(t)
    BY <1>2, <2>1 DEF Mine
  <2>3. Asked(t)'
    BY <1>1, <1>2, <1>8, <2>1, <2>2 DEF IInv, Asked
  <2>4. Placed(t)'
    <3>1. handle \in DOMAIN modules'[Mine(t)] /\ modules'[Mine(t)][handle] = guest
      BY <1>6, <2>1
    <3>2. task[t].kind = "fresh" => Mine(t) = t
      BY DEF IInv, Asked
    <3> QED BY <1>2, <1>4, <2>1, <2>2, <3>1, <3>2 DEF Placed, Guest, Inside
  <2>5. /\ refs' \in [Threads -> RefsType] /\ log' \subseteq [task : Tasks, result : Results]
        /\ tasks' \in 0..MaxTasks /\ log' \ log = {} /\ "enter" \in Outside
    BY <1>1, <1>8 DEF TypeOK, RefsType, Outside
  <2> QED BY <1>1, <1>2, <1>6, <1>8, <2>1, <2>3, <2>4, <2>5, OutsideKeeps
<1> QED BY <1>7, <1>8 DEF Mint, asked, handle

\* The mutex is taken and the tank filled.
LEMMA GoesIn ==
  ASSUME IInv, NEW t \in Threads, pc[t] = "enter", lock[Mine(t)] = NoThread,
         task[t].handle \in DOMAIN modules[Mine(t)],
         lock' = [lock EXCEPT ![Mine(t)] = t],
         NEW guest, Rewrote(t, guest), guest.fuel = limits.fuel,
         Goes(t, IF task[t].doing = "call" THEN "name" ELSE "run"),
         UNCHANGED <<task, refs, log>>
  PROVE  IInv'
<1>1. Mine(t) \in Runtimes /\ Alone(t) /\ \A u \in Threads : Mine(u) \in Runtimes
  BY HolderAlone DEF IInv, TypeOK, Tasks, Mine
<1>2. /\ pc \in [Threads -> Inside \union {"idle", "compile", "mint", "enter"}]
      /\ lock \in [Runtimes -> Threads \union {NoThread}]
  BY DEF IInv, TypeOK
<1>3. /\ pc'[t] = IF task[t].doing = "call" THEN "name" ELSE "run"
      /\ pc'[t] \in Inside
      /\ \A u \in Threads \ {t} : pc'[u] = pc[u] /\ task'[u] = task[u]
  BY <1>2 DEF Goes, Inside
<1>4. /\ SharedKept /\ Undisturbed(t)
      /\ \A r \in Runtimes : DOMAIN modules'[r] = 1..next_handle'[r]
      /\ (\A r \in Runtimes : \A h \in DOMAIN modules[r] : IsGuest(modules[r][h]))'
  BY <1>1, <1>3, RewroteKeeps
<1>5. /\ lock'[Mine(t)] = t
      /\ \A r \in Runtimes : r # Mine(t) => lock'[r] = lock[r]
  BY <1>1, <1>2
<1>6. \A u \in Threads : Mine(u)' = Mine(u)
  BY DEF Mine
<1>7. Owned'
  <2> SUFFICES ASSUME NEW r \in Runtimes, NEW u \in Threads
               PROVE  lock'[r] = u <=> pc'[u] \in Inside /\ Mine(u)' = r
    BY DEF Owned
  <2>1. lock[r] = u <=> pc[u] \in Inside /\ Mine(u) = r
    BY DEF IInv, Owned
  <2>2. CASE u = t
    BY <1>1, <1>3, <1>5, <1>6, <2>1, <2>2 DEF Inside
  <2>3. CASE u # t /\ r = Mine(t)
    BY <1>1, <1>3, <1>5, <1>6, <2>3 DEF Alone
  <2>4. CASE u # t /\ r # Mine(t)
    BY <1>3, <1>5, <1>6, <2>1, <2>4
  <2> QED BY <2>2, <2>3, <2>4
<1>8. TypeOK'
  <2>1. limits' = limits /\ supply' = supply /\ next_handle' = next_handle /\ tasks' = tasks
    BY DEF Rewrote
  <2>2. DOMAIN modules' = Runtimes
    BY DEF Rewrote
  <2>3. lock' \in [Runtimes -> Threads \union {NoThread}]
    BY <1>2
  <2>4. pc' \in [Threads -> Inside \union {"idle", "compile", "mint", "enter"}]
    BY <1>2, <1>3 DEF Goes
  <2>5. \A u \in Threads : pc'[u] \in Inside <=> lock'[Mine(u)'] = u
    BY <1>1, <1>6, <1>7 DEF Owned
  <2> QED BY <1>4, <2>1, <2>2, <2>3, <2>4, <2>5 DEF IInv, TypeOK
<1>9. Asked(t)'
  BY <1>3, <1>6 DEF IInv, Asked, Busy, Inside
<1>10. Guest(t)' = guest /\ task' = task /\ limits' = limits
  BY <1>6 DEF Rewrote, Guest
<1>11. Placed(t)'
  <2>1. task[t].handle \in DOMAIN modules'[Mine(t)]
    BY <1>1 DEF Rewrote
  <2>2. task[t].kind = "fresh" => Mine(t) = t /\ Guest(t).bytes = task[t].bytes
    BY DEF IInv, Asked, Placed, Busy
  <2>3. guest.bytes = Guest(t).bytes
    BY DEF Rewrote
  <2> QED BY <1>6, <1>10, <2>1, <2>2, <2>3 DEF Placed
<1>12. Fuelled(t)'
  BY <1>3, <1>10 DEF Fuelled
<1> QED BY <1>4, <1>7, <1>8, <1>9, <1>11, <1>12, StepKeeps

\* Entering the runtime.
LEMMA EnterKeeps ==
  ASSUME IInv, NEW t \in Threads, Enter(t) PROVE IInv'
<1>1. /\ pc[t] = "enter" /\ pc[t] \in Outside /\ lock[Mine(t)] = NoThread
      /\ UNCHANGED <<limits, supply, next_handle, tasks>> /\ task[t] \in Tasks
      /\ Mine(t) \in Runtimes /\ TypeOK
  BY DEF Enter, Outside, IInv, TypeOK, Tasks, Mine
<1>2. CASE Answer(t, task[t], Err("handle")) /\ UNCHANGED <<lock, modules>>
  <2>1. Err("handle") \in Results /\ Err("handle").why # "fuel" /\ ~Err("handle").ok
    <3>1. <<>> \in Seq(Bytes)
      OBVIOUS
    <3> QED BY <3>1 DEF Err, Results, Reasons
  <2>2. \A u \in Threads \ {t} : task'[u] = task[u] /\ pc'[u] = pc[u]
    BY <1>2 DEF Answer, Goes, IInv, TypeOK
  <2>3. Tables' /\ SharedKept /\ Undisturbed(t)
    BY <1>1, <1>2, <2>2, TablesStay
  <2> QED BY <1>1, <1>2, <2>1, <2>3, AnsweredOutside
<1>3. CASE /\ task[t].handle \in DOMAIN modules[Mine(t)]
           /\ lock' = [lock EXCEPT ![Mine(t)] = t]
           /\ Becomes(t, [Guest(t) EXCEPT !.fuel = limits.fuel])
           /\ Goes(t, IF task[t].doing = "call" THEN "name" ELSE "run")
           /\ UNCHANGED <<task, refs, log>>
  <2> DEFINE guest == [Guest(t) EXCEPT !.fuel = limits.fuel]
  <2>1. limits.fuel \in 0..limits.fuel
    BY <1>1, Tank
  <2>2. IsGuest(Guest(t))
    BY <1>1, <1>3 DEF TypeOK, Guest
  <2>3. IsGuest(guest) /\ guest.bytes = Guest(t).bytes /\ guest.fuel = limits.fuel
    BY <2>1, <2>2, RefuelledIsGuest
  <2>4. Becomes(t, guest)
    BY <1>3
  <2> HIDE DEF guest
  <2>5. Rewrote(t, guest)
    BY <1>1, <1>3, <2>3, <2>4, BecomesRewrites
  <2>6. PICK g : g = guest
    OBVIOUS
  <2>7. Rewrote(t, g) /\ g.fuel = limits.fuel
    BY <2>3, <2>5, <2>6
  <2> QED BY <1>1, <1>3, <2>7, GoesIn
<1> QED BY <1>2, <1>3 DEF Enter

\* An operation begins.
LEMMA BeginKeeps ==
  ASSUME IInv, NEW t \in Threads, NEW asked \in Tasks, NEW at \in {"compile", "enter"},
         Begin(t, asked, at), Tables', SharedKept,
         Undisturbed(t), asked.doing # "none" <=> asked.kind # "instantiate",
         asked.runtime = IF asked.kind = "fresh" THEN t ELSE Shared,
         at = "compile" => asked.bytes \in Modules,
         at = "enter" => asked.kind # "fresh" /\ asked.kind # "instantiate"
  PROVE  IInv'
<1> DEFINE now == [asked EXCEPT !.ticket = tasks + 1]
<1>1. /\ pc[t] \in Outside /\ tasks \in Nat /\ tasks < MaxTasks /\ tasks' = tasks + 1
      /\ task' = [task EXCEPT ![t] = now] /\ Goes(t, at)
      /\ UNCHANGED <<limits, supply, lock, refs, log>>
  BY DEF Begin, Goes, Outside, IInv, TypeOK
<1>2. /\ now \in Tasks /\ now.doing = asked.doing /\ now.kind = asked.kind
      /\ now.runtime = asked.runtime /\ now.bytes = asked.bytes
  BY <1>1 DEF Tasks
<1> HIDE DEF now
<1>3. at \in Outside
  BY DEF Outside
<1>4. pc'[t] = at /\ task'[t] = now
  BY <1>1 DEF Goes, IInv, TypeOK
<1>5. Asked(t)'
  BY <1>2, <1>4 DEF Asked, Mine, Busy, Inside
<1>6. Placed(t)'
  BY <1>2, <1>4 DEF Placed, Busy, Inside
<1>7. tasks' \in 0..MaxTasks
  BY <1>1, SizesAssumption
<1>8. /\ refs' \in [Threads -> RefsType] /\ log' \subseteq [task : Tasks, result : Results]
      /\ log' \ log = {}
  BY <1>1 DEF IInv, TypeOK, RefsType
<1> QED BY <1>1, <1>2, <1>3, <1>5, <1>6, <1>7, <1>8, OutsideKeeps

\* What a runtime is supplied with.
LEMMA Supplied ==
  ASSUME TypeOK
  PROVE  supply.modules \subseteq Modules /\ supply.lengths \subseteq Nat
BY SizesAssumption DEF TypeOK, Modules

\* Beginning to work on a shared runtime leaves the tables alone.
LEMMA BeginShared ==
  ASSUME IInv, NEW t \in Threads, NEW asked \in Tasks, NEW at \in {"compile", "enter"},
         Begin(t, asked, at), UNCHANGED <<next_handle, modules>>,
         asked.doing # "none" <=> asked.kind # "instantiate",
         asked.kind # "fresh", asked.runtime = Shared,
         at = "compile" => asked.bytes \in Modules,
         at = "enter" => asked.kind # "instantiate"
  PROVE  IInv'
<1>1. limits' = limits /\ \A u \in Threads \ {t} : task'[u] = task[u] /\ pc'[u] = pc[u]
  BY DEF Begin, IInv, TypeOK
<1>2. Tables' /\ SharedKept /\ Undisturbed(t)
  BY <1>1, TablesStay
<1> QED BY <1>2, BeginKeeps

\* instantiate_bytes and the loader.
LEMMA CompilersKeep ==
  ASSUME IInv, NEW t \in Threads, Instantiate(t) \/ Load(t) PROVE IInv'
<1>1. supply.modules \subseteq Modules
  BY Supplied DEF IInv
<1>2. CASE Instantiate(t)
  <2>1. PICK bytes \in supply.modules :
          /\ Begin(t, [NoTask EXCEPT !.kind = "instantiate", !.bytes = bytes], "compile")
          /\ UNCHANGED <<next_handle, modules>>
    BY <1>2 DEF Instantiate
  <2>2. PICK asked : asked = [NoTask EXCEPT !.kind = "instantiate", !.bytes = bytes]
    OBVIOUS
  <2>3. /\ asked \in Tasks /\ asked.doing = "none" /\ asked.kind = "instantiate"
        /\ asked.runtime = Shared /\ asked.bytes \in Modules
    BY <1>1, <2>2 DEF NoTask, Tasks, Runtimes
  <2>4. Begin(t, asked, "compile") /\ UNCHANGED <<next_handle, modules>>
    BY <2>1, <2>2
  <2> QED BY <2>3, <2>4, BeginShared
<1>3. CASE Load(t)
  <2>1. PICK bytes \in supply.modules :
          /\ Begin(t, [NoTask EXCEPT !.kind = "load", !.bytes = bytes, !.doing = "manifest"],
                   "compile")
          /\ UNCHANGED <<next_handle, modules>>
    BY <1>3 DEF Load
  <2>2. PICK asked : asked = [NoTask EXCEPT !.kind = "load", !.bytes = bytes,
                                            !.doing = "manifest"]
    OBVIOUS
  <2>3. /\ asked \in Tasks /\ asked.doing = "manifest" /\ asked.kind = "load"
        /\ asked.runtime = Shared /\ asked.bytes \in Modules
    BY <1>1, <2>2 DEF NoTask, Tasks, Runtimes
  <2>4. Begin(t, asked, "compile") /\ UNCHANGED <<next_handle, modules>>
    BY <2>1, <2>2
  <2> QED BY <2>3, <2>4, BeginShared
<1> QED BY <1>2, <1>3

\* Calls on a handle.
LEMMA CallHostKeeps ==
  ASSUME IInv, NEW t \in Threads, CallHost(t) PROVE IInv'
<1>1. UNCHANGED <<next_handle, modules>>
  BY DEF CallHost
<1>2. DOMAIN modules[Shared] \subseteq Nat /\ next_handle[Shared] \in Nat
  BY DEF IInv, TypeOK, Runtimes
<1>3. supply.lengths \subseteq Nat
  BY Supplied DEF IInv
<1>4. CASE \E handle \in DOMAIN modules[Shared], kind \in {"manifest", "exports"} :
             Begin(t, [NoTask EXCEPT !.kind = kind, !.handle = handle, !.doing = kind], "enter")
  <2>1. PICK handle \in DOMAIN modules[Shared], kind \in {"manifest", "exports"} :
          Begin(t, [NoTask EXCEPT !.kind = kind, !.handle = handle, !.doing = kind], "enter")
    BY <1>4
  <2>2. PICK asked : asked = [NoTask EXCEPT !.kind = kind, !.handle = handle, !.doing = kind]
    OBVIOUS
  <2>3. /\ asked \in Tasks /\ asked.doing = kind /\ asked.kind = kind /\ asked.runtime = Shared
    BY <1>2, <2>2 DEF NoTask, Tasks, Runtimes
  <2>4. Begin(t, asked, "enter")
    BY <2>1, <2>2
  <2> QED BY <1>1, <2>3, <2>4, BeginShared
<1>5. CASE \E handle \in 1..(next_handle[Shared] + 1), length \in supply.lengths :
             Begin(t, [NoTask EXCEPT !.kind = "call", !.handle = handle, !.length = length,
                                     !.doing = "call"], "enter")
  <2>1. PICK handle \in 1..(next_handle[Shared] + 1), length \in supply.lengths :
          Begin(t, [NoTask EXCEPT !.kind = "call", !.handle = handle, !.length = length,
                                  !.doing = "call"], "enter")
    BY <1>5
  <2>2. PICK asked : asked = [NoTask EXCEPT !.kind = "call", !.handle = handle,
                                            !.length = length, !.doing = "call"]
    OBVIOUS
  <2>3. /\ asked \in Tasks /\ asked.doing = "call" /\ asked.kind = "call"
        /\ asked.runtime = Shared
    <3>1. handle \in Nat /\ length \in Nat
      BY <1>2, <1>3
    <3> QED BY <2>2, <3>1 DEF NoTask, Tasks, Runtimes
  <2>4. Begin(t, asked, "enter")
    BY <2>1, <2>2
  <2> QED BY <1>1, <2>3, <2>4, BeginShared
<1> QED BY <1>4, <1>5 DEF CallHost

\* A call on a runtime of its own, which nobody else uses.
LEMMA CallFreshKeeps ==
  ASSUME IInv, NEW t \in Threads, CallFresh(t) PROVE IInv'
<1>1. supply.modules \subseteq Modules /\ supply.lengths \subseteq Nat
  BY Supplied DEF IInv
<1>2. PICK bytes \in supply.modules, length \in supply.lengths :
        /\ Begin(t, [NoTask EXCEPT !.kind = "fresh", !.runtime = t, !.bytes = bytes,
                                   !.length = length, !.doing = "call"], "compile")
        /\ next_handle' = [next_handle EXCEPT ![t] = 0]
        /\ modules' = [modules EXCEPT ![t] = <<>>]
  BY DEF CallFresh
<1>3. PICK asked : asked = [NoTask EXCEPT !.kind = "fresh", !.runtime = t, !.bytes = bytes,
                                          !.length = length, !.doing = "call"]
  OBVIOUS
<1>4. /\ asked \in Tasks /\ asked.doing = "call" /\ asked.kind = "fresh"
      /\ asked.runtime = t /\ asked.bytes \in Modules
  BY <1>1, <1>3 DEF NoTask, Tasks, Runtimes
<1>5. Begin(t, asked, "compile")
  BY <1>2, <1>3
<1>6. limits' = limits /\ \A u \in Threads \ {t} : task'[u] = task[u] /\ pc'[u] = pc[u]
  BY <1>5 DEF Begin, IInv, TypeOK
<1>7. /\ t \in Runtimes /\ Shared \in Runtimes /\ Shared # t
      /\ \A u \in Threads \ {t} : Mine(u) \in Runtimes /\ Mine(u) # t
  BY ThreadsAssumption DEF IInv, TypeOK, Tasks, Mine, Runtimes, Asked
<1>8. /\ DOMAIN modules' = Runtimes /\ modules'[t] = <<>>
      /\ \A r \in Runtimes : r # t => modules'[r] = modules[r]
  BY <1>2, <1>7 DEF IInv, TypeOK
<1>9. DOMAIN modules'[t] = {}
  BY <1>8
<1>10. Tables'
  <2>1. /\ next_handle' \in [Runtimes -> Nat]
        /\ \A r \in Runtimes : DOMAIN modules'[r] = 1..next_handle'[r]
    BY <1>2, <1>7, <1>8, <1>9 DEF IInv, TypeOK
  <2>2. (\A r \in Runtimes : \A h \in DOMAIN modules[r] : IsGuest(modules[r][h]))'
    <3> SUFFICES ASSUME NEW r \in Runtimes, NEW h \in DOMAIN modules'[r]
                 PROVE  IsGuest(modules[r][h])'
      BY DEF Runtimes
    <3>1. modules'[r] = modules[r] /\ limits' = limits
      BY <1>6, <1>8, <1>9
    <3>2. IsGuest(modules'[r][h])
      BY <3>1 DEF IInv, TypeOK
    <3> QED BY <3>1, <3>2 DEF IsGuest
  <2> QED BY <1>8, <2>1, <2>2 DEF Tables
<1>11. SharedKept
  BY <1>7, <1>8 DEF SharedKept
<1>12. Undisturbed(t)
  BY <1>6, <1>7, <1>8 DEF Undisturbed, Guest
<1> QED BY <1>4, <1>5, <1>10, <1>11, <1>12, BeginKeeps

-----------------------------------------------------------------------------
(* The theorems. *)

\* A new runtime.
LEMMA Starts == ASSUME Init PROVE IInv
<1>1. /\ \A r \in Runtimes : modules[r] = <<>> /\ next_handle[r] = 0 /\ lock[r] = NoThread
      /\ \A t \in Threads : pc[t] = "idle" /\ task[t] = NoTask
      /\ log = {}
  BY DEF Init
<1>2. \A r \in Runtimes : DOMAIN modules[r] = {}
  BY <1>1
<1>3. NoTask \in Tasks /\ NoRefs \in [name : Nat, args : Nat, packed : Nat]
  BY DEF NoTask, NoRefs, Tasks, Runtimes
<1>4. \A t \in Threads : Mine(t) = Shared /\ Shared \in Runtimes
  BY <1>1 DEF Mine, NoTask, Runtimes
<1>5. TypeOK
  <2>1. DOMAIN modules = Runtimes /\ next_handle \in [Runtimes -> Nat]
          /\ lock \in [Runtimes -> Threads \union {NoThread}]
    BY DEF Init
  <2>2. \A r \in Runtimes : DOMAIN modules[r] = 1..next_handle[r]
    BY <1>1, <1>2
  <2>3. \A t \in Threads : pc[t] \in Inside <=> lock[Mine(t)] = t
    BY <1>1, <1>4, ThreadsAssumption DEF Inside
  <2>4. /\ task \in [Threads -> Tasks] /\ tasks \in 0..MaxTasks
        /\ pc \in [Threads -> Inside \union {"idle", "compile", "mint", "enter"}]
        /\ refs \in [Threads -> [name : Nat, args : Nat, packed : Nat]]
    BY <1>3, SizesAssumption DEF Init
  <2>5. \E s \in Settings : limits = s.limits /\ supply = s.supply
    BY DEF Init
  <2> QED BY <1>1, <1>2, <2>1, <2>2, <2>3, <2>4, <2>5 DEF TypeOK
<1>6. Owned
  BY <1>1, <1>4, ThreadsAssumption DEF Owned, Inside
<1>7. \A t \in Threads : Asked(t) /\ Placed(t) /\ Fuelled(t)
  BY <1>1, <1>4 DEF Asked, Placed, Fuelled, NoTask, Busy, Inside
<1> QED BY <1>1, <1>5, <1>6, <1>7 DEF IInv

\* Nothing happens.
LEMMA Stutters == ASSUME IInv, UNCHANGED vars PROVE IInv'
<1>1. UNCHANGED <<limits, supply, lock, next_handle, modules, tasks, task, pc, refs, log>>
  BY DEF vars, state
<1>2. TypeOK'
  BY <1>1 DEF IInv, TypeOK, IsGuest, Mine
<1>3. Owned'
  BY <1>1 DEF IInv, Owned, Mine
<1>4. \A t \in Threads : Asked(t)' /\ Placed(t)' /\ Fuelled(t)'
  BY <1>1 DEF IInv, Asked, Placed, Fuelled, Mine, Guest
<1>5. \A e \in log' : Explained(e)'
  BY <1>1 DEF IInv, Explained, ModuleOf
<1> QED BY <1>2, <1>3, <1>4, <1>5 DEF IInv

\* The invariant is inductive.
LEMMA Steps == ASSUME IInv, [Next]_vars PROVE IInv'
<1>1. CASE UNCHANGED vars
  BY <1>1, Stutters
<1>2. CASE Rest
  BY <1>2, Stutters DEF Rest
<1>3. ASSUME NEW t \in Threads, Asks(t) PROVE IInv'
  BY <1>3, CompilersKeep, CallFreshKeeps, CallHostKeeps DEF Asks
<1>4. ASSUME NEW t \in Threads, Step(t) PROVE IInv'
  BY <1>4, CompileKeeps, MintKeeps, EnterKeeps, SendNameKeeps, SendArgumentsKeeps,
     RunKeeps, ReadKeeps DEF Step
<1> QED BY <1>1, <1>2, <1>3, <1>4 DEF Next

\* It holds in every run.
LEMMA Invariance == Spec => []IInv
<1>1. Init => IInv
  BY Starts
<1>2. IInv /\ [Next]_vars => IInv'
  BY Steps
<1> QED BY <1>1, <1>2, PTL DEF Spec

\* The state keeps its types: handles are handed out without gaps, every
\* instance is a guest with a tank no fuller than the budget, and a thread is
\* in the critical section exactly while it holds the mutex of its runtime.
THEOREM TypeCorrect == Spec => []TypeOK
<1>1. IInv => TypeOK
  BY DEF IInv
<1> QED BY <1>1, Invariance, PTL

\* Two threads are never inside the same runtime: the guest code of an
\* instance runs for one host call at a time.
MutualExclusion ==
  \A t, u \in Threads :
    t # u /\ pc[t] \in Inside /\ pc[u] \in Inside => Mine(t) # Mine(u)

\* WasmiRuntime's mutex gives that, however many threads share it.
THEOREM OneCallAtATime == Spec => []MutualExclusion
<1>1. IInv => MutualExclusion
  <2> SUFFICES ASSUME IInv, NEW t \in Threads, NEW u \in Threads, t # u,
                      pc[t] \in Inside, pc[u] \in Inside
               PROVE  Mine(t) # Mine(u)
    BY DEF MutualExclusion
  <2>1. Alone(t)
    BY InsideFacts
  <2> QED BY <2>1 DEF Alone
<1> QED BY <1>1, Invariance, PTL

\* No operation pays for the fuel of another: one that is refused for want of
\* fuel has spent the budget itself, on every runtime and with every limit.
THEOREM FuelTheorem == Spec => []FuelIsPerOperation
<1>1. IInv => FuelIsPerOperation
  BY DEF IInv, Explained, FuelIsPerOperation
<1> QED BY <1>1, Invariance, PTL

(***************************************************************************)
(* Handles and answers.  On top of the mutex (IInv) the invariant says     *)
(* that an operation is known by its ticket, that handles in the answers   *)
(* name instances, and what a call leaves in linear memory on its way: the *)
(* arguments of an echo from the write to the read, the count of a counter *)
(* from the call to the read.  The mutex is what keeps those bytes.        *)
(***************************************************************************)

\* An operation on its way has a ticket nobody else has.
Ticketed(t) ==
  pc[t] # "idle" =>
    /\ task[t].ticket \in 1..tasks
    /\ \A u \in Threads \ {t} : pc[u] # "idle" => task[u].ticket # task[t].ticket
    /\ \A e \in log : e.task.ticket # task[t].ticket

\* What it was asked for decides what it does, and which handle it holds.
Kinded(t) ==
  /\ pc[t] # "idle" => (task[t].doing = "call" <=> task[t].kind \in {"call", "fresh"})
  /\ pc[t] \in {"compile", "mint"} => task[t].handle = 0
  /\ pc[t] \in Busy => task[t].kind # "instantiate"
  /\ pc[t] \in Busy /\ task[t].kind = "load" => task[t].handle \in DOMAIN modules[Shared]

\* Where the arguments of a call are.
Holds(guest, asked, ptr) ==
  /\ ptr \in 0..(Word - 1) /\ ptr + asked.length <= guest.size
  /\ \A i \in 1..asked.length : guest.memory[ptr + i - 1] = Byte("args", asked.ticket)

Calls(t, bytes) == task[t].doing = "call" /\ Guest(t).bytes = bytes

\* What the call of thread t has in the memory of its guest.
Carried(t) ==
  /\ pc[t] \in {"run", "read"} /\ Calls(t, "echo") => Holds(Guest(t), task[t], refs[t].args)
  /\ pc[t] = "read" /\ Calls(t, "echo") => refs[t].packed = Pack(refs[t].args, task[t].length)
  /\ pc[t] = "read" /\ Calls(t, "counter") =>
       refs[t].packed = Pack(0, 1) /\ <<Guest(t).memory[0]>> = Counted(Guest(t).counter)
  /\ task[t].kind = "fresh" /\ pc[t] \in Busy \ {"read"} => Guest(t).counter = 0
  /\ task[t].kind = "fresh" /\ pc[t] = "read" /\ Calls(t, "counter") => Guest(t).counter = 1

IsInstantiation(e) == e.task.kind = "instantiate" /\ e.result.ok
TakesHandle(asked) == asked.kind \in {"instantiate", "load"}

\* What an answer says of the table, and of the other answers.
Named(e) ==
  /\ e.task.ticket \in 1..tasks
  /\ TakesHandle(e.task) => e.task.handle \in 0..next_handle[Shared]
  /\ IsInstantiation(e) =>
       /\ e.task.handle \in DOMAIN modules[Shared]
       /\ modules[Shared][e.task.handle].bytes = e.task.bytes
       /\ \A f \in log \ {e} : TakesHandle(f.task) => f.task.handle # e.task.handle
       /\ \A t \in Threads : pc[t] \in Busy /\ task[t].kind = "load"
                               => task[t].handle # e.task.handle

SInv ==
  /\ \A t \in Threads : Ticketed(t) /\ Kinded(t) /\ Carried(t)
  /\ \A e \in log : Named(e)

\* Whatever thread t does, the others do not see it: in the critical section
\* or on a runtime of its own, a thread finds its guest as it left it.
Private(u) == pc[u] \in Inside \/ (pc[u] \in Busy /\ task[u].kind = "fresh")
Kept(t) ==
  /\ limits' = limits /\ SharedKept
  /\ \A u \in Threads \ {t} :
       /\ task'[u] = task[u] /\ pc'[u] = pc[u] /\ refs'[u] = refs[u]
       /\ Private(u) => Guest(u)' = Guest(u)

-----------------------------------------------------------------------------
(* Frames. *)

\* The other threads keep their part of the invariant.
LEMMA OthersCarry ==
  ASSUME IInv, SInv, NEW t \in Threads, Kept(t)
  PROVE  \A u \in Threads \ {t} : Kinded(u)' /\ Carried(u)'
<1> TAKE u \in Threads \ {t}
<1>1. /\ task'[u] = task[u] /\ pc'[u] = pc[u] /\ refs'[u] = refs[u]
      /\ Private(u) => Guest(u)' = Guest(u)
  BY DEF Kept
<1>2. Kinded(u) /\ Carried(u)
  BY DEF SInv
<1>3. Kinded(u)'
  BY <1>1, <1>2 DEF Kinded, Kept, SharedKept
<1>4. Carried(u)'
  <2>1. CASE Private(u)
    BY <1>1, <1>2, <2>1 DEF Carried, Calls, Holds
  <2>2. CASE ~Private(u)
    BY <1>1, <2>2 DEF Carried, Private, Busy, Inside
  <2> QED BY <2>1, <2>2
<1> QED BY <1>3, <1>4

\* Tickets: an operation keeps its own, a new one gets the next, and an
\* answer takes it away.
LEMMA TicketsKeep ==
  ASSUME IInv, SInv, NEW t \in Threads, Kept(t), log \subseteq log',
         \/ tasks' = tasks /\ pc[t] # "idle" /\ task'[t].ticket = task[t].ticket /\ log' = log
         \/ /\ tasks' = tasks /\ pc[t] # "idle" /\ pc'[t] = "idle"
            /\ \A e \in log' \ log : e.task.ticket = task[t].ticket
         \/ tasks' = tasks + 1 /\ task'[t].ticket = tasks + 1 /\ log' = log
  PROVE  /\ \A u \in Threads : Ticketed(u)'
         /\ \A e \in log' : e.task.ticket \in 1..tasks'
<1>1. /\ \A u \in Threads : Ticketed(u)
      /\ \A e \in log : e.task.ticket \in 1..tasks
      /\ tasks \in Nat
      /\ \A u \in Threads \ {t} : task'[u] = task[u] /\ pc'[u] = pc[u]
  BY DEF SInv, Named, Kept, IInv, TypeOK
<1>2. CASE tasks' = tasks /\ pc[t] # "idle" /\ task'[t].ticket = task[t].ticket /\ log' = log
  BY <1>1, <1>2 DEF Ticketed
<1>3. CASE /\ tasks' = tasks /\ pc[t] # "idle" /\ pc'[t] = "idle"
           /\ \A e \in log' \ log : e.task.ticket = task[t].ticket
  BY <1>1, <1>3 DEF Ticketed
<1>4. CASE tasks' = tasks + 1 /\ task'[t].ticket = tasks + 1 /\ log' = log
  BY <1>1, <1>4 DEF Ticketed
<1> QED BY <1>2, <1>3, <1>4

\* The handle of a task is not one of those given before.
IsNew(handle) == handle = 0 \/ handle = next_handle[Shared] + 1
Loads(t) == pc[t] \in Busy /\ task[t].kind = "load"

\* The answers, old and new.
LEMMA NamesKeep ==
  ASSUME IInv, SInv, NEW t \in Threads, Kept(t), log \subseteq log',
         \A e \in log' : e.task.ticket \in 1..tasks',
         next_handle'[Shared] \in Nat, next_handle'[Shared] >= next_handle[Shared],
         DOMAIN modules'[Shared] = 1..next_handle'[Shared],
         Loads(t)' => IsNew(task'[t].handle) \/ (Loads(t) /\ task'[t].handle = task[t].handle),
         NEW x, log' \subseteq log \union {x},
         x \in log' \ log =>
           /\ TakesHandle(x.task) =>
                /\ x.task.handle \in 0..next_handle'[Shared]
                /\ IsNew(x.task.handle) \/ (Loads(t) /\ x.task.handle = task[t].handle)
           /\ IsInstantiation(x) =>
                /\ x.task.handle = next_handle[Shared] + 1 /\ ~Loads(t)'
                /\ x.task.handle \in DOMAIN modules'[Shared]
                /\ modules'[Shared][x.task.handle].bytes = x.task.bytes
  PROVE  \A e \in log' : Named(e)'
<1>1. /\ next_handle[Shared] \in Nat /\ DOMAIN modules[Shared] = 1..next_handle[Shared]
      /\ \A u \in Threads \ {t} : task'[u] = task[u] /\ pc'[u] = pc[u]
      /\ \A e \in log : Named(e)
      /\ \A h \in DOMAIN modules[Shared] :
           h \in DOMAIN modules'[Shared] /\ modules'[Shared][h].bytes = modules[Shared][h].bytes
  BY DEF IInv, TypeOK, Runtimes, Kept, SharedKept, SInv
<1>2. \A u \in Threads : Loads(u) => task[u].handle \in 1..next_handle[Shared]
  BY <1>1 DEF SInv, Kinded, Loads
<1>3. ASSUME NEW e \in log PROVE Named(e)'
  <2>1. Named(e) /\ e.task.ticket \in 1..tasks'
    BY <1>1, <1>3
  <2>2. TakesHandle(e.task) => e.task.handle \in 0..next_handle'[Shared]
    BY <1>1, <2>1 DEF Named
  <2>3. ASSUME IsInstantiation(e)
        PROVE  /\ e.task.handle \in DOMAIN modules'[Shared]
               /\ modules'[Shared][e.task.handle].bytes = e.task.bytes
               /\ \A f \in log' \ {e} : TakesHandle(f.task) => f.task.handle # e.task.handle
               /\ \A u \in Threads : Loads(u)' => task'[u].handle # e.task.handle
    <3>1. /\ e.task.handle \in 1..next_handle[Shared]
          /\ modules[Shared][e.task.handle].bytes = e.task.bytes
          /\ \A f \in log \ {e} : TakesHandle(f.task) => f.task.handle # e.task.handle
          /\ \A u \in Threads : Loads(u) => task[u].handle # e.task.handle
      BY <1>1, <2>1, <2>3 DEF Named, Loads
    <3>2. ~IsNew(e.task.handle)
      BY <1>1, <3>1 DEF IsNew
    <3>3. \A f \in log' \ {e} : TakesHandle(f.task) => f.task.handle # e.task.handle
      <4> TAKE f \in log' \ {e}
      <4>1. CASE f \in log
        BY <3>1, <4>1
      <4>2. CASE f = x /\ x \in log' \ log
        BY <3>1, <3>2, <4>2
      <4> QED BY <4>1, <4>2
    <3>4. \A u \in Threads : Loads(u)' => task'[u].handle # e.task.handle
      <4> TAKE u \in Threads
      <4>1. CASE u = t
        BY <3>1, <3>2, <4>1
      <4>2. CASE u # t
        BY <1>1, <3>1, <4>2 DEF Loads
      <4> QED BY <4>1, <4>2
    <3> QED BY <1>1, <3>1, <3>3, <3>4
  <2> QED BY <2>1, <2>2, <2>3 DEF Named, Loads
<1>4. ASSUME x \in log' \ log PROVE Named(x)'
  <2>1. ASSUME IsInstantiation(x)
        PROVE  /\ \A f \in log' \ {x} : TakesHandle(f.task) => f.task.handle # x.task.handle
               /\ \A u \in Threads : Loads(u)' => task'[u].handle # x.task.handle
    <3>1. x.task.handle = next_handle[Shared] + 1 /\ ~Loads(t)'
      BY <1>4, <2>1
    <3>2. \A f \in log' \ {x} : f \in log
      OBVIOUS
    <3>3. \A f \in log : TakesHandle(f.task) => f.task.handle # x.task.handle
      BY <1>1, <3>1 DEF Named
    <3>4. \A u \in Threads : Loads(u)' => task'[u].handle # x.task.handle
      <4> TAKE u \in Threads
      <4>1. CASE u = t
        BY <3>1, <4>1
      <4>2. CASE u # t
        <5>1. Loads(u)' => Loads(u) /\ task'[u].handle = task[u].handle
          BY <1>1, <4>2 DEF Loads
        <5> QED BY <1>1, <1>2, <3>1, <5>1
      <4> QED BY <4>1, <4>2
    <3> QED BY <3>2, <3>3, <3>4
  <2> QED BY <1>4, <2>1 DEF Named, Loads
<1> QED BY <1>3, <1>4

\* The shared table only grows.
Grows ==
  /\ next_handle'[Shared] \in Nat /\ next_handle'[Shared] >= next_handle[Shared]
  /\ DOMAIN modules'[Shared] = 1..next_handle'[Shared]

\* An operation goes on.
LEMMA GoingOn ==
  ASSUME IInv, SInv, NEW t \in Threads, Kept(t), Grows, UNCHANGED <<tasks, log>>,
         pc[t] # "idle", task'[t].ticket = task[t].ticket, Kinded(t)', Carried(t)',
         Loads(t)' => IsNew(task'[t].handle) \/ (Loads(t) /\ task'[t].handle = task[t].handle)
  PROVE  SInv'
<1>1. \A u \in Threads : Kinded(u)' /\ Carried(u)'
  BY OthersCarry
<1>2. (\A u \in Threads : Ticketed(u)') /\ \A e \in log' : e.task.ticket \in 1..tasks'
  BY TicketsKeep
<1>3. \A e \in log' : Named(e)'
  <2>1. PICK x : x \in log \/ log = {}
    OBVIOUS
  <2>2. log \subseteq log' /\ log' \subseteq log \union {x} /\ ~(x \in log' \ log)
    BY <2>1
  <2> QED BY <1>2, <2>2, NamesKeep DEF Grows
<1> QED BY <1>1, <1>2, <1>3 DEF SInv

\* An operation begins.
LEMMA Beginning ==
  ASSUME IInv, SInv, NEW t \in Threads, Kept(t), Grows, log' = log,
         tasks' = tasks + 1, task'[t].ticket = tasks + 1, Kinded(t)', Carried(t)', ~Loads(t)'
  PROVE  SInv'
<1>1. \A u \in Threads : Kinded(u)' /\ Carried(u)'
  BY OthersCarry
<1>2. (\A u \in Threads : Ticketed(u)') /\ \A e \in log' : e.task.ticket \in 1..tasks'
  BY TicketsKeep
<1>3. \A e \in log' : Named(e)'
  <2>1. PICK x : x \in log \/ log = {}
    OBVIOUS
  <2>2. log \subseteq log' /\ log' \subseteq log \union {x} /\ ~(x \in log' \ log)
    BY <2>1
  <2> QED BY <1>2, <2>2, NamesKeep DEF Grows
<1> QED BY <1>1, <1>2, <1>3 DEF SInv

\* An operation is answered.
LEMMA Answering ==
  ASSUME IInv, SInv, NEW t \in Threads, Kept(t), Grows, tasks' = tasks, pc[t] # "idle",
         NEW asked, NEW result, Answer(t, asked, result), asked.ticket = task[t].ticket,
         TakesHandle(asked) =>
           /\ asked.handle \in 0..next_handle'[Shared]
           /\ IsNew(asked.handle) \/ (Loads(t) /\ asked.handle = task[t].handle),
         asked.kind = "instantiate" /\ result.ok =>
           /\ asked.handle = next_handle[Shared] + 1
           /\ asked.handle \in DOMAIN modules'[Shared]
           /\ modules'[Shared][asked.handle].bytes = asked.bytes
  PROVE  SInv'
<1>1. /\ log' = log \union {[task |-> asked, result |-> result]}
      /\ task'[t] = NoTask /\ pc'[t] = "idle"
  BY DEF Answer, Goes, IInv, TypeOK
<1>2. Kinded(t)' /\ Carried(t)' /\ ~Loads(t)'
  BY <1>1 DEF Kinded, Carried, Loads, NoTask, Busy, Inside
<1>3. \A u \in Threads : Kinded(u)' /\ Carried(u)'
  BY <1>2, OthersCarry
<1>4. (\A u \in Threads : Ticketed(u)') /\ \A e \in log' : e.task.ticket \in 1..tasks'
  <2>1. \A e \in log' \ log : e.task.ticket = task[t].ticket
    BY <1>1
  <2> QED BY <1>1, <2>1, TicketsKeep
<1>5. \A e \in log' : Named(e)'
  <2> DEFINE x == [task |-> asked, result |-> result]
  <2>1. log \subseteq log' /\ log' \subseteq log \union {x} /\ x.task = asked /\ x.result = result
    BY <1>1
  <2>2. IsInstantiation(x) <=> asked.kind = "instantiate" /\ result.ok
    BY DEF IsInstantiation
  <2> HIDE DEF x
  <2> QED BY <1>2, <1>4, <2>1, <2>2, NamesKeep DEF Grows
<1> QED BY <1>3, <1>4, <1>5 DEF SInv

-----------------------------------------------------------------------------
(* What the shapes of a step leave alone. *)

\* Nobody sees what happens to the guest of a thread that is alone inside.
LEMMA RewritingKeeps ==
  ASSUME IInv, NEW t \in Threads, NEW guest, Rewrote(t, guest), Alone(t),
         task[t].handle \in DOMAIN modules[Mine(t)],
         \A u \in Threads \ {t} : task'[u] = task[u] /\ pc'[u] = pc[u] /\ refs'[u] = refs[u]
  PROVE  Kept(t) /\ Grows
<1>1. limits' = limits /\ SharedKept
  BY RewroteKeeps DEF Rewrote
<1>2. Shared \in Runtimes /\ \A u \in Threads : Mine(u) \in Runtimes
  BY DEF IInv, TypeOK, Tasks, Mine, Runtimes
<1>3. ASSUME NEW u \in Threads \ {t}, Private(u) PROVE Guest(u)' = Guest(u)
  <2>1. Mine(u) # Mine(t)
    <3>1. CASE pc[u] \in Inside
      BY <3>1 DEF Alone
    <3>2. CASE task[u].kind = "fresh"
      <4>1. Mine(u) = u /\ Mine(t) \in {t, Shared}
        BY <3>2 DEF IInv, Asked
      <4> QED BY <4>1, ThreadsAssumption
    <3> QED BY <1>3, <3>1, <3>2 DEF Private
  <2>2. task[u].handle \in DOMAIN modules[Mine(u)]
    <3>1. CASE pc[u] \in Inside
      BY <3>1 DEF IInv, Placed
    <3>2. CASE pc[u] \in Busy /\ task[u].kind = "fresh"
      BY <3>2 DEF IInv, Placed, Asked
    <3> QED BY <1>3, <3>1, <3>2 DEF Private
  <2>3. modules'[Mine(u)][task[u].handle] = modules[Mine(u)][task[u].handle]
    BY <1>2, <2>1, <2>2 DEF Rewrote
  <2> QED BY <2>3 DEF Guest, Mine
<1>4. Kept(t)
  BY <1>1, <1>3 DEF Kept
<1>5. Grows
  BY <1>2 DEF IInv, TypeOK, Rewrote, Grows
<1> QED BY <1>4, <1>5

\* Nor what happens to nothing.
LEMMA StayingKeeps ==
  ASSUME IInv, NEW t \in Threads, UNCHANGED <<limits, next_handle, modules>>,
         \A u \in Threads \ {t} : task'[u] = task[u] /\ pc'[u] = pc[u] /\ refs'[u] = refs[u]
  PROVE  Kept(t) /\ Grows
<1>1. Grows
  BY DEF IInv, TypeOK, Runtimes, Grows
<1>2. Kept(t)
  BY DEF Kept, SharedKept, Guest, Mine
<1> QED BY <1>1, <1>2

\* A new instance is in nobody's way.
LEMMA MintingKeeps ==
  ASSUME IInv, NEW t \in Threads, NEW guest, IsGuest(guest), lock[Mine(t)] = NoThread,
         NEW handle, Minted(t, handle, guest),
         \A u \in Threads \ {t} : task'[u] = task[u] /\ pc'[u] = pc[u] /\ refs'[u] = refs[u]
  PROVE  /\ Kept(t) /\ Grows
         /\ handle \in DOMAIN modules'[Mine(t)] /\ modules'[Mine(t)][handle] = guest
<1>1. /\ Tables' /\ SharedKept /\ Undisturbed(t)
      /\ handle \in DOMAIN modules'[Mine(t)] /\ modules'[Mine(t)][handle] = guest
  BY MintedTables
<1>2. /\ Shared \in Runtimes /\ \A u \in Threads : Mine(u) \in Runtimes
      /\ next_handle \in [Runtimes -> Nat] /\ DOMAIN modules = Runtimes
  BY DEF IInv, TypeOK, Tasks, Mine, Runtimes
<1>3. ASSUME NEW u \in Threads \ {t}, Private(u) PROVE Guest(u)' = Guest(u)
  <2>1. CASE pc[u] \in Inside
    BY <1>1, <2>1 DEF Undisturbed, Guest, Mine
  <2>2. CASE pc[u] \in Busy /\ task[u].kind = "fresh"
    <3>1. Mine(u) = u /\ Mine(t) \in {t, Shared}
      BY <2>2 DEF IInv, Asked
    <3>2. modules'[Mine(u)] = modules[Mine(u)]
      BY <1>2, <3>1, ThreadsAssumption DEF Minted
    <3> QED BY <3>2 DEF Guest, Mine
  <2> QED BY <1>3, <2>1, <2>2 DEF Private
<1>4. Kept(t)
  BY <1>1, <1>3 DEF Kept, Minted
<1>5. Grows
  <2>1. next_handle' = [next_handle EXCEPT ![Mine(t)] = next_handle[Mine(t)] + 1]
    BY DEF Minted
  <2>2. next_handle'[Shared] \in Nat /\ next_handle'[Shared] >= next_handle[Shared]
    BY <1>2, <2>1
  <2> QED BY <1>1, <1>2, <2>2 DEF Tables, Grows
<1> QED BY <1>1, <1>4, <1>5

\* What an answer changes of the threads.
LEMMA AnswerOthers ==
  ASSUME IInv, NEW t \in Threads, NEW asked, NEW result, Answer(t, asked, result)
  PROVE  /\ pc'[t] = "idle"
         /\ \A u \in Threads \ {t} : task'[u] = task[u] /\ pc'[u] = pc[u] /\ refs'[u] = refs[u]
BY DEF Answer, Goes, IInv, TypeOK

\* What a move changes of the threads.
LEMMA GoesOthers ==
  ASSUME IInv, NEW t \in Threads, NEW at, Goes(t, at)
  PROVE  pc'[t] = at /\ \A u \in Threads \ {t} : pc'[u] = pc[u]
BY DEF Goes, IInv, TypeOK

-----------------------------------------------------------------------------
(* The steps outside. *)

\* What is asked of the shared runtime.
LEMMA AskingShared ==
  ASSUME IInv, SInv, NEW t \in Threads, NEW asked \in Tasks, NEW at \in {"compile", "enter"},
         Begin(t, asked, at), UNCHANGED <<next_handle, modules>>,
         asked.doing = "call" <=> asked.kind \in {"call", "fresh"}, asked.kind # "fresh",
         at = "compile" => asked.handle = 0,
         at = "enter" => asked.kind \notin {"instantiate", "load"}
  PROVE  SInv'
<1>1. /\ task'[t] = [asked EXCEPT !.ticket = tasks + 1] /\ pc'[t] = at
      /\ \A u \in Threads \ {t} : task'[u] = task[u] /\ pc'[u] = pc[u]
      /\ refs' = refs /\ limits' = limits /\ log' = log /\ tasks' = tasks + 1
  BY DEF Begin, IInv, TypeOK
<1>2. Kept(t) /\ Grows
  BY <1>1, StayingKeeps
<1>3. /\ task'[t].ticket = tasks + 1 /\ task'[t].doing = asked.doing
      /\ task'[t].kind = asked.kind /\ task'[t].handle = asked.handle
  BY <1>1 DEF Tasks
<1>4. Kinded(t)' /\ ~Loads(t)'
  BY <1>1, <1>3 DEF Kinded, Loads, Busy, Inside
<1>5. Carried(t)'
  BY <1>1, <1>3 DEF Carried
<1> QED BY <1>1, <1>2, <1>3, <1>4, <1>5, Beginning

\* Every way to ask for something.
LEMMA Asking ==
  ASSUME IInv, SInv, NEW t \in Threads, Asks(t) PROVE SInv'
<1>1. supply.modules \subseteq Modules /\ supply.lengths \subseteq Nat
  BY Supplied DEF IInv
<1>2. ASSUME NEW bytes \in supply.modules, UNCHANGED <<next_handle, modules>>,
             Begin(t, [NoTask EXCEPT !.kind = "instantiate", !.bytes = bytes], "compile")
      PROVE  SInv'
  <2>1. PICK asked : asked = [NoTask EXCEPT !.kind = "instantiate", !.bytes = bytes]
    OBVIOUS
  <2>2. /\ asked \in Tasks /\ asked.doing = "none" /\ asked.kind = "instantiate"
        /\ asked.handle = 0
    BY <1>1, <2>1 DEF NoTask, Tasks, Runtimes
  <2>3. Begin(t, asked, "compile")
    BY <1>2, <2>1
  <2> QED BY <1>2, <2>2, <2>3, AskingShared
<1>3. ASSUME NEW bytes \in supply.modules, UNCHANGED <<next_handle, modules>>,
             Begin(t, [NoTask EXCEPT !.kind = "load", !.bytes = bytes, !.doing = "manifest"],
                   "compile")
      PROVE  SInv'
  <2>1. PICK asked : asked = [NoTask EXCEPT !.kind = "load", !.bytes = bytes,
                                            !.doing = "manifest"]
    OBVIOUS
  <2>2. /\ asked \in Tasks /\ asked.doing = "manifest" /\ asked.kind = "load"
        /\ asked.handle = 0
    BY <1>1, <2>1 DEF NoTask, Tasks, Runtimes
  <2>3. Begin(t, asked, "compile")
    BY <1>3, <2>1
  <2> QED BY <1>3, <2>2, <2>3, AskingShared
<1>4. ASSUME NEW kind \in {"manifest", "exports"}, NEW handle \in Nat,
             UNCHANGED <<next_handle, modules>>,
             Begin(t, [NoTask EXCEPT !.kind = kind, !.handle = handle, !.doing = kind], "enter")
      PROVE  SInv'
  <2>1. PICK asked : asked = [NoTask EXCEPT !.kind = kind, !.handle = handle, !.doing = kind]
    OBVIOUS
  <2>2. asked \in Tasks /\ asked.doing = kind /\ asked.kind = kind
    BY <2>1 DEF NoTask, Tasks, Runtimes
  <2>3. Begin(t, asked, "enter")
    BY <1>4, <2>1
  <2> QED BY <1>4, <2>2, <2>3, AskingShared
<1>5. ASSUME NEW handle \in Nat, NEW length \in Nat, UNCHANGED <<next_handle, modules>>,
             Begin(t, [NoTask EXCEPT !.kind = "call", !.handle = handle, !.length = length,
                                     !.doing = "call"], "enter")
      PROVE  SInv'
  <2>1. PICK asked : asked = [NoTask EXCEPT !.kind = "call", !.handle = handle,
                                            !.length = length, !.doing = "call"]
    OBVIOUS
  <2>2. asked \in Tasks /\ asked.doing = "call" /\ asked.kind = "call"
    BY <2>1 DEF NoTask, Tasks, Runtimes
  <2>3. Begin(t, asked, "enter")
    BY <1>5, <2>1
  <2> QED BY <1>5, <2>2, <2>3, AskingShared
<1>6. CASE CallHost(t)
  <2>1. DOMAIN modules[Shared] \subseteq Nat /\ next_handle[Shared] \in Nat
    BY DEF IInv, TypeOK, Runtimes
  <2>2. UNCHANGED <<next_handle, modules>>
    BY <1>6 DEF CallHost
  <2>3. CASE \E handle \in DOMAIN modules[Shared], kind \in {"manifest", "exports"} :
               Begin(t, [NoTask EXCEPT !.kind = kind, !.handle = handle, !.doing = kind], "enter")
    <3>1. PICK handle \in DOMAIN modules[Shared], kind \in {"manifest", "exports"} :
            Begin(t, [NoTask EXCEPT !.kind = kind, !.handle = handle, !.doing = kind], "enter")
      BY <2>3
    <3>2. handle \in Nat
      BY <2>1
    <3> QED BY <1>4, <2>2, <3>1, <3>2
  <2>4. CASE \E handle \in 1..(next_handle[Shared] + 1), length \in supply.lengths :
               Begin(t, [NoTask EXCEPT !.kind = "call", !.handle = handle, !.length = length,
                                       !.doing = "call"], "enter")
    <3>1. PICK handle \in 1..(next_handle[Shared] + 1), length \in supply.lengths :
            Begin(t, [NoTask EXCEPT !.kind = "call", !.handle = handle, !.length = length,
                                    !.doing = "call"], "enter")
      BY <2>4
    <3>2. handle \in Nat /\ length \in Nat
      BY <1>1, <2>1
    <3> QED BY <1>5, <2>2, <3>1, <3>2
  <2> QED BY <1>6, <2>3, <2>4 DEF CallHost
<1>7. CASE CallFresh(t)
  <2>1. PICK bytes \in supply.modules, length \in supply.lengths :
          /\ Begin(t, [NoTask EXCEPT !.kind = "fresh", !.runtime = t, !.bytes = bytes,
                                     !.length = length, !.doing = "call"], "compile")
          /\ next_handle' = [next_handle EXCEPT ![t] = 0]
          /\ modules' = [modules EXCEPT ![t] = <<>>]
    BY <1>7 DEF CallFresh
  <2>2. /\ task'[t] = [[NoTask EXCEPT !.kind = "fresh", !.runtime = t, !.bytes = bytes,
                                     !.length = length, !.doing = "call"]
                         EXCEPT !.ticket = tasks + 1]
        /\ pc'[t] = "compile"
        /\ \A u \in Threads \ {t} : task'[u] = task[u] /\ pc'[u] = pc[u]
        /\ refs' = refs /\ limits' = limits /\ log' = log /\ tasks' = tasks + 1
    BY <2>1 DEF Begin, IInv, TypeOK
  <2>3. /\ Shared \in Runtimes /\ Shared # t /\ t \in Runtimes
        /\ next_handle \in [Runtimes -> Nat] /\ DOMAIN modules = Runtimes
        /\ DOMAIN modules[Shared] = 1..next_handle[Shared]
        /\ \A u \in Threads \ {t} : Mine(u) # t /\ Mine(u) \in Runtimes
    BY ThreadsAssumption DEF IInv, TypeOK, Runtimes, Asked, Mine, Tasks
  <2>4. \A r \in Runtimes : r # t => modules'[r] = modules[r] /\ next_handle'[r] = next_handle[r]
    BY <2>1, <2>3
  <2>5. Kept(t)
    BY <2>2, <2>3, <2>4 DEF Kept, SharedKept, Guest, Mine
  <2>6. Grows
    BY <2>3, <2>4 DEF Grows
  <2>7. /\ task'[t].ticket = tasks + 1 /\ task'[t].handle = 0
        /\ task'[t].kind = "fresh" /\ task'[t].doing = "call"
    BY <2>2 DEF NoTask
  <2>8. Kinded(t)' /\ Carried(t)' /\ ~Loads(t)'
    BY <2>2, <2>7 DEF Kinded, Carried, Loads, Busy, Inside
  <2> QED BY <2>2, <2>5, <2>6, <2>7, <2>8, Beginning
<1> QED BY <1>2, <1>3, <1>6, <1>7 DEF Asks, Instantiate, Load

\* Compiling.
LEMMA Compiling ==
  ASSUME IInv, SInv, NEW t \in Threads, Compile(t) PROVE SInv'
<1>1. /\ pc[t] = "compile" /\ ~Loads(t) /\ task[t].handle = 0
      /\ UNCHANGED <<limits, next_handle, modules, tasks>>
  BY DEF Compile, state, Loads, Busy, Inside, SInv, Kinded
<1>2. CASE Answer(t, task[t], Err("module"))
  <2>1. Kept(t) /\ Grows
    BY <1>1, <1>2, AnswerOthers, StayingKeeps
  <2>2. ~Err("module").ok
    BY DEF Err
  <2>3. 0 \in 0..next_handle'[Shared]
    BY <2>1 DEF Grows
  <2> QED BY <1>1, <1>2, <2>1, <2>2, <2>3, Answering DEF IsNew
<1>3. CASE Goes(t, "mint") /\ UNCHANGED <<task, refs, log>>
  <2>1. pc'[t] = "mint" /\ Kept(t) /\ Grows
    BY <1>1, <1>3, GoesOthers, StayingKeeps
  <2>2. Kinded(t)' /\ Carried(t)' /\ ~Loads(t)'
    BY <1>1, <1>3, <2>1 DEF SInv, Kinded, Carried, Loads, Busy, Inside
  <2> QED BY <1>1, <1>3, <2>1, <2>2, GoingOn
<1> QED BY <1>2, <1>3 DEF Compile

\* The instance that is minted for thread t.
MintsFor(t, handle, guest) ==
  /\ handle = next_handle[Mine(t)] + 1 /\ guest = Instance(task[t].bytes)
  /\ IsGuest(guest) /\ guest.bytes = task[t].bytes /\ guest.counter = 0
  /\ Minted(t, handle, guest) /\ lock[Mine(t)] = NoThread

\* Mint does that.
LEMMA MintMints ==
  ASSUME IInv, NEW t \in Threads, Mint(t)
  PROVE  MintsFor(t, next_handle[Mine(t)] + 1, Instance(task[t].bytes))
<1> DEFINE handle == next_handle[Mine(t)] + 1
           guest == Instance(task[t].bytes)
<1>1. task[t].bytes \in Modules /\ TypeOK
  BY DEF Mint, IInv, Asked
<1>2. IsGuest(guest) /\ guest.bytes = task[t].bytes
  BY <1>1, InstanceIsGuest
<1>3. guest.counter = 0
  BY DEF Instance
<1>4. task[t] \in Tasks
  BY <1>1 DEF TypeOK
<1>5. [task[t] EXCEPT !.handle = handle].bytes = task[t].bytes
  BY <1>4 DEF Tasks
<1>6. Minted(t, handle, guest) /\ lock[Mine(t)] = NoThread
  BY <1>5 DEF Mint, Minted
<1> QED BY <1>2, <1>3, <1>6 DEF MintsFor

\* The task of thread t once it has its handle.
Handed(t, handle) == [task[t] EXCEPT !.handle = handle]

\* Nothing but the handle changes.
LEMMA HandedTask ==
  ASSUME IInv, NEW t \in Threads, NEW handle
  PROVE  /\ Handed(t, handle).handle = handle /\ Handed(t, handle).ticket = task[t].ticket
         /\ Handed(t, handle).kind = task[t].kind /\ Handed(t, handle).doing = task[t].doing
         /\ Handed(t, handle).runtime = task[t].runtime /\ Handed(t, handle).bytes = task[t].bytes
         /\ Handed(t, handle).length = task[t].length
BY DEF IInv, TypeOK, Tasks, Handed

\* Minting.
LEMMA Minting ==
  ASSUME IInv, SInv, NEW t \in Threads, Mint(t) PROVE SInv'
<1>1. PICK handle, guest : /\ handle = next_handle[Mine(t)] + 1
                           /\ guest = Instance(task[t].bytes)
  OBVIOUS
<1>2. MintsFor(t, handle, guest)
  BY <1>1, MintMints
<1>3. /\ pc[t] = "mint" /\ ~Loads(t) /\ tasks' = tasks
      /\ Mine(t) = IF task[t].kind = "fresh" THEN t ELSE Shared
  BY DEF Mint, Loads, Busy, Inside, IInv, Asked
<1>4. ASSUME \A u \in Threads \ {t} : task'[u] = task[u] /\ pc'[u] = pc[u] /\ refs'[u] = refs[u]
      PROVE  /\ Kept(t) /\ Grows
             /\ handle \in DOMAIN modules'[Mine(t)] /\ modules'[Mine(t)][handle] = guest
  BY <1>2, <1>4, MintingKeeps DEF MintsFor
<1>5. CASE Handed(t, handle).kind = "instantiate" /\ Answer(t, Handed(t, handle), Ok(<<>>))
  <2>1. /\ Kept(t) /\ Grows
        /\ handle \in DOMAIN modules'[Mine(t)] /\ modules'[Mine(t)][handle] = guest
    BY <1>4, <1>5, AnswerOthers
  <2>2. Mine(t) = Shared /\ handle \in 0..next_handle'[Shared]
    BY <1>3, <1>5, <2>1, HandedTask DEF Grows
  <2> HIDE DEF Handed
  <2> QED BY <1>1, <1>2, <1>3, <1>5, <2>1, <2>2, HandedTask, Answering DEF IsNew, MintsFor
<1>6. CASE /\ Handed(t, handle).kind # "instantiate" /\ task' = [task EXCEPT ![t] = Handed(t, handle)]
           /\ Goes(t, "enter") /\ UNCHANGED <<refs, log>>
  <2>1. /\ task'[t] = Handed(t, handle) /\ \A u \in Threads \ {t} : task'[u] = task[u]
        /\ pc'[t] = "enter"
    BY <1>6, GoesOthers DEF IInv, TypeOK
  <2>2. /\ Kept(t) /\ Grows
        /\ handle \in DOMAIN modules'[Mine(t)] /\ modules'[Mine(t)][handle] = guest
    BY <1>4, <1>6, <2>1, GoesOthers
  <2>3. /\ Handed(t, handle).handle = handle /\ Handed(t, handle).ticket = task[t].ticket
        /\ Handed(t, handle).kind = task[t].kind /\ Handed(t, handle).doing = task[t].doing
        /\ Handed(t, handle).runtime = task[t].runtime
    BY HandedTask
  <2> HIDE DEF Handed
  <2>4. Guest(t)' = guest
    BY <2>1, <2>2, <2>3 DEF Guest, Mine
  <2>5. Kinded(t)'
    BY <1>3, <1>6, <2>1, <2>2, <2>3 DEF SInv, Kinded, Busy, Inside
  <2>6. Carried(t)'
    BY <1>2, <2>1, <2>4 DEF Carried, MintsFor
  <2>7. Loads(t)' => IsNew(task'[t].handle)
    BY <1>1, <1>3, <2>1, <2>3 DEF Loads, IsNew
  <2> QED BY <1>3, <1>6, <2>1, <2>2, <2>3, <2>5, <2>6, <2>7, GoingOn
<1> QED BY <1>1, <1>5, <1>6 DEF Mint, Handed

-----------------------------------------------------------------------------
(* The steps inside. *)

\* An answer from inside.
LEMMA AnsweringInside ==
  ASSUME IInv, SInv, NEW t \in Threads, pc[t] \in Inside, NEW guest, Rewrote(t, guest),
         NEW result, Answer(t, task[t], result)
  PROVE  SInv'
<1>1. /\ Alone(t) /\ task[t].handle \in DOMAIN modules[Mine(t)]
      /\ pc[t] \in Busy /\ pc[t] # "idle"
  BY InsideFacts DEF Busy, Inside
<1>2. Kept(t) /\ Grows /\ tasks' = tasks
  BY <1>1, AnswerOthers, RewritingKeeps DEF Rewrote
<1>3. task[t].kind # "instantiate"
  BY <1>1 DEF SInv, Kinded
<1>4. TakesHandle(task[t]) => Loads(t) /\ task[t].handle \in 0..next_handle'[Shared]
  <2>1. next_handle[Shared] \in Nat /\ DOMAIN modules[Shared] = 1..next_handle[Shared]
    BY DEF IInv, TypeOK, Runtimes
  <2>2. Loads(t) => task[t].handle \in 1..next_handle[Shared]
    BY <2>1 DEF SInv, Kinded, Loads
  <2> QED BY <1>1, <1>2, <1>3, <2>1, <2>2 DEF TakesHandle, Loads, Grows
<1> QED BY <1>1, <1>2, <1>3, <1>4, Answering

\* A step from one place inside to another, or into it.
LEMMA MovingInside ==
  ASSUME IInv, SInv, NEW t \in Threads, pc[t] \in Busy, Alone(t),
         task[t].handle \in DOMAIN modules[Mine(t)], NEW guest, Rewrote(t, guest),
         NEW at \in Inside, Goes(t, at), UNCHANGED <<task, log>>,
         \A u \in Threads \ {t} : refs'[u] = refs[u],
         Carried(t)'
  PROVE  SInv'
<1>1. pc'[t] = at /\ \A u \in Threads \ {t} : pc'[u] = pc[u]
  BY GoesOthers
<1>2. Kept(t) /\ Grows /\ tasks' = tasks
  BY <1>1, RewritingKeeps DEF Rewrote
<1>3. Kinded(t)'
  BY <1>1, <1>2 DEF SInv, Kinded, Kept, SharedKept, Busy, Inside
<1>4. Loads(t)' => Loads(t)
  BY DEF Loads
<1>5. pc[t] # "idle"
  BY DEF Busy, Inside
<1> QED BY <1>2, <1>3, <1>4, <1>5, GoingOn

\* What thread t finds after its own step.
LEMMA NowAt ==
  ASSUME IInv, NEW t \in Threads, NEW guest, Rewrote(t, guest), NEW at, Goes(t, at), task' = task
  PROVE  pc'[t] = at /\ Guest(t)' = guest /\ task'[t] = task[t]
<1>1. pc'[t] = at
  BY GoesOthers
<1> QED BY <1>1 DEF Guest, Mine, Rewrote

\* Entering.
LEMMA Entering ==
  ASSUME IInv, SInv, NEW t \in Threads, Enter(t) PROVE SInv'
<1>1. /\ pc[t] = "enter" /\ pc[t] \in Busy /\ lock[Mine(t)] = NoThread
      /\ UNCHANGED <<limits, supply, next_handle, tasks>> /\ Mine(t) \in Runtimes /\ TypeOK
  BY DEF Enter, Busy, IInv, TypeOK, Tasks, Mine
<1>2. CASE Answer(t, task[t], Err("handle")) /\ UNCHANGED <<lock, modules>>
  <2>1. Kept(t) /\ Grows
    BY <1>1, <1>2, AnswerOthers, StayingKeeps
  <2>2. task[t].kind # "instantiate"
    BY <1>1 DEF SInv, Kinded
  <2>3. TakesHandle(task[t]) => Loads(t) /\ task[t].handle \in 0..next_handle'[Shared]
    <3>1. next_handle[Shared] \in Nat /\ DOMAIN modules[Shared] = 1..next_handle[Shared]
      BY <1>1 DEF TypeOK, Runtimes
    <3>2. Loads(t) => task[t].handle \in 1..next_handle[Shared]
      BY <3>1 DEF SInv, Kinded, Loads
    <3> QED BY <1>1, <2>2, <3>1, <3>2 DEF TakesHandle, Loads
  <2> QED BY <1>1, <1>2, <2>1, <2>2, <2>3, Answering
<1>3. CASE /\ task[t].handle \in DOMAIN modules[Mine(t)]
           /\ Becomes(t, [Guest(t) EXCEPT !.fuel = limits.fuel])
           /\ Goes(t, IF task[t].doing = "call" THEN "name" ELSE "run")
           /\ UNCHANGED <<task, refs, log>>
  <2>1. PICK guest : guest = [Guest(t) EXCEPT !.fuel = limits.fuel]
    OBVIOUS
  <2>2. PICK at : at = IF task[t].doing = "call" THEN "name" ELSE "run"
    OBVIOUS
  <2>3. IsGuest(Guest(t)) /\ limits.fuel \in 0..limits.fuel
    BY <1>1, <1>3, Tank DEF TypeOK, Guest
  <2>4. IsGuest(guest) /\ guest.bytes = Guest(t).bytes /\ guest.counter = Guest(t).counter
    BY <2>1, <2>3, RefuelledIsGuest DEF IsGuest
  <2>5. Rewrote(t, guest)
    BY <1>1, <1>3, <2>1, <2>4, BecomesRewrites
  <2>6. at \in Inside /\ Goes(t, at) /\ (at = "run" => task[t].doing # "call")
    BY <1>3, <2>2 DEF Inside
  <2>7. pc'[t] = at /\ Guest(t)' = guest /\ task'[t] = task[t]
    BY <1>3, <2>5, <2>6, NowAt
  <2>8. Carried(t)'
    BY <1>1, <2>2, <2>4, <2>6, <2>7 DEF SInv, Carried, Calls
  <2>9. Alone(t)
    BY <1>1, HolderAlone
  <2> QED BY <1>1, <1>3, <2>5, <2>6, <2>8, <2>9, MovingInside
<1> QED BY <1>2, <1>3 DEF Enter

\* What sim_alloc leaves of the guest, and where.
LEMMA AllocatedKeeps ==
  ASSUME NEW guest, IsGuest(guest), NEW len
  PROVE  /\ Allocated(guest, len).counter = guest.counter
         /\ Allocated(guest, len).memory = guest.memory
         /\ guest.bytes = "echo" => AllocatedAt(guest) \in 0..(Word - 1)
BY DEF IsGuest, Allocated, AllocatedAt, Bumps

\* What a write leaves.
LEMMA WrittenKeeps ==
  ASSUME NEW guest, IsGuest(guest), NEW ptr \in Nat, NEW bytes \in Seq(Bytes),
         ptr + Len(bytes) <= guest.size
  PROVE  /\ Written(guest, ptr, bytes).counter = guest.counter
         /\ Written(guest, ptr, bytes).size = guest.size
         /\ \A i \in 1..Len(bytes) : Written(guest, ptr, bytes).memory[ptr + i - 1] = bytes[i]
<1> DEFINE memory == [a \in 0..(guest.size - 1) |->
                        IF a \in ptr..(ptr + Len(bytes) - 1) THEN bytes[a - ptr + 1]
                        ELSE guest.memory[a]]
<1>1. Written(guest, ptr, bytes) = [guest EXCEPT !.memory = memory]
  BY DEF Written, IsGuest
<1>2. \A i \in 1..Len(bytes) : memory[ptr + i - 1] = bytes[i]
  <2> TAKE i \in 1..Len(bytes)
  <2>1. guest.size \in Nat /\ Len(bytes) \in Nat
    BY DEF IsGuest
  <2>2. ptr + i - 1 \in 0..(guest.size - 1) /\ ptr + i - 1 \in ptr..(ptr + Len(bytes) - 1)
        /\ (ptr + i - 1) - ptr + 1 = i
    BY <2>1
  <2> QED BY <2>2
<1> HIDE DEF memory
<1> QED BY <1>1, <1>2 DEF IsGuest

\* write_guest_bytes, for the name and for the arguments.
LEMMA Writing ==
  ASSUME IInv, SInv, NEW t \in Threads, pc[t] \in Inside \ {"read"},
         NEW field \in {"name", "args"}, NEW bytes \in Seq(Bytes), NEW at \in {"args", "run"},
         at = "run" => field = "args" /\ bytes = Arguments(task[t]),
         WriteGuestBytes(t, field, bytes, at), UNCHANGED <<limits, supply, next_handle, tasks>>
  PROVE  SInv'
<1>1. /\ task[t].handle \in DOMAIN modules[Mine(t)] /\ IsGuest(Guest(t)) /\ Alone(t)
      /\ Mine(t) \in Runtimes /\ TypeOK /\ task[t] \in Tasks /\ refs[t] \in RefsType
  BY InsideFacts DEF IInv
<1> DEFINE guest == Guest(t)
           taken == Allocated(guest, Len(bytes))
           ptr == AllocatedAt(guest)
           left == Written(taken, ptr, bytes)
<1>2. ASSUME guest.fuel > 0
      PROVE  /\ IsGuest(taken) /\ taken.bytes = guest.bytes /\ ptr \in Nat
             /\ taken.size = guest.size /\ taken.counter = guest.counter
             /\ guest.bytes = "echo" => ptr \in 0..(Word - 1)
  BY <1>1, <1>2, AllocatedIsGuest, AllocatedKeeps
<1>3. ASSUME NEW x, IsGuest(x), x.bytes = guest.bytes, NEW why, Fail(t, x, why) PROVE SInv'
  <2>1. Rewrote(t, x)
    BY <1>1, <1>3, BecomesRewrites DEF Fail
  <2> QED BY <1>3, <2>1, AnsweringInside DEF Fail
<1>4. CASE guest.fuel = 0 /\ Fail(t, guest, "fuel")
  BY <1>1, <1>3, <1>4
<1>5. CASE guest.fuel > 0 /\ Fail(t, taken, "write")
  <2> HIDE DEF taken
  <2> QED BY <1>2, <1>3, <1>5
<1>6. CASE /\ guest.fuel > 0 /\ ptr + Len(bytes) <= guest.size
           /\ Becomes(t, left) /\ refs' = [refs EXCEPT ![t][field] = ptr]
           /\ Goes(t, at) /\ UNCHANGED <<lock, task, log>>
  <2>1. /\ IsGuest(taken) /\ taken.bytes = guest.bytes /\ ptr \in Nat
        /\ taken.size = guest.size /\ taken.counter = guest.counter
        /\ guest.bytes = "echo" => ptr \in 0..(Word - 1)
    BY <1>2, <1>6
  <2> HIDE DEF taken, ptr, guest
  <2>2. /\ IsGuest(left) /\ left.bytes = guest.bytes
        /\ left.counter = guest.counter /\ left.size = guest.size
        /\ \A i \in 1..Len(bytes) : left.memory[ptr + i - 1] = bytes[i]
    BY <1>6, <2>1, WrittenIsGuest, WrittenKeeps
  <2>3. PICK l : l = left
    OBVIOUS
  <2> HIDE DEF left
  <2>4. Rewrote(t, l)
    BY <1>1, <1>6, <2>2, <2>3, BecomesRewrites DEF guest
  <2>5. /\ pc'[t] = at /\ Guest(t)' = l /\ task'[t] = task[t] /\ at \in Inside
        /\ \A u \in Threads \ {t} : refs'[u] = refs[u]
    BY <1>1, <1>6, <2>4, NowAt DEF Inside, TypeOK
  <2>6. ASSUME at = "run", guest.bytes = "echo" PROVE Holds(l, task[t], refs'[t].args)
    <3>1. refs'[t].args = ptr
      BY <1>1, <1>6, <2>6 DEF TypeOK, RefsType
    <3>2. /\ bytes = Arguments(task[t]) /\ task[t].length \in Nat
      BY <1>1, <2>6 DEF Tasks
    <3>3. /\ Len(bytes) = task[t].length
          /\ \A i \in 1..task[t].length : bytes[i] = Byte("args", task[t].ticket)
      BY <3>2 DEF Arguments
    <3> QED BY <1>6, <2>1, <2>2, <2>3, <2>6, <3>1, <3>3 DEF Holds
  <2>7. Carried(t)'
    <3>1. task[t].kind = "fresh" => guest.counter = 0
      BY DEF SInv, Carried, guest, Busy
    <3> QED BY <2>2, <2>3, <2>5, <2>6, <3>1 DEF Carried, Calls
  <2>8. pc[t] \in Busy
    BY DEF Busy
  <2> QED BY <1>1, <1>6, <2>4, <2>5, <2>7, <2>8, MovingInside
<1> QED BY <1>4, <1>5, <1>6 DEF WriteGuestBytes

\* The name and the arguments of a call.
LEMMA Sending ==
  ASSUME IInv, SInv, NEW t \in Threads, SendName(t) \/ SendArguments(t) PROVE SInv'
<1>1. task[t] \in Tasks /\ pc[t] \in Inside \ {"read"}
      /\ UNCHANGED <<limits, supply, next_handle, tasks>>
  BY DEF IInv, TypeOK, SendName, SendArguments, Inside
<1>2. Byte("args", task[t].ticket) \in Bytes /\ Byte("name", task[t].ticket) \in Bytes
  BY <1>1 DEF Byte, Bytes, Tasks
<1>3. CASE SendName(t)
  <2>1. PICK bytes : bytes = <<Byte("name", task[t].ticket)>>
    OBVIOUS
  <2>2. bytes \in Seq(Bytes) /\ WriteGuestBytes(t, "name", bytes, "args")
    BY <1>2, <1>3, <2>1 DEF SendName
  <2> QED BY <1>1, <2>2, Writing
<1>4. CASE SendArguments(t)
  <2>1. PICK bytes : bytes = Arguments(task[t])
    OBVIOUS
  <2>2. bytes \in Seq(Bytes)
    BY <1>1, <1>2, <2>1 DEF Arguments, Tasks
  <2>3. WriteGuestBytes(t, "args", bytes, "run")
    BY <1>4, <2>1 DEF SendArguments
  <2> QED BY <1>1, <2>1, <2>2, <2>3, Writing
<1> QED BY <1>3, <1>4

\* The guest as an operation leaves it when its function returns.
LEMMA ReturnedKeeps ==
  ASSUME TypeOK, NEW guest, IsGuest(guest), guest.fuel > 0, NEW doing
  PROVE  /\ Grown(guest).counter = guest.counter
         /\ ~(doing = "call" /\ guest.bytes = "counter") =>
              /\ Ran(guest, doing).counter = guest.counter
              /\ Ran(guest, doing).size = guest.size /\ Ran(guest, doing).memory = guest.memory
         /\ doing = "call" /\ guest.bytes = "counter" =>
              /\ Ran(guest, doing).counter = guest.counter + 1
              /\ <<Ran(guest, doing).memory[0]>> = Counted(guest.counter + 1)
<1>1. Grown(guest).counter = guest.counter
  BY DEF IsGuest, Grown
<1>2. ASSUME ~(doing = "call" /\ guest.bytes = "counter")
      PROVE  /\ Ran(guest, doing).counter = guest.counter
             /\ Ran(guest, doing).size = guest.size /\ Ran(guest, doing).memory = guest.memory
  BY <1>2 DEF IsGuest, Ran
<1>3. ASSUME doing = "call", guest.bytes = "counter"
      PROVE  /\ Ran(guest, doing).counter = guest.counter + 1
             /\ <<Ran(guest, doing).memory[0]>> = Counted(guest.counter + 1)
  <2> DEFINE count == Counted(guest.counter + 1)[1]
  <2>1. Ran(guest, doing) =
          [bytes |-> guest.bytes, fuel |-> guest.fuel - 1, heap |-> guest.heap,
           counter |-> guest.counter + 1, size |-> guest.size,
           memory |-> [guest.memory EXCEPT ![0] = count]]
    BY <1>3 DEF Ran, IsGuest
  <2>2. 0 \in 0..(guest.size - 1)
    BY Sizes DEF IsGuest
  <2>3. <<count>> = Counted(guest.counter + 1)
    BY DEF Counted
  <2> HIDE DEF count
  <2>4. [guest.memory EXCEPT ![0] = count][0] = count
    BY <2>2 DEF IsGuest
  <2> QED BY <2>1, <2>3, <2>4
<1> QED BY <1>1, <1>2, <1>3

\* Guest code runs.
LEMMA Running ==
  ASSUME IInv, SInv, NEW t \in Threads, Run(t) PROVE SInv'
<1>1. /\ pc[t] = "run" /\ pc[t] \in Inside /\ pc[t] \in Busy
      /\ UNCHANGED <<limits, supply, next_handle, tasks>>
  BY DEF Run, Inside, Busy
<1>2. /\ task[t].handle \in DOMAIN modules[Mine(t)] /\ IsGuest(Guest(t)) /\ Alone(t)
      /\ Mine(t) \in Runtimes /\ TypeOK /\ task[t] \in Tasks /\ refs[t] \in RefsType
  BY <1>1, InsideFacts DEF IInv
<1>3. limits.fuel \in Nat \ {0} /\ Guest(t).fuel \in Nat
  BY <1>2, Tank DEF IsGuest
<1>4. task[t].kind = "fresh" => Guest(t).counter = 0
  BY <1>1 DEF SInv, Carried, Busy, Inside
<1> DEFINE guest == Guest(t)
           doing == task[t].doing
           spins == doing = "call" /\ guest.bytes = "spinner"
           grows == doing = "call" /\ guest.bytes = "grower"
           word == Returned(guest.bytes, doing, [ptr |-> refs[t].args, len |-> task[t].length])
           returns(left) == /\ Becomes(t, left)
                            /\ refs' = [refs EXCEPT ![t].packed = word]
                            /\ Goes(t, "read") /\ UNCHANGED <<lock, task, log>>
<1>5. ASSUME NEW why, Fail(t, guest, why) PROVE SInv'
  <2>1. Rewrote(t, guest)
    BY <1>1, <1>2, <1>5, BecomesRewrites DEF Fail
  <2> QED BY <1>1, <1>5, <2>1, AnsweringInside DEF Fail
<1>6. CASE /\ guest.fuel > 0 /\ spins
           /\ Becomes(t, [guest EXCEPT !.fuel = @ - 1])
           /\ UNCHANGED <<lock, task, pc, refs, log>>
  <2>1. PICK left : left = [guest EXCEPT !.fuel = guest.fuel - 1]
    OBVIOUS
  <2>2. guest.fuel - 1 \in 0..limits.fuel
    BY <1>2, <1>3, <1>6 DEF IsGuest
  <2>3. IsGuest(left) /\ left.bytes = guest.bytes /\ left.counter = guest.counter
    BY <1>2, <2>1, <2>2, RefuelledIsGuest DEF IsGuest
  <2>4. Becomes(t, left)
    BY <1>6, <2>1
  <2>5. Rewrote(t, left)
    BY <1>1, <1>2, <2>3, <2>4, BecomesRewrites
  <2>6. Goes(t, "run")
    BY <1>1, <1>2, <1>6 DEF Goes, TypeOK
  <2>7. pc'[t] = "run" /\ Guest(t)' = left /\ task'[t] = task[t]
    BY <1>6, <2>5, <2>6, NowAt
  <2>8. Carried(t)'
    BY <1>4, <1>6, <2>3, <2>7 DEF Carried, Calls
  <2> QED BY <1>1, <1>2, <1>6, <2>5, <2>6, <2>8, MovingInside
<1>7. ASSUME NEW left, IsGuest(left), left.bytes = guest.bytes, returns(left),
             doing = "call" /\ guest.bytes = "echo" =>
               left.size = guest.size /\ left.memory = guest.memory,
             doing = "call" /\ guest.bytes = "counter" =>
               /\ left.counter = guest.counter + 1
               /\ <<left.memory[0]>> = Counted(guest.counter + 1)
      PROVE  SInv'
  <2>1. Rewrote(t, left)
    BY <1>1, <1>2, <1>7, BecomesRewrites
  <2>2. pc'[t] = "read" /\ Guest(t)' = left /\ task'[t] = task[t]
    BY <1>7, <2>1, NowAt
  <2>3. /\ refs'[t].packed = word /\ refs'[t].args = refs[t].args
        /\ \A u \in Threads \ {t} : refs'[u] = refs[u]
    <3> HIDE DEF word
    <3> QED BY <1>2, <1>7 DEF TypeOK, RefsType
  <2>4. doing = "call" /\ guest.bytes = "echo" => word = Pack(refs[t].args, task[t].length)
    BY DEF Returned
  <2>5. doing = "call" /\ guest.bytes = "counter" => word = Pack(0, 1)
    BY DEF Returned
  <2>6. doing = "call" /\ guest.bytes = "echo" => Holds(left, task[t], refs[t].args)
    <3>1. doing = "call" /\ guest.bytes = "echo" => Holds(guest, task[t], refs[t].args)
      BY <1>1 DEF SInv, Carried, Calls
    <3> QED BY <1>7, <3>1 DEF Holds
  <2>7. Carried(t)'
    <3> HIDE DEF word, guest, doing
    <3>1. Calls(t, "echo")' <=> doing = "call" /\ guest.bytes = "echo"
      BY <1>7, <2>2 DEF Calls, doing
    <3>2. Calls(t, "counter")' <=> doing = "call" /\ guest.bytes = "counter"
      BY <1>7, <2>2 DEF Calls, doing
    <3>3. guest = Guest(t)
      BY DEF guest
    <3> QED BY <1>4, <1>7, <2>2, <2>3, <2>4, <2>5, <2>6, <3>1, <3>2, <3>3 DEF Carried
  <2>8. "read" \in Inside
    BY DEF Inside
  <2> QED BY <1>1, <1>2, <1>7, <2>1, <2>3, <2>7, <2>8, MovingInside
<1>8. CASE guest.fuel > 0 /\ grows /\ returns(Grown(guest))
  <2>1. IsGuest(Grown(guest)) /\ Grown(guest).bytes = guest.bytes
    BY <1>2, <1>8, GrownIsGuest
  <2> HIDE DEF returns
  <2> QED BY <1>7, <1>8, <2>1
<1>9. CASE guest.fuel > 0 /\ ~grows /\ ~spins /\ returns(Ran(guest, doing))
  <2>1. IsGuest(Ran(guest, doing)) /\ Ran(guest, doing).bytes = guest.bytes
    BY <1>2, <1>9, RanIsGuest
  <2>2. /\ doing = "call" /\ guest.bytes = "echo" =>
             Ran(guest, doing).size = guest.size /\ Ran(guest, doing).memory = guest.memory
        /\ doing = "call" /\ guest.bytes = "counter" =>
             /\ Ran(guest, doing).counter = guest.counter + 1
             /\ <<Ran(guest, doing).memory[0]>> = Counted(guest.counter + 1)
    BY <1>2, <1>9, ReturnedKeeps
  <2> HIDE DEF returns, doing, guest
  <2> QED BY <1>7, <1>9, <2>1, <2>2
<1> QED BY <1>5, <1>6, <1>8, <1>9 DEF Run

\* The host reads the frame.
LEMMA ReadingOut ==
  ASSUME IInv, SInv, NEW t \in Threads, Read(t) PROVE SInv'
<1>1. /\ pc[t] = "read" /\ pc[t] \in Inside /\ pc[t] \in Busy
      /\ UNCHANGED <<limits, supply, next_handle, tasks>>
  BY DEF Read, Inside, Busy
<1>2. /\ task[t].handle \in DOMAIN modules[Mine(t)] /\ IsGuest(Guest(t)) /\ Alone(t)
      /\ TypeOK /\ task[t] \in Tasks
  BY <1>1, InsideFacts DEF IInv
<1>3. ASSUME UNCHANGED modules PROVE Rewrote(t, Guest(t))
  BY <1>1, <1>2, <1>3, ReadingRewrites
<1>4. ASSUME NEW why, Fail(t, Guest(t), why) PROVE SInv'
  <2>1. Rewrote(t, Guest(t))
    BY <1>1, <1>2, <1>4, BecomesRewrites DEF Fail
  <2> QED BY <1>1, <1>4, <2>1, AnsweringInside DEF Fail
<1>5. ASSUME NEW result, Answer(t, task[t], result), UNCHANGED modules PROVE SInv'
  BY <1>1, <1>3, <1>5, AnsweringInside
<1>6. CASE /\ UNCHANGED <<modules, refs, log>> /\ task[t].kind = "load"
           /\ task[t].doing = "manifest" /\ task' = [task EXCEPT ![t].doing = "exports"]
           /\ Goes(t, "enter")
  <2>1. /\ task'[t] = [task[t] EXCEPT !.doing = "exports"]
        /\ \A u \in Threads \ {t} : task'[u] = task[u]
        /\ pc'[t] = "enter" /\ \A u \in Threads \ {t} : pc'[u] = pc[u]
    BY <1>2, <1>6, GoesOthers DEF TypeOK
  <2>2. /\ task'[t].doing = "exports" /\ task'[t].kind = "load"
        /\ task'[t].ticket = task[t].ticket /\ task'[t].handle = task[t].handle
    BY <1>2, <1>6, <2>1 DEF Tasks
  <2>3. Kept(t) /\ Grows
    BY <1>1, <1>6, <2>1, StayingKeeps
  <2>4. Kinded(t)'
    BY <1>1, <1>6, <2>1, <2>2 DEF SInv, Kinded, Busy, Inside
  <2>5. Carried(t)'
    BY <2>1, <2>2 DEF Carried
  <2>6. Loads(t) /\ pc[t] # "idle"
    BY <1>1, <1>6 DEF Loads
  <2> QED BY <1>1, <1>6, <2>2, <2>3, <2>4, <2>5, <2>6, GoingOn
<1> QED BY <1>4, <1>5, <1>6 DEF Read

-----------------------------------------------------------------------------
(* Handles. *)

\* A new runtime.
LEMMA ServiceStarts == ASSUME Init PROVE SInv
<1>1. /\ \A t \in Threads : pc[t] = "idle" /\ task[t] = NoTask
      /\ log = {}
  BY DEF Init
<1> QED BY <1>1 DEF SInv, Ticketed, Kinded, Carried, NoTask, Busy, Inside

\* Nothing happens.
LEMMA ServiceStutters == ASSUME SInv, UNCHANGED vars PROVE SInv'
<1>1. UNCHANGED <<limits, supply, lock, next_handle, modules, tasks, task, pc, refs, log>>
  BY DEF vars, state
<1>2. \A t \in Threads : Ticketed(t)' /\ Kinded(t)' /\ Carried(t)'
  BY <1>1 DEF SInv, Ticketed, Kinded, Carried, Calls, Holds, Guest, Mine
<1>3. \A e \in log' : Named(e)'
  BY <1>1 DEF SInv, Named
<1> QED BY <1>2, <1>3 DEF SInv

\* With the mutex, the invariant is inductive.
LEMMA ServiceSteps == ASSUME IInv, SInv, [Next]_vars PROVE SInv'
<1>1. CASE UNCHANGED vars
  BY <1>1, ServiceStutters
<1>2. CASE Rest
  BY <1>2, ServiceStutters DEF Rest
<1>3. ASSUME NEW t \in Threads, Step(t) PROVE SInv'
  BY <1>3, Compiling, Minting, Entering, Sending, Running, ReadingOut DEF Step
<1> QED BY <1>1, <1>2, <1>3, Asking DEF Next

\* It holds in every run.
LEMMA ServiceInvariance == Spec => [](IInv /\ SInv)
<1>1. Init => SInv
  BY ServiceStarts
<1>2. IInv /\ SInv /\ [Next]_vars => SInv'
  BY ServiceSteps
<1> QED BY <1>1, <1>2, Invariance, PTL DEF Spec

\* A handle names one module for good: no two instantiations were given the
\* same, and it still stands for the bytes it was given for, however many
\* modules were compiled at the same time.
THEOREM HandleTheorem == Spec => []HandleNamesItsModule
<1>1. SInv => HandleNamesItsModule
  BY DEF SInv, Named, IsInstantiation, TakesHandle, HandleNamesItsModule
<1> QED BY <1>1, ServiceInvariance, PTL

-----------------------------------------------------------------------------
(* One operation at a time. *)

\* A packed pointer and length come apart again, as long as the pointer is a
\* word.
LEMMA Unpacked ==
  ASSUME NEW ptr \in 0..(Word - 1), NEW len \in Nat
  PROVE  Unpack(Pack(ptr, len)) = [ptr |-> ptr, len |-> len]
<1> DEFINE packed == len * Word + ptr
           q == packed \div Word
           r == packed % Word
<1>1. Word \in Nat /\ Word > 0 /\ len * Word \in Nat
  BY Sizes
<1>2. packed \in Nat
  BY <1>1
<1>3. q \in Int /\ r \in 0..(Word - 1) /\ packed = Word * q + r
  <2> HIDE DEF packed
  <2> QED BY <1>1, <1>2
<1> HIDE DEF q, r
<1>4. Word * (q - len) = ptr - r
  <2>1. Word * (q - len) = Word * q - len * Word
    BY <1>1, <1>3
  <2> QED BY <1>1, <1>3, <2>1
<1>5. q = len
  <2> DEFINE d == q - len
  <2>1. d \in Int /\ Word * d = ptr - r
    BY <1>3, <1>4
  <2> HIDE DEF d
  <2>2. Word * d < Word /\ Word * d > -Word
    BY <1>1, <1>3, <2>1
  <2>3. ~(d >= 1)
    <3>1. d >= 1 => Word * d >= Word
      BY <1>1, <2>1
    <3> QED BY <2>2, <3>1, <1>1, <2>1
  <2>4. ~(d <= -1)
    <3>1. d <= -1 => Word * d <= -Word
      BY <1>1, <2>1
    <3> QED BY <2>2, <3>1, <1>1, <2>1
  <2>5. d = 0
    BY <2>1, <2>3, <2>4
  <2> QED BY <1>3, <2>5 DEF d
<1>6. r = ptr
  BY <1>1, <1>3, <1>4, <1>5
<1> QED BY <1>5, <1>6 DEF Unpack, Pack, q, r

\* Whether thread t is about to read the answer of a call on a handle.
Reads(t, h) == pc[t] = "read" /\ task[t].kind = "call" /\ task[t].handle = h

\* The abstract state of a handle.
Seen(h) ==
  [bytes |-> modules[Shared][h].bytes,
   calls |-> IF modules[Shared][h].bytes = "counter" /\ Reading(h)
             THEN modules[Shared][h].counter - 1 ELSE modules[Shared][h].counter]

\* What there is to say of Served.
LEMMA ServedIs ==
  ASSUME TypeOK
  PROVE  /\ Served = [h \in 1..next_handle[Shared] |-> Seen(h)]
         /\ next_handle[Shared] \in Nat /\ Len(Served) = next_handle[Shared]
         /\ DOMAIN modules[Shared] = 1..next_handle[Shared]
<1>1. Served = [h \in 1..next_handle[Shared] |-> Seen(h)]
  BY DEF Served, Seen
<1>2. next_handle[Shared] \in Nat /\ DOMAIN modules[Shared] = 1..next_handle[Shared]
  BY DEF TypeOK, Runtimes
<1> HIDE DEF Seen
<1> QED BY <1>1, <1>2

\* A step of the service, or none.
ServiceStep == [Service!Next]_(Service!svars)

\* The abstract state stays if every handle is seen as before.
LEMMA SeenStays ==
  ASSUME TypeOK, TypeOK', next_handle'[Shared] = next_handle[Shared],
         \A h \in 1..next_handle[Shared] : Seen(h)' = Seen(h)
  PROVE  Served' = Served
<1>1. Served = [h \in 1..next_handle[Shared] |-> Seen(h)]
  BY ServedIs
<1>2. Served' = [h \in 1..next_handle'[Shared] |-> Seen(h)']
  BY DEF Served, Seen
<1> HIDE DEF Seen
<1> QED BY <1>1, <1>2

\* A refusal, or a table that was read, is told and changes nothing.
LEMMA Telling ==
  ASSUME Served' = Served, NEW asked, NEW result,
         log' = log \union {[task |-> asked, result |-> result]},
         ~result.ok \/ asked.doing \in {"manifest", "exports"}
  PROVE  ServiceStep
<1> DEFINE entry == [task |-> asked, result |-> result]
<1>1. CASE entry \in log
  BY <1>1 DEF ServiceStep, Service!svars
<1>2. CASE entry \notin log
  <2>1. entry \in log' \ log /\ log' = log \union {entry}
    BY <1>2
  <2>2. Service!Tell(entry)
    BY DEF Service!Tell
  <2> HIDE DEF entry
  <2> QED BY <2>1, <2>2 DEF ServiceStep, Service!Next
<1> QED BY <1>1, <1>2

\* Where nothing is answered either, the service does nothing.
LEMMA Idling == ASSUME Served' = Served, log' = log PROVE ServiceStep
BY DEF ServiceStep, Service!svars

\* The table and the readers stay: nothing is seen.
LEMMA SameTable ==
  ASSUME TypeOK, TypeOK', next_handle'[Shared] = next_handle[Shared],
         modules'[Shared] = modules[Shared],
         \A h \in 1..next_handle[Shared] : Reading(h)' <=> Reading(h)
  PROVE  Served' = Served
<1>1. \A h \in 1..next_handle[Shared] : Seen(h)' = Seen(h)
  BY DEF Seen
<1> QED BY <1>1, SeenStays

\* Who reads is decided by the thread that takes the step.
LEMMA SameReaders ==
  ASSUME NEW t \in Threads, NEW h,
         \A u \in Threads \ {t} : task'[u] = task[u] /\ pc'[u] = pc[u],
         Reads(t, h)' <=> Reads(t, h)
  PROVE  Reading(h)' <=> Reading(h)
<1>1. \A u \in Threads : Reads(u, h)' <=> Reads(u, h)
  BY DEF Reads
<1>2. Reading(h) <=> \E u \in Threads : Reads(u, h)
  BY DEF Reading, Reads
<1>3. Reading(h)' <=> \E u \in Threads : Reads(u, h)'
  BY DEF Reading, Reads
<1> QED BY <1>1, <1>2, <1>3

\* A step outside that leaves the table alone.
LEMMA OutsideUnseen ==
  ASSUME TypeOK, TypeOK', NEW t \in Threads, pc[t] # "read", pc'[t] # "read",
         next_handle'[Shared] = next_handle[Shared], modules'[Shared] = modules[Shared],
         \A u \in Threads \ {t} : task'[u] = task[u] /\ pc'[u] = pc[u]
  PROVE  Served' = Served
<1>1. \A h \in 1..next_handle[Shared] : Reading(h)' <=> Reading(h)
  <2> TAKE h \in 1..next_handle[Shared]
  <2>1. Reads(t, h)' <=> Reads(t, h)
    BY DEF Reads
  <2> QED BY <2>1, SameReaders
<1> QED BY <1>1, SameTable

\* A step inside that leaves the counter alone, and the answer of a counter
\* where it is.
LEMMA InsideUnseen ==
  ASSUME IInv, TypeOK', NEW t \in Threads, NEW guest, Rewrote(t, guest),
         task[t].handle \in DOMAIN modules[Mine(t)],
         \A u \in Threads \ {t} : task'[u] = task[u] /\ pc'[u] = pc[u],
         Mine(t) = Shared => guest.counter = Guest(t).counter,
         pc'[t] = "read" => task'[t] = task[t],
         Guest(t).bytes = "counter" /\ task[t].kind = "call" =>
           (pc'[t] = "read" <=> pc[t] = "read")
  PROVE  Served' = Served
<1>1. /\ TypeOK /\ Shared \in Runtimes /\ next_handle'[Shared] = next_handle[Shared]
      /\ DOMAIN modules[Shared] = 1..next_handle[Shared]
      /\ task[t].kind = "call" => Mine(t) = Shared
  BY DEF IInv, Asked, Rewrote, TypeOK, Runtimes
<1>2. ASSUME NEW h \in 1..next_handle[Shared] PROVE Seen(h)' = Seen(h)
  <2>1. CASE Mine(t) = Shared /\ h = task[t].handle
    <3>1. /\ modules'[Shared][h] = guest /\ modules[Shared][h] = Guest(t)
          /\ guest.bytes = Guest(t).bytes /\ guest.counter = Guest(t).counter
      BY <2>1 DEF Rewrote, Guest
    <3>2. Guest(t).bytes = "counter" => (Reading(h)' <=> Reading(h))
      <4> SUFFICES ASSUME Guest(t).bytes = "counter" PROVE Reading(h)' <=> Reading(h)
        OBVIOUS
      <4>1. Reads(t, h)' <=> Reads(t, h)
        <5>1. CASE task[t].kind = "call"
          BY <2>1, <5>1 DEF Reads
        <5>2. CASE task[t].kind # "call"
          BY <5>2 DEF Reads
        <5> QED BY <5>1, <5>2
      <4> QED BY <4>1, SameReaders
    <3> QED BY <3>1, <3>2 DEF Seen
  <2>2. CASE Mine(t) # Shared \/ h # task[t].handle
    <3>1. modules'[Shared][h] = modules[Shared][h]
      BY <1>1, <2>2 DEF Rewrote
    <3>2. Reading(h)' <=> Reading(h)
      <4>1. Reads(t, h)' <=> Reads(t, h)
        BY <1>1, <2>2 DEF Reads
      <4> QED BY <4>1, SameReaders
    <3> QED BY <3>1, <3>2 DEF Seen
  <2> QED BY <2>1, <2>2
<1> QED BY <1>1, <1>2, SeenStays

\* A counter that counts is not seen before its frame is read.
LEMMA CountingUnseen ==
  ASSUME IInv, TypeOK', NEW t \in Threads, NEW guest, Rewrote(t, guest),
         pc[t] = "run", pc'[t] = "read", task'[t] = task[t],
         \A u \in Threads \ {t} : task'[u] = task[u] /\ pc'[u] = pc[u],
         Guest(t).bytes = "counter", task[t].kind = "call",
         guest.counter = Guest(t).counter + 1
  PROVE  Served' = Served
<1>1. /\ TypeOK /\ Shared \in Runtimes /\ next_handle'[Shared] = next_handle[Shared]
      /\ DOMAIN modules[Shared] = 1..next_handle[Shared] /\ Mine(t) = Shared
      /\ pc[t] \in Inside
  BY DEF IInv, Asked, Rewrote, TypeOK, Runtimes, Inside
<1>2. Alone(t) /\ task[t].handle \in DOMAIN modules[Mine(t)] /\ IsGuest(Guest(t))
  BY <1>1, InsideFacts
<1>3. ASSUME NEW h \in 1..next_handle[Shared] PROVE Seen(h)' = Seen(h)
  <2>1. CASE h = task[t].handle
    <3>1. modules'[Shared][h] = guest /\ modules[Shared][h] = Guest(t)
      BY <1>1, <2>1 DEF Rewrote, Guest
    <3>2. guest.bytes = "counter" /\ Guest(t).counter \in Nat
      BY <1>2 DEF Rewrote, IsGuest
    <3>3. Reading(h)'
      BY <2>1 DEF Reading
    <3>4. ~Reading(h)
      <4> SUFFICES ASSUME NEW u \in Threads, pc[u] = "read", task[u].kind = "call" PROVE FALSE
        BY DEF Reading
      <4>1. u # t /\ pc[u] \in Inside
        BY DEF Inside
      <4>2. Mine(u) = Shared
        BY DEF IInv, Asked
      <4> QED BY <1>1, <1>2, <4>1, <4>2 DEF Alone
    <3>5. (Guest(t).counter + 1) - 1 = Guest(t).counter
      BY <3>2
    <3> QED BY <3>1, <3>2, <3>3, <3>4, <3>5 DEF Seen
  <2>2. CASE h # task[t].handle
    <3>1. modules'[Shared][h] = modules[Shared][h]
      BY <1>1, <2>2 DEF Rewrote
    <3>2. Reads(t, h)' <=> Reads(t, h)
      BY <2>2 DEF Reads
    <3>3. Reading(h)' <=> Reading(h)
      BY <3>2, SameReaders
    <3> QED BY <3>1, <3>3 DEF Seen
  <2> QED BY <2>1, <2>2
<1> QED BY <1>1, <1>3, SeenStays

\* Asking for something.
LEMMA AskingServed ==
  ASSUME IInv, TypeOK', NEW t \in Threads, Asks(t) PROVE ServiceStep
<1>1. Shared # t /\ Shared \in Runtimes /\ DOMAIN modules = Runtimes /\ TypeOK
      /\ next_handle \in [Runtimes -> Nat]
  BY ThreadsAssumption DEF IInv, TypeOK, Runtimes
<1>2. next_handle'[Shared] = next_handle[Shared] /\ modules'[Shared] = modules[Shared]
  BY <1>1 DEF Asks, Instantiate, Load, CallFresh, CallHost
<1>3. ASSUME NEW asked, NEW at \in {"compile", "enter"}, Begin(t, asked, at)
      PROVE  /\ pc[t] # "read" /\ pc'[t] # "read" /\ log' = log
             /\ \A u \in Threads \ {t} : task'[u] = task[u] /\ pc'[u] = pc[u]
  BY <1>3 DEF Begin, IInv, TypeOK
<1>4. \E asked : \E at \in {"compile", "enter"} : Begin(t, asked, at)
  BY DEF Asks, Instantiate, Load, CallFresh, CallHost
<1> QED BY <1>1, <1>2, <1>3, <1>4, OutsideUnseen, Idling

\* Compiling.
LEMMA CompilingServed ==
  ASSUME IInv, TypeOK', NEW t \in Threads, Compile(t) PROVE ServiceStep
<1>1. /\ pc[t] = "compile" /\ TypeOK
      /\ next_handle'[Shared] = next_handle[Shared] /\ modules'[Shared] = modules[Shared]
  BY DEF Compile, state, IInv
<1>2. CASE Answer(t, task[t], Err("module"))
  <2>1. Served' = Served
    BY <1>1, <1>2, AnswerOthers, OutsideUnseen
  <2>2. ~Err("module").ok /\ log' = log \union {[task |-> task[t], result |-> Err("module")]}
    BY <1>2 DEF Err, Answer
  <2> QED BY <2>1, <2>2, Telling
<1>3. CASE Goes(t, "mint") /\ UNCHANGED <<task, refs, log>>
  <2>1. Served' = Served
    BY <1>1, <1>3, GoesOthers, OutsideUnseen
  <2> QED BY <1>3, <2>1, Idling
<1> QED BY <1>2, <1>3 DEF Compile

\* Appending to a sequence that is given as a function.
LEMMA AppendIs ==
  ASSUME NEW n \in Nat, NEW S, NEW f \in [1..n -> S], NEW e \in S
  PROVE  Append(f, e) = [i \in 1..(n + 1) |-> IF i = n + 1 THEN e ELSE f[i]]
<1> DEFINE g == Append(f, e)
<1>1. f \in Seq(S) /\ Len(f) = n
  OBVIOUS
<1>2. /\ g \in Seq(S) /\ Len(g) = n + 1 /\ g[n + 1] = e
      /\ \A i \in 1..n : g[i] = f[i]
  BY <1>1
<1> HIDE DEF g
<1>3. g = [i \in 1..(n + 1) |-> g[i]]
  BY <1>2
<1>4. \A i \in 1..(n + 1) : i # n + 1 => i \in 1..n
  OBVIOUS
<1>5. g = [i \in 1..(n + 1) |-> IF i = n + 1 THEN e ELSE f[i]]
  BY <1>2, <1>3, <1>4
<1> QED BY <1>5 DEF g

\* A new handle is the next one, with no call counted.
LEMMA Adding ==
  ASSUME IInv, TypeOK', NEW t \in Threads, NEW handle, NEW guest,
         Minted(t, handle, guest), IsGuest(guest), guest.counter = 0, lock[Mine(t)] = NoThread,
         Mine(t) = Shared, pc[t] # "read", pc'[t] # "read",
         \A u \in Threads \ {t} : task'[u] = task[u] /\ pc'[u] = pc[u] /\ refs'[u] = refs[u]
  PROVE  Served' = Append(Served, [bytes |-> guest.bytes, calls |-> 0])
<1> DEFINE n == next_handle[Shared]
           e == [bytes |-> guest.bytes, calls |-> 0]
           old == [h \in 1..n |-> Seen(h)]
<1>1. /\ TypeOK /\ Shared \in Runtimes /\ DOMAIN modules[Shared] = 1..n /\ n \in Nat
      /\ DOMAIN modules = Runtimes /\ next_handle \in [Runtimes -> Nat]
  BY DEF IInv, TypeOK, Runtimes
<1>2. /\ handle = n + 1 /\ next_handle'[Shared] = n + 1
      /\ modules'[Shared] = Inserted(modules[Shared], handle, guest)
  BY <1>1 DEF Minted
<1>3. \A h \in 1..n : modules'[Shared][h] = modules[Shared][h]
  BY <1>1, <1>2 DEF Inserted
<1>4. modules'[Shared][n + 1] = guest
  BY <1>1, <1>2 DEF Inserted
<1>5. ASSUME NEW h PROVE Reading(h)' <=> Reading(h)
  <2>1. Reads(t, h)' <=> Reads(t, h)
    BY DEF Reads
  <2> QED BY <2>1, SameReaders
<1>6. \A h \in 1..n : Seen(h)' = Seen(h)
  BY <1>3, <1>5 DEF Seen
<1>7. ~Reading(n + 1)
  <2> SUFFICES ASSUME NEW u \in Threads, pc[u] = "read", task[u].kind = "call",
                      task[u].handle = n + 1
               PROVE  FALSE
    BY DEF Reading
  <2>1. Mine(u) = Shared /\ task[u].handle \in DOMAIN modules[Mine(u)]
    BY DEF IInv, Asked, Placed, Inside
  <2> QED BY <1>1, <2>1
<1>8. ASSUME NEW h, h = n + 1 PROVE Seen(h)' = e
  BY <1>2, <1>4, <1>5, <1>7, <1>8 DEF Seen
<1>9. Served = old /\ Served' = [h \in 1..(n + 1) |-> Seen(h)']
  <2>1. Served' = [h \in 1..next_handle'[Shared] |-> Seen(h)']
    BY DEF Served, Seen
  <2> HIDE DEF Seen
  <2> QED BY <1>1, <1>2, <2>1, ServedIs
<1>10. Append(old, e) = [h \in 1..(n + 1) |-> IF h = n + 1 THEN e ELSE old[h]]
  <2> DEFINE S == {Seen(h) : h \in 1..n} \union {e}
  <2>1. old \in [1..n -> S] /\ e \in S
    OBVIOUS
  <2> HIDE DEF old, e, S, n
  <2> QED BY <1>1, <2>1, AppendIs
<1>11. \A h \in 1..(n + 1) : Seen(h)' = IF h = n + 1 THEN e ELSE old[h]
  <2> HIDE DEF Seen, e
  <2>1. \A h \in 1..(n + 1) : h = n + 1 \/ h \in 1..n
    BY <1>1
  <2> QED BY <1>6, <1>8, <2>1
<1> HIDE DEF old, e, n, Seen
<1>12. Served' = Append(Served, e)
  BY <1>9, <1>10, <1>11
<1> QED BY <1>12 DEF e

\* Minting adds to the shared table, or to one nobody sees.
LEMMA MintingServed ==
  ASSUME IInv, SInv, TypeOK', NEW t \in Threads, Mint(t) PROVE ServiceStep
<1>1. PICK handle, guest : /\ handle = next_handle[Mine(t)] + 1
                           /\ guest = Instance(task[t].bytes)
  OBVIOUS
<1>2. MintsFor(t, handle, guest)
  BY <1>1, MintMints
<1>3. /\ pc[t] = "mint" /\ TypeOK /\ task[t].bytes \in Modules
      /\ Mine(t) = IF task[t].kind = "fresh" THEN t ELSE Shared
      /\ Shared \in Runtimes /\ DOMAIN modules = Runtimes /\ next_handle \in [Runtimes -> Nat]
  BY DEF Mint, IInv, TypeOK, Asked, Runtimes
<1>4. PICK asked : asked = Handed(t, handle)
  OBVIOUS
<1>5. /\ asked.handle = handle /\ asked.ticket = task[t].ticket /\ asked.kind = task[t].kind
      /\ asked.bytes = task[t].bytes
  BY <1>4, HandedTask
<1>6. ASSUME Mine(t) = Shared, pc'[t] # "read",
             \A u \in Threads \ {t} : task'[u] = task[u] /\ pc'[u] = pc[u] /\ refs'[u] = refs[u]
      PROVE  Service!Add(task[t].bytes)
  <2>1. Served' = Append(Served, [bytes |-> guest.bytes, calls |-> 0])
    BY <1>2, <1>3, <1>6, Adding DEF MintsFor
  <2>2. guest.bytes = task[t].bytes
    BY <1>2 DEF MintsFor
  <2> QED BY <2>1, <2>2 DEF Service!Add
<1>7. CASE asked.kind = "instantiate" /\ Answer(t, asked, Ok(<<>>))
  <2> DEFINE entry == [task |-> asked, result |-> Ok(<<>>)]
  <2>1. Mine(t) = Shared /\ Service!Add(task[t].bytes)
    BY <1>3, <1>5, <1>6, <1>7, AnswerOthers
  <2>2. entry \notin log
    BY <1>3, <1>5 DEF SInv, Ticketed
  <2>3. log' = log \union {entry}
    BY <1>7 DEF Answer
  <2>4. entry.task.handle = Len(Served) + 1
    BY <1>1, <1>3, <1>5, <2>1, ServedIs
  <2>5. Service!AddAndTell(entry)
    BY <1>5, <1>7, <2>1, <2>4 DEF Service!AddAndTell, Ok
  <2> HIDE DEF entry
  <2>6. entry \in log' \ log
    BY <2>2, <2>3
  <2> QED BY <2>3, <2>5, <2>6 DEF ServiceStep, Service!Next
<1>8. CASE /\ asked.kind # "instantiate" /\ task' = [task EXCEPT ![t] = asked]
           /\ Goes(t, "enter") /\ UNCHANGED <<refs, log>>
  <2>1. /\ pc'[t] = "enter"
        /\ \A u \in Threads \ {t} : task'[u] = task[u] /\ pc'[u] = pc[u] /\ refs'[u] = refs[u]
    BY <1>3, <1>8, GoesOthers DEF TypeOK
  <2>2. CASE task[t].kind = "fresh"
    <3>1. next_handle'[Shared] = next_handle[Shared] /\ modules'[Shared] = modules[Shared]
      BY <1>2, <1>3, <2>2, ThreadsAssumption DEF MintsFor, Minted
    <3>2. Served' = Served
      BY <1>3, <2>1, <3>1, OutsideUnseen
    <3> QED BY <1>8, <3>2, Idling
  <2>3. CASE task[t].kind # "fresh"
    <3>1. Service!Add(task[t].bytes)
      BY <1>3, <1>6, <2>1, <2>3
    <3> QED BY <1>3, <1>8, <3>1 DEF ServiceStep, Service!Next
  <2> QED BY <2>2, <2>3
<1> QED BY <1>1, <1>4, <1>7, <1>8 DEF Mint, Handed

\* A refusal from inside is told, as long as it is not a counter's.
LEMMA FailingServed ==
  ASSUME IInv, TypeOK', NEW t \in Threads, pc[t] \in Inside,
         UNCHANGED <<limits, supply, next_handle, tasks>>,
         NEW guest, IsGuest(guest), guest.bytes = Guest(t).bytes,
         guest.counter = Guest(t).counter, NEW why, Fail(t, guest, why),
         Guest(t).bytes = "counter" /\ task[t].kind = "call" => pc[t] # "read"
  PROVE  ServiceStep
<1>1. task[t].handle \in DOMAIN modules[Mine(t)]
  BY InsideFacts
<1>2. Rewrote(t, guest)
  BY <1>1, BecomesRewrites DEF Fail
<1>3. pc'[t] = "idle" /\ \A u \in Threads \ {t} : task'[u] = task[u] /\ pc'[u] = pc[u]
  BY AnswerOthers DEF Fail
<1>4. Served' = Served
  BY <1>1, <1>2, <1>3, InsideUnseen
<1>5. ~Err(why).ok /\ log' = log \union {[task |-> task[t], result |-> Err(why)]}
  BY DEF Err, Fail, Answer
<1> QED BY <1>4, <1>5, Telling

\* A step on to another place inside, with the counter as it was.
LEMMA MovingServed ==
  ASSUME IInv, TypeOK', NEW t \in Threads, task[t].handle \in DOMAIN modules[Mine(t)],
         UNCHANGED <<limits, supply, next_handle, tasks, task, log>>,
         NEW guest, IsGuest(guest), guest.bytes = Guest(t).bytes, Becomes(t, guest),
         Mine(t) = Shared => guest.counter = Guest(t).counter, NEW at, Goes(t, at),
         Guest(t).bytes = "counter" /\ task[t].kind = "call" => at # "read" /\ pc[t] # "read"
  PROVE  ServiceStep
<1>1. Rewrote(t, guest)
  BY BecomesRewrites
<1>2. pc'[t] = at /\ \A u \in Threads \ {t} : pc'[u] = pc[u]
  BY GoesOthers
<1>3. Served' = Served
  BY <1>1, <1>2, InsideUnseen
<1> QED BY <1>3, Idling

\* Entering.
LEMMA EnteringServed ==
  ASSUME IInv, TypeOK', NEW t \in Threads, Enter(t) PROVE ServiceStep
<1>1. pc[t] = "enter" /\ UNCHANGED <<limits, supply, next_handle, tasks>> /\ TypeOK
      /\ Mine(t) \in Runtimes
  BY DEF Enter, IInv, TypeOK, Tasks, Mine
<1>2. CASE Answer(t, task[t], Err("handle")) /\ UNCHANGED <<lock, modules>>
  <2>1. Served' = Served
    BY <1>1, <1>2, AnswerOthers, OutsideUnseen
  <2>2. ~Err("handle").ok /\ log' = log \union {[task |-> task[t], result |-> Err("handle")]}
    BY <1>2 DEF Err, Answer
  <2> QED BY <2>1, <2>2, Telling
<1>3. CASE /\ task[t].handle \in DOMAIN modules[Mine(t)]
           /\ Becomes(t, [Guest(t) EXCEPT !.fuel = limits.fuel])
           /\ Goes(t, IF task[t].doing = "call" THEN "name" ELSE "run")
           /\ UNCHANGED <<task, refs, log>>
  <2>1. PICK guest : guest = [Guest(t) EXCEPT !.fuel = limits.fuel]
    OBVIOUS
  <2>2. PICK at : at = IF task[t].doing = "call" THEN "name" ELSE "run"
    OBVIOUS
  <2>3. IsGuest(Guest(t)) /\ limits.fuel \in 0..limits.fuel
    BY <1>1, <1>3, Tank DEF TypeOK, Guest
  <2>4. IsGuest(guest) /\ guest.bytes = Guest(t).bytes /\ guest.counter = Guest(t).counter
    BY <2>1, <2>3, RefuelledIsGuest DEF IsGuest
  <2>5. Becomes(t, guest) /\ Goes(t, at) /\ at # "read"
    BY <1>3, <2>1, <2>2
  <2> QED BY <1>1, <1>3, <2>4, <2>5, MovingServed
<1> QED BY <1>2, <1>3 DEF Enter

\* Writing into linear memory.
LEMMA WritingServed ==
  ASSUME IInv, TypeOK', NEW t \in Threads, pc[t] \in Inside \ {"read"},
         NEW field \in {"name", "args"}, NEW bytes \in Seq(Bytes), NEW at \in {"args", "run"},
         WriteGuestBytes(t, field, bytes, at), UNCHANGED <<limits, supply, next_handle, tasks>>
  PROVE  ServiceStep
<1>1. task[t].handle \in DOMAIN modules[Mine(t)] /\ IsGuest(Guest(t)) /\ TypeOK
  BY InsideFacts DEF IInv
<1> DEFINE guest == Guest(t)
           taken == Allocated(guest, Len(bytes))
           ptr == AllocatedAt(guest)
           left == Written(taken, ptr, bytes)
<1>2. ASSUME guest.fuel > 0
      PROVE  /\ IsGuest(taken) /\ taken.bytes = guest.bytes /\ ptr \in Nat
             /\ taken.size = guest.size /\ taken.counter = guest.counter
  BY <1>1, <1>2, AllocatedIsGuest, AllocatedKeeps
<1>3. CASE guest.fuel = 0 /\ Fail(t, guest, "fuel")
  BY <1>1, <1>3, FailingServed
<1>4. CASE guest.fuel > 0 /\ Fail(t, taken, "write")
  <2>1. IsGuest(taken) /\ taken.bytes = guest.bytes /\ taken.counter = guest.counter
    BY <1>2, <1>4
  <2> HIDE DEF taken
  <2> QED BY <1>4, <2>1, FailingServed
<1>5. CASE /\ guest.fuel > 0 /\ ptr + Len(bytes) <= guest.size
           /\ Becomes(t, left) /\ Goes(t, at) /\ UNCHANGED <<lock, task, log>>
  <2>1. /\ IsGuest(taken) /\ taken.bytes = guest.bytes /\ ptr \in Nat
        /\ taken.size = guest.size /\ taken.counter = guest.counter
    BY <1>2, <1>5
  <2> HIDE DEF taken, ptr, guest
  <2>2. IsGuest(left) /\ left.bytes = guest.bytes /\ left.counter = guest.counter
    BY <1>5, <2>1, WrittenIsGuest, WrittenKeeps
  <2> HIDE DEF left
  <2> QED BY <1>1, <1>5, <2>2, MovingServed DEF guest
<1> QED BY <1>3, <1>4, <1>5 DEF WriteGuestBytes

\* The name and the arguments of a call.
LEMMA SendingServed ==
  ASSUME IInv, TypeOK', NEW t \in Threads, SendName(t) \/ SendArguments(t) PROVE ServiceStep
<1>1. task[t] \in Tasks /\ pc[t] \in Inside \ {"read"}
      /\ UNCHANGED <<limits, supply, next_handle, tasks>>
  BY DEF IInv, TypeOK, SendName, SendArguments, Inside
<1>2. Byte("args", task[t].ticket) \in Bytes /\ Byte("name", task[t].ticket) \in Bytes
  BY <1>1 DEF Byte, Bytes, Tasks
<1>3. CASE SendName(t)
  <2>1. PICK bytes : bytes = <<Byte("name", task[t].ticket)>>
    OBVIOUS
  <2>2. bytes \in Seq(Bytes) /\ WriteGuestBytes(t, "name", bytes, "args")
    BY <1>2, <1>3, <2>1 DEF SendName
  <2> QED BY <1>1, <2>2, WritingServed
<1>4. CASE SendArguments(t)
  <2>1. PICK bytes : bytes = Arguments(task[t])
    OBVIOUS
  <2>2. bytes \in Seq(Bytes)
    BY <1>1, <1>2, <2>1 DEF Arguments, Tasks
  <2>3. WriteGuestBytes(t, "args", bytes, "run")
    BY <1>4, <2>1 DEF SendArguments
  <2> QED BY <1>1, <2>2, <2>3, WritingServed
<1> QED BY <1>3, <1>4

\* Guest code runs: nobody sees a counter count.
LEMMA RunningServed ==
  ASSUME IInv, SInv, TypeOK', NEW t \in Threads, Run(t) PROVE ServiceStep
<1>1. /\ pc[t] = "run" /\ pc[t] \in Inside /\ pc[t] \in Busy
      /\ UNCHANGED <<limits, supply, next_handle, tasks>>
  BY DEF Run, Inside, Busy
<1>2. /\ task[t].handle \in DOMAIN modules[Mine(t)] /\ IsGuest(Guest(t)) /\ TypeOK
      /\ limits.fuel \in Nat \ {0} /\ Guest(t).fuel \in 0..limits.fuel
      /\ Mine(t) = IF task[t].kind = "fresh" THEN t ELSE Shared
      /\ t # Shared
      /\ task[t].doing = "call" <=> task[t].kind \in {"call", "fresh"}
  BY <1>1, InsideFacts, Tank, ThreadsAssumption DEF IInv, Asked, SInv, Kinded, IsGuest
<1> DEFINE guest == Guest(t)
           doing == task[t].doing
           spins == doing = "call" /\ guest.bytes = "spinner"
           grows == doing = "call" /\ guest.bytes = "grower"
<1>3. ASSUME NEW why, Fail(t, guest, why) PROVE ServiceStep
  BY <1>1, <1>2, <1>3, FailingServed
<1>4. CASE /\ guest.fuel > 0 /\ spins
           /\ Becomes(t, [guest EXCEPT !.fuel = @ - 1])
           /\ UNCHANGED <<lock, task, pc, refs, log>>
  <2>1. PICK left : left = [guest EXCEPT !.fuel = guest.fuel - 1]
    OBVIOUS
  <2>2. guest.fuel - 1 \in 0..limits.fuel
    BY <1>2, <1>4
  <2>3. IsGuest(left) /\ left.bytes = guest.bytes /\ left.counter = guest.counter
    BY <1>2, <2>1, <2>2, RefuelledIsGuest DEF IsGuest
  <2>4. Becomes(t, left) /\ Goes(t, "run")
    BY <1>1, <1>2, <1>4, <2>1 DEF Goes, TypeOK
  <2> QED BY <1>1, <1>2, <1>4, <2>3, <2>4, MovingServed
<1>5. CASE /\ guest.fuel > 0 /\ grows /\ Becomes(t, Grown(guest))
           /\ Goes(t, "read") /\ UNCHANGED <<lock, task, log>>
  <2>1. PICK left : left = Grown(guest)
    OBVIOUS
  <2>2. /\ IsGuest(left) /\ left.bytes = guest.bytes /\ left.counter = guest.counter
    BY <1>2, <1>5, <2>1, GrownIsGuest, ReturnedKeeps
  <2> QED BY <1>1, <1>2, <1>5, <2>1, <2>2, MovingServed
<1>6. CASE /\ guest.fuel > 0 /\ ~grows /\ ~spins /\ Becomes(t, Ran(guest, doing))
           /\ Goes(t, "read") /\ UNCHANGED <<lock, task, log>>
  <2>1. PICK left : left = Ran(guest, doing)
    OBVIOUS
  <2>2. IsGuest(left) /\ left.bytes = guest.bytes /\ Becomes(t, left)
    BY <1>2, <1>6, <2>1, RanIsGuest
  <2>3. CASE doing = "call" /\ guest.bytes = "counter" /\ task[t].kind = "call"
    <3>1. left.counter = guest.counter + 1
      BY <1>2, <1>6, <2>1, <2>3, ReturnedKeeps
    <3>2. Rewrote(t, left)
      BY <1>1, <1>2, <2>2, BecomesRewrites
    <3>3. pc'[t] = "read" /\ \A u \in Threads \ {t} : pc'[u] = pc[u]
      BY <1>6, GoesOthers
    <3>4. Served' = Served
      BY <1>1, <1>6, <2>3, <3>1, <3>2, <3>3, CountingUnseen
    <3> QED BY <1>6, <3>4, Idling
  <2>4. CASE ~(doing = "call" /\ guest.bytes = "counter" /\ task[t].kind = "call")
    <3>1. Mine(t) = Shared => left.counter = guest.counter
      <4> SUFFICES ASSUME Mine(t) = Shared PROVE left.counter = guest.counter
        OBVIOUS
      <4>1. ~(doing = "call" /\ guest.bytes = "counter")
        BY <1>2, <2>4
      <4> QED BY <1>2, <1>6, <2>1, <4>1, ReturnedKeeps
    <3>2. ~(guest.bytes = "counter" /\ task[t].kind = "call")
      BY <1>2, <2>4
    <3> QED BY <1>1, <1>2, <1>6, <2>2, <3>1, <3>2, MovingServed
  <2> QED BY <2>3, <2>4
<1> QED BY <1>3, <1>4, <1>5, <1>6 DEF Run

\* The bytes the host reads back.
Held(t) ==
  LET frame == Unpack(refs[t].packed)
  IN [i \in 1..frame.len |-> Guest(t).memory[frame.ptr + i - 1]]

\* A counter's frame is short enough, and holds the count.
LEMMA CounterFrame ==
  ASSUME IInv, SInv, NEW t \in Threads, pc[t] = "read", Calls(t, "counter")
  PROVE  /\ Unpack(refs[t].packed).len <= FrameLimit
         /\ Unpack(refs[t].packed).ptr + Unpack(refs[t].packed).len <= Guest(t).size
         /\ Held(t) = Counted(Guest(t).counter)
<1>1. refs[t].packed = Pack(0, 1) /\ <<Guest(t).memory[0]>> = Counted(Guest(t).counter)
  BY DEF SInv, Carried
<1>2. IsGuest(Guest(t))
  BY InsideFacts DEF Inside
<1>3. 0 \in 0..(Word - 1) /\ 1 <= FrameLimit /\ 0 + 1 <= Guest(t).size
  BY <1>2, Sizes, SizesAssumption DEF IsGuest
<1>4. Unpack(refs[t].packed) = [ptr |-> 0, len |-> 1]
  BY <1>1, <1>3, Unpacked
<1>5. Held(t) = <<Guest(t).memory[0]>>
  <2>1. Held(t) = [i \in 1..1 |-> Guest(t).memory[0 + i - 1]]
    BY <1>4 DEF Held
  <2>2. \A i \in 1..1 : i = 1 /\ 0 + i - 1 = 0
    OBVIOUS
  <2> QED BY <2>1, <2>2
<1> QED BY <1>1, <1>3, <1>4, <1>5

\* An echo's frame holds the arguments of the call it answers.
LEMMA EchoFrame ==
  ASSUME IInv, SInv, NEW t \in Threads, pc[t] = "read", Calls(t, "echo")
  PROVE  Held(t) = Arguments(task[t])
<1>1. /\ refs[t].packed = Pack(refs[t].args, task[t].length)
      /\ Holds(Guest(t), task[t], refs[t].args)
  BY DEF SInv, Carried
<1>2. task[t].length \in Nat /\ refs[t].args \in 0..(Word - 1)
  BY <1>1 DEF Holds, IInv, TypeOK, Tasks
<1>3. Unpack(refs[t].packed) = [ptr |-> refs[t].args, len |-> task[t].length]
  BY <1>1, <1>2, Unpacked
<1>4. Held(t) = [i \in 1..task[t].length |-> Guest(t).memory[refs[t].args + i - 1]]
  BY <1>3 DEF Held
<1> QED BY <1>1, <1>4 DEF Holds, Arguments

\* The answer of a call, shared or fresh.
LEMMA CallAnswers ==
  ASSUME IInv, SInv, NEW t \in Threads, pc[t] = "read", task[t].doing = "call"
  PROVE  Service!Answers(Held(t), task[t], Guest(t).bytes, Guest(t).counter)
<1> HIDE DEF Held
<1> QED BY CounterFrame, EchoFrame DEF Calls, Service!Answers

\* The call of a counter is seen when its frame is read.
LEMMA CountSeen ==
  ASSUME IInv, TypeOK', NEW t \in Threads, pc[t] = "read", pc'[t] = "idle",
         task[t].kind = "call", Guest(t).bytes = "counter",
         UNCHANGED <<next_handle, modules>>,
         \A u \in Threads \ {t} : task'[u] = task[u] /\ pc'[u] = pc[u]
  PROVE  /\ task[t].handle \in DOMAIN Served
         /\ Served[task[t].handle] =
              [bytes |-> Guest(t).bytes, calls |-> Guest(t).counter - 1]
         /\ Served' = [Served EXCEPT ![task[t].handle].calls = Guest(t).counter]
<1> DEFINE n == next_handle[Shared]
<1>0. PICK h0 : h0 = task[t].handle
  OBVIOUS
<1>1. /\ TypeOK /\ Shared \in Runtimes /\ n \in Nat
      /\ DOMAIN modules[Shared] = 1..n /\ Mine(t) = Shared /\ pc[t] \in Inside
  BY DEF IInv, Asked, TypeOK, Runtimes, Inside
<1>2. Alone(t) /\ h0 \in 1..n /\ IsGuest(Guest(t)) /\ Guest(t).counter \in Nat
  BY <1>0, <1>1, InsideFacts DEF IsGuest
<1>3. Guest(t) = modules[Shared][h0]
  BY <1>0, <1>1 DEF Guest
<1>4. Seen(h0) = [bytes |-> Guest(t).bytes, calls |-> Guest(t).counter - 1]
  <2>1. Reading(h0)
    BY <1>0 DEF Reading
  <2> QED BY <1>3, <2>1 DEF Seen
<1>5. Seen(h0)' = [bytes |-> Guest(t).bytes, calls |-> Guest(t).counter]
  <2>1. ~Reading(h0)'
    <3> SUFFICES ASSUME NEW u \in Threads, pc'[u] = "read", task'[u].kind = "call" PROVE FALSE
      BY DEF Reading
    <3>1. u # t /\ pc[u] \in Inside /\ task[u].kind = "call"
      BY DEF Inside
    <3>2. Mine(u) = Shared
      BY <3>1 DEF IInv, Asked
    <3> QED BY <1>1, <1>2, <3>1, <3>2 DEF Alone
  <2> QED BY <1>3, <2>1 DEF Seen
<1>6. \A h \in 1..n : h # h0 => Seen(h)' = Seen(h)
  <2> SUFFICES ASSUME NEW h \in 1..n, h # h0 PROVE Seen(h)' = Seen(h)
    OBVIOUS
  <2>1. Reads(t, h)' <=> Reads(t, h)
    BY <1>0 DEF Reads
  <2>2. Reading(h)' <=> Reading(h)
    BY <2>1, SameReaders
  <2> QED BY <2>2 DEF Seen
<1>7. Served = [h \in 1..n |-> Seen(h)]
  BY <1>1, ServedIs
<1>8. Served' = [h \in 1..n |-> Seen(h)']
  BY DEF Served, Seen
<1> HIDE DEF Seen, n
<1>9. h0 \in DOMAIN Served /\ Served[h0] = [bytes |-> Guest(t).bytes, calls |-> Guest(t).counter - 1]
  BY <1>2, <1>4, <1>7
<1>10. [Served[h0] EXCEPT !.calls = Guest(t).counter] =
         [bytes |-> Guest(t).bytes, calls |-> Guest(t).counter]
  BY <1>9
<1>11. [Served EXCEPT ![h0].calls = Guest(t).counter] =
         [h \in 1..n |-> IF h = h0 THEN [bytes |-> Guest(t).bytes, calls |-> Guest(t).counter]
                         ELSE Seen(h)]
  BY <1>7, <1>10
<1>12. Served' = [Served EXCEPT ![h0].calls = Guest(t).counter]
  BY <1>5, <1>6, <1>8, <1>11
<1> QED BY <1>0, <1>9, <1>12

\* The host reads the frame, and there the call happens.
LEMMA ReadingServed ==
  ASSUME IInv, SInv, TypeOK', NEW t \in Threads, Read(t) PROVE ServiceStep
<1>1. /\ pc[t] = "read" /\ pc[t] \in Inside /\ pc[t] \in Busy
      /\ UNCHANGED <<limits, supply, next_handle, tasks>>
  BY DEF Read, Inside, Busy
<1>2. /\ task[t].handle \in DOMAIN modules[Mine(t)] /\ IsGuest(Guest(t)) /\ TypeOK
      /\ task[t] \in Tasks /\ Mine(t) = IF task[t].kind = "fresh" THEN t ELSE Shared
      /\ t # Shared /\ task[t].doing # "none" /\ task[t].kind # "instantiate"
      /\ task[t].doing = "call" <=> task[t].kind \in {"call", "fresh"}
      /\ Guest(t).counter \in Nat
  BY <1>1, InsideFacts, ThreadsAssumption DEF IInv, Asked, SInv, Kinded, IsGuest, Busy, Inside
<1> DEFINE guest == Guest(t)
           frame == Unpack(refs[t].packed)
           asked == task[t]
<1>3. CASE frame.len > FrameLimit /\ Fail(t, guest, "limit")
  <2>1. ~(guest.bytes = "counter" /\ asked.kind = "call")
    <3>1. FrameLimit \in Nat /\ frame.len \in Nat
      BY <1>2, Packing, Sizes DEF TypeOK
    <3> QED BY <1>1, <1>2, <1>3, <3>1, CounterFrame DEF Calls
  <2> QED BY <1>1, <1>2, <1>3, <2>1, FailingServed
<1>4. CASE /\ frame.ptr + frame.len > guest.size /\ Fail(t, guest, "range")
  <2>1. ~(guest.bytes = "counter" /\ asked.kind = "call")
    <3>1. guest.size \in Nat /\ frame.len \in Nat /\ frame.ptr \in Nat
      BY <1>2, Packing DEF TypeOK, IsGuest
    <3> QED BY <1>1, <1>2, <1>4, <3>1, CounterFrame DEF Calls
  <2> QED BY <1>1, <1>2, <1>4, <2>1, FailingServed
<1>5. ASSUME UNCHANGED modules, pc'[t] # "read",
             \A u \in Threads \ {t} : task'[u] = task[u] /\ pc'[u] = pc[u],
             ~(guest.bytes = "counter" /\ asked.kind = "call")
      PROVE  Served' = Served
  <2>1. Rewrote(t, guest)
    BY <1>1, <1>2, <1>5, ReadingRewrites
  <2> QED BY <1>2, <1>5, <2>1, InsideUnseen
<1>6. CASE UNCHANGED modules /\ asked.kind = "load" /\ Answer(t, asked, Err("decode"))
  <2>1. Served' = Served
    BY <1>1, <1>5, <1>6, AnswerOthers, <1>2 DEF IInv
  <2>2. ~Err("decode").ok /\ log' = log \union {[task |-> asked, result |-> Err("decode")]}
    BY <1>6 DEF Err, Answer
  <2> QED BY <2>1, <2>2, Telling
<1>7. CASE /\ UNCHANGED <<modules, refs, log>> /\ asked.kind = "load"
           /\ task' = [task EXCEPT ![t].doing = "exports"] /\ Goes(t, "enter")
  <2>1. pc'[t] = "enter" /\ \A u \in Threads \ {t} : task'[u] = task[u] /\ pc'[u] = pc[u]
    BY <1>2, <1>7, GoesOthers DEF TypeOK
  <2>2. Served' = Served
    BY <1>5, <1>7, <2>1
  <2> QED BY <1>7, <2>2, Idling
<1>8. CASE /\ asked.kind = "load" => asked.doing = "exports"
           /\ UNCHANGED modules /\ Answer(t, asked, Ok(Held(t)))
  <2>1. pc'[t] = "idle" /\ \A u \in Threads \ {t} : task'[u] = task[u] /\ pc'[u] = pc[u]
    BY <1>8, AnswerOthers
  <2>2. PICK result : result = Ok(Held(t))
    OBVIOUS
  <2>3. result.ok /\ result.frame = Held(t) /\ log' = log \union {[task |-> asked, result |-> result]}
    BY <1>8, <2>2 DEF Ok, Answer
  <2>4. CASE asked.doing # "call"
    <3>1. asked.doing \in {"manifest", "exports"} /\ asked.kind # "call"
      BY <1>2, <2>4 DEF Tasks
    <3>2. Served' = Served
      BY <1>5, <1>8, <2>1, <3>1
    <3> QED BY <2>3, <3>1, <3>2, Telling
  <2>5. CASE asked.doing = "call"
    <3>1. PICK entry : entry = [task |-> asked, result |-> result]
      OBVIOUS
    <3>2. entry \notin log
      BY <1>1, <3>1 DEF SInv, Ticketed
    <3>3. entry \in log' \ log /\ log' = log \union {entry}
      BY <2>3, <3>1, <3>2
    <3>4. entry.task = asked /\ entry.result.ok /\ entry.result.frame = Held(t)
      BY <2>3, <3>1
    <3>5. Service!Answers(Held(t), asked, guest.bytes, guest.counter)
      BY <1>1, <2>5, CallAnswers
    <3>6. CASE asked.kind = "fresh"
      <4>1. Served' = Served
        BY <1>5, <1>8, <2>1, <3>6
      <4>2. guest.bytes = asked.bytes /\ (guest.bytes = "counter" => guest.counter = 1)
        BY <1>1, <1>2, <2>5, <3>6 DEF SInv, Carried, Calls, IInv, Placed
      <4>3. Service!Answers(Held(t), asked, asked.bytes, 1)
        <5> HIDE DEF Held, guest, asked
        <5> QED BY <3>5, <4>2 DEF Service!Answers
      <4>4. Service!CallFresh(entry)
        BY <3>4, <3>6, <4>1, <4>3 DEF Service!CallFresh
      <4> QED BY <3>3, <4>4 DEF ServiceStep, Service!Next
    <3>7. CASE asked.kind = "call"
      <4>1. Service!Call(entry)
        <5> DEFINE h == asked.handle
        <5>1. CASE guest.bytes = "counter"
          <6>1. /\ Served[h] = [bytes |-> guest.bytes, calls |-> guest.counter - 1]
                /\ Served' = [Served EXCEPT ![h].calls = guest.counter]
            BY <1>1, <1>8, <2>1, <3>7, <5>1, CountSeen
          <6>2. Served[h].bytes = guest.bytes /\ Served[h].calls + 1 = guest.counter
            BY <1>2, <6>1
          <6> HIDE DEF Held, guest, h
          <6> QED BY <3>4, <3>5, <3>7, <5>1, <6>1, <6>2 DEF Service!Call, h
        <5>2. CASE guest.bytes # "counter"
          <6>1. Served' = Served
            BY <1>5, <1>8, <2>1, <5>2
          <6>2. Served[h].bytes = guest.bytes
            <7>1. h \in 1..next_handle[Shared] /\ guest = modules[Shared][h]
              BY <1>2, <3>7 DEF Guest, TypeOK, Runtimes
            <7>2. Served[h] = Seen(h)
              BY <1>2, <7>1, ServedIs
            <7> QED BY <7>1, <7>2 DEF Seen
          <6>3. Service!Answers(Held(t), asked, Served[h].bytes, Served[h].calls + 1)
            <7> HIDE DEF Held, guest, h
            <7> QED BY <3>5, <5>2, <6>2 DEF Service!Answers
          <6> HIDE DEF Held, guest
          <6> QED BY <3>4, <3>7, <5>2, <6>1, <6>2, <6>3 DEF Service!Call
        <5> QED BY <5>1, <5>2
      <4> QED BY <3>3, <4>1 DEF ServiceStep, Service!Next
    <3> QED BY <1>2, <2>5, <3>6, <3>7
  <2> QED BY <2>4, <2>5
<1> QED BY <1>3, <1>4, <1>6, <1>7, <1>8 DEF Read, Held

\* A new runtime has no modules.
LEMMA NothingServed == ASSUME Init PROVE Service!Init
<1>1. next_handle[Shared] = 0 /\ log = {}
  BY DEF Init, Runtimes
<1>2. Served = << >>
  BY <1>1 DEF Served
<1> QED BY <1>1, <1>2 DEF Service!Init

\* Every step is a step of the service, or one it does not see.
LEMMA ServesSteps == ASSUME IInv, SInv, TypeOK', [Next]_vars PROVE ServiceStep
<1>1. ASSUME UNCHANGED vars PROVE ServiceStep
  <2>1. UNCHANGED <<next_handle, modules, task, pc, log>>
    BY <1>1 DEF vars, state
  <2>2. Served' = Served
    BY <2>1 DEF Served, Reading
  <2> QED BY <2>1, <2>2, Idling
<1>2. CASE Rest
  BY <1>1, <1>2 DEF Rest
<1>3. ASSUME NEW t \in Threads, Step(t) PROVE ServiceStep
  BY <1>3, CompilingServed, MintingServed, EnteringServed, SendingServed, RunningServed,
     ReadingServed DEF Step
<1> QED BY <1>1, <1>2, <1>3, AskingServed DEF Next

\* The runtime implements GuestService: threads that share it get the answers
\* of some order of whole operations, each counted and echoed at one instant
\* between its question and its answer, for any number of threads and modules.
THEOREM ServesTheorem == Spec => Serves
<1>1. Init => Service!Init
  BY NothingServed
<1>2. IInv /\ SInv /\ TypeOK' /\ [Next]_vars => [Service!Next]_(Service!svars)
  BY ServesSteps DEF ServiceStep
<1>3. IInv => TypeOK
  BY DEF IInv
<1> QED BY <1>1, <1>2, <1>3, ServiceInvariance, PTL DEF Spec, Serves, Service!Spec
=============================================================================
