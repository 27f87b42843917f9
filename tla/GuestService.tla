---------------------------- MODULE GuestService ----------------------------
(***************************************************************************)
(* What a host may expect of a wasm runtime: handles number the modules in *)
(* the order they were added, and every operation on a handle happens at   *)
(* one instant, whoever else is at work.  Nothing is said of locks, fuel   *)
(* or linear memory; an operation may always be refused.                   *)
(*                                                                         *)
(* The guest "counter" answers its n-th answered call with n, and "echo"   *)
(* answers with the arguments of the call.                                 *)
(***************************************************************************)
EXTENDS Naturals, Sequences

CONSTANTS
  Modules,      \* the modules there are
  Counted(_),   \* the frame that holds a number
  Arguments(_)  \* the frame of a task's arguments

VARIABLES
  served,  \* handle -> the module it names and the calls a counter answered
  log      \* the answers given so far: a task and its result

svars == <<served, log>>

Init == served = <<>> /\ log = {}

Add(bytes) == served' = Append(served, [bytes |-> bytes, calls |-> 0])

\* instantiate_bytes adds and answers at once; a loader adds and goes on.
AddAndTell(entry) ==
  /\ entry.result.ok /\ entry.task.kind = "instantiate"
  /\ entry.task.handle = Len(served) + 1
  /\ Add(entry.task.bytes)

\* A refusal, a manifest or an export table changes nothing.
Tell(entry) ==
  /\ ~entry.result.ok \/ entry.task.doing \in {"manifest", "exports"}
  /\ UNCHANGED served

Answers(frame, task, bytes, n) ==
  /\ bytes = "counter" => frame = Counted(n)
  /\ bytes = "echo" => frame = Arguments(task)

\* A call on a shared handle, from its arguments to its frame, in one step.
Call(entry) ==
  LET h == entry.task.handle
      calls == served[h].calls + 1
  IN /\ entry.result.ok /\ entry.task.kind = "call"
     /\ Answers(entry.result.frame, entry.task, served[h].bytes, calls)
     /\ served' = IF served[h].bytes = "counter"
                  THEN [served EXCEPT ![h].calls = calls] ELSE served

\* call_fresh uses an instance of its own: every call is the first.
CallFresh(entry) ==
  /\ entry.result.ok /\ entry.task.kind = "fresh"
  /\ Answers(entry.result.frame, entry.task, entry.task.bytes, 1)
  /\ UNCHANGED served

Next ==
  \/ log' = log /\ \E bytes \in Modules : Add(bytes)
  \/ \E entry \in log' \ log :
       /\ log' = log \union {entry}
       /\ AddAndTell(entry) \/ Tell(entry) \/ Call(entry) \/ CallFresh(entry)

Spec == Init /\ [][Next]_svars
=============================================================================
