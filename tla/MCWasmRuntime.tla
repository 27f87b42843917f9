--------------------------- MODULE MCWasmRuntime ---------------------------
(***************************************************************************)
(* Module WasmRuntime with two threads and three operations in all: enough *)
(* for one module and two operations on it at once, or for two modules at  *)
(* once.  A page of six bytes holds the names and arguments of two short   *)
(* calls, or of one long call.                                             *)
(***************************************************************************)
EXTENDS WasmRuntime

Setting(fuel, memory, modulesAtHand, lengths) ==
  [limits |-> [fuel |-> fuel, memory |-> memory],
   supply |-> [modules |-> modulesAtHand, lengths |-> lengths]]
MCSettings ==
  {Setting(3, 6, {"counter", "echo"}, {1}), Setting(3, 6, {"echo"}, {1, 2}),
   Setting(1, 6, {"counter"}, {1}), Setting(3, 6, {"spinner"}, {1}),
   Setting(3, 6, {"grower"}, {1}), Setting(3, 12, {"grower"}, {1}),
   Setting(3, 6, {"wild", "broken"}, {1}), Setting(3, 5, {"echo"}, {1})}
=============================================================================
