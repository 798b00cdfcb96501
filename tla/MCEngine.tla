------------------------------ MODULE MCEngine ------------------------------
(* The engine of the nodeqml binary with small sets of callbacks. *)
EXTENDS EngineProperties, TLC

Timers == {"setTimeout", "setInterval", "nextTick"}
Clears == {"clearTimeout", "clearInterval"}

\* The functions the scripts of each run use.
ApiTimers   == Timers \cup Clears
ApiNoClear  == Timers \cup {"exit", "throw"}
ApiRequire  == Timers \cup {"clearTimeout", "exit", "require", "throw"}
ApiTimeouts == {"setTimeout", "nextTick", "clearTimeout"}
ApiTicks    == {"nextTick"}
ApiInterval == {"setInterval", "clearInterval"}

Symmetry == Permutations(Callback)
=============================================================================
