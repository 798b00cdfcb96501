---------------------------- MODULE MCEventEmitter ----------------------------
(* An EventEmitter with few listeners. *)
EXTENDS EventEmitterProperties, TLC

\* What listeners do: all but remove all listeners.
InsideSome == ApiNames \ {"removeAllListeners"}

Symmetry == Permutations(Plain) \cup Permutations(Wrapper)
=============================================================================
