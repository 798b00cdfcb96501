------------------------------- MODULE MCBuffer -------------------------------
(* Buffers of a few bytes of one bit. *)
EXTENDS BufferProperties, TLC

Args == -1..2
Data == {<<>>, <<1, 0>>}

Symmetry == Permutations(BufferId) \cup Permutations(Block)
=============================================================================
