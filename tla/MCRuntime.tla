----------------------------- MODULE MCRuntime -----------------------------
(* The heap of MCGuestHeap with its counters, two threads that cross, and    *)
(* two that mint thunks for the programs of one or two small data sections.  *)
EXTENDS RuntimeBench, TLC

CONSTANTS o1, o2, o3

MCWord == 256
SaneLengths == {0, 3, 14, 22}
Symmetry == Permutations({o1, o2, o3})

\* Words that are functions 1 and 2 or neither, in one section or two.
MCPrograms == {s \o t : s \in [1 .. 4 -> {0, 1, 2}], t \in {<<0>>, <<0, 2, 1, 2, 0>>}}
MCWindows == {<<-1, 9>>, <<1, 3>>, <<2, 2>>}
=============================================================================
