---------------------------- MODULE MCGuestHeap ----------------------------
(* A guest heap of a few blocks, with the layout of the code in units of 8  *)
(* bytes: a header of 4 cells, payloads of a multiple of 2, and a rest of   *)
(* at least 8 cells to split for.                                           *)
EXTENDS GuestHeap, TLC

CONSTANTS o1, o2, o3

MCWord == 256

\* Nothing, an odd length, one that needs most of a split rest, a long one.
SaneLengths == {0, 3, 14, 22}
\* The same, and the largest uint64_t, which rounding up carries to 0.
AllLengths == {0, 3, 14, MCWord - 1}

Symmetry == Permutations({o1, o2, o3})
=============================================================================
