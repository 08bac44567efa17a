----------------------------- MODULE MCLifters -----------------------------
(* Registers of four bits with halves of two: every width, every carry and   *)
(* every sign occurs, and counts of 0, 1, past a half, and past the mask.    *)
EXTENDS LifterBench

MCStarts == {0, 5, 15}
MCCounts == {0, 1, 3, 6}
MCValues == {0, 1, 7, 100, 128, 200, 255}
MCRegisters == {0, 3, 6, 9, 13}
MCMemories == {4971, 58226}
MCVectors == {<<1, 2, 0, 3>>, <<3, 0, 1, 1>>}
=============================================================================
