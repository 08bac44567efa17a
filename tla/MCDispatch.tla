----------------------------- MODULE MCDispatch -----------------------------
(* Functions at 10, 20 and 30 return from their calls to 11, 21 and 31; 0 is *)
(* the harness's stack slot, 100 and 101 are imports.                        *)
EXTENDS Dispatch

MCReturnPoint == [f \in Functions |-> f + 1]
=============================================================================
