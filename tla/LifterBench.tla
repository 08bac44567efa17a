---------------------------- MODULE LifterBench ----------------------------
(* The differential tests of the lifters as one specification: a program is  *)
(* of one kind, as the cases of tools/lift/difftest.py are, and the state of *)
(* the kinds it is not made of stays where a program starts.                 *)
EXTENDS DiffTest

CONSTANTS Slots, Modulus, FpuLength,            \* X87Test
          Size, Bytes,                          \* StringTest
          Base, MaxCalls, FrameLength,          \* FrameTest
          ByteBits, Values, WideLength,         \* WideTest
          Vectors, LanesLength,                 \* LanesTest
          RegisterValues, Memories              \* MoveTest

\* A stack has a bottom, and the x87 a register.
ASSUME BenchAssumption == Base \in Nat /\ Slots \in Nat \ {0}

VARIABLES bench,          \* the kind of the program
          model, st, fpu, cell, cmp, eflags, fsteps,
          target, df, str, lstr, sflags, lflags, ran,
          emitter, machine, guest, frames, went, fran,
          writer, regs, copy, wsteps,
          unit, v, lv, lsteps,
          mover, delta, mach, twin, moved
fvars == <<model, st, fpu, cell, cmp, eflags, fsteps>>
svars == <<target, df, str, lstr, sflags, lflags, ran>>
kvars == <<emitter, machine, guest, frames, went, fran>>
wvars == <<writer, regs, copy, wsteps>>
lvars == <<unit, v, lv, lsteps>>
mvars == <<mover, delta, mach, twin, moved>>

Fpu == INSTANCE X87Test
Str == INSTANCE StringTest
Frm == INSTANCE FrameTest
Wid == INSTANCE WideTest
Lan == INSTANCE LanesTest
Mov == INSTANCE MoveTest

AluIdle == AluStart("lift32", 0)
FpuIdle == Fpu!FpuStart("window")
StringIdle == Str!StringStart("lift32", 1,
                  [mem |-> [a \in 0 .. Size - 1 |-> 1], si |-> 0, di |-> 0, cx |-> 0, ax |-> 1])
FrameIdle == Frm!FrameStart("lift32")
WideIdle == Wid!WideStart("lift32", 0, 0, 0)
Zero == <<0, 0, 0, 0>>
LanesIdle == Lan!LanesStart("mmx", Zero, Zero, Zero, 0)
MoveIdle == Mov!MoveStart("lift32", 0, 0, 0, 0)

BenchInit ==
    \/ bench = "alu" /\ AluInit /\ FpuIdle /\ StringIdle /\ FrameIdle /\ WideIdle /\ LanesIdle /\ MoveIdle
    \/ bench = "x87" /\ AluIdle /\ Fpu!FpuInit /\ StringIdle /\ FrameIdle /\ WideIdle /\ LanesIdle /\ MoveIdle
    \/ bench = "string" /\ AluIdle /\ FpuIdle /\ Str!StringInit /\ FrameIdle /\ WideIdle /\ LanesIdle /\ MoveIdle
    \/ bench = "frame" /\ AluIdle /\ FpuIdle /\ StringIdle /\ Frm!FrameInit /\ WideIdle /\ LanesIdle /\ MoveIdle
    \/ bench = "wide" /\ AluIdle /\ FpuIdle /\ StringIdle /\ FrameIdle /\ Wid!WideInit /\ LanesIdle /\ MoveIdle
    \/ bench = "lanes" /\ AluIdle /\ FpuIdle /\ StringIdle /\ FrameIdle /\ WideIdle /\ Lan!LanesInit /\ MoveIdle
    \/ bench = "move" /\ AluIdle /\ FpuIdle /\ StringIdle /\ FrameIdle /\ WideIdle /\ LanesIdle /\ Mov!MoveInit

BenchNext ==
    /\ \/ bench = "alu" /\ AluNext /\ UNCHANGED <<fvars, svars, kvars, wvars, lvars, mvars>>
       \/ bench = "x87" /\ Fpu!FpuNext /\ UNCHANGED <<vars, svars, kvars, wvars, lvars, mvars>>
       \/ bench = "string" /\ Str!StringNext /\ UNCHANGED <<vars, fvars, kvars, wvars, lvars, mvars>>
       \/ bench = "frame" /\ Frm!FrameNext /\ UNCHANGED <<vars, fvars, svars, wvars, lvars, mvars>>
       \/ bench = "wide" /\ Wid!WideNext /\ UNCHANGED <<vars, fvars, svars, kvars, lvars, mvars>>
       \/ bench = "lanes" /\ Lan!LanesNext /\ UNCHANGED <<vars, fvars, svars, kvars, wvars, mvars>>
       \/ bench = "move" /\ Mov!MoveNext /\ UNCHANGED <<vars, fvars, svars, kvars, wvars, lvars>>
    /\ UNCHANGED bench
BenchSpec == BenchInit /\ [][BenchNext]_<<bench, vars, fvars, svars, kvars, wvars, lvars, mvars>>

----------------------------------------------------------------------------
\* The comparisons of the other tests, each stated where its instructions are.

\* The register stack of the x87 is as deep as the processor's, with the same
\* values, stores and comparisons (difftest.py:122-128).
FpuAgrees == Fpu!FpuAgrees

\* String instructions leave memory, pointers, count and the condition the
\* processor has (lift32.py:1192-1207).
StringsAgree == Str!StringsAgree

\* Pushes, pops, frames and calls keep the guest stack (lift32.py:692-699).
StackAgrees == Frm!StackAgrees

\* Products, quotients and extensions at every operand size (lift32.py:799-838,
\* lift16.py:440-444).
WideAgrees == Wid!WideAgrees

\* Packed instructions, lane by lane (lift32_cpu.py:950-953).
LanesAgree == Lan!LanesAgree

\* Operands name the bits and the addresses they name on the processor
\* (lift32_cpu.py:205-210, lift16.py:50-57 and 285-291).
MovesAgree == Mov!MovesAgree
=============================================================================
