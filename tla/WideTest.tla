------------------------------ MODULE WideTest ------------------------------
(* Multiplication, division and sign extension at every operand size, on the *)
(* processor and as the three lifters write them: the instructions whose       *)
(* operands are spread over eax and edx, and whose emitters choose a C cast  *)
(* for every size.  A register is four bytes of ByteBits bits.               *)
EXTENDS Integers

CONSTANTS ByteBits,       \* bits of a byte; 8 in the program
          Values,         \* start values of the three registers
          WideLength      \* bound: instructions in a program

VARIABLES writer,         \* "lift32", "lift32_cpu" or "lift16"
          regs,           \* the processor: [eax, edx, ebx, over], over is cf = of
          copy,           \* the same as the lifted C has it
          wsteps
wvars == <<writer, regs, copy, wsteps>>

Unknown == 2              \* a flag the architecture leaves undefined
Sizes == {1, 2, 4}
BitsOf(n) == n * ByteBits
Full == BitsOf(4)
Low(v, w) == v % 2 ^ w
High(v, w) == (v \div 2 ^ w) % 2 ^ w
AsSigned(v, w) == IF v >= 2 ^ (w - 1) THEN v - 2 ^ w ELSE v
Merge(old, v, w) == old - Low(old, w) + Low(v, w)
Flag(p) == IF p THEN 1 ELSE 0
Truth(v) == v # 0

\* Quotient and remainder as C and the processor have them: towards zero.
Abs(v) == IF v < 0 THEN -v ELSE v
Quotient(a, b) == LET q == Abs(a) \div Abs(b) IN IF (a < 0) = (b < 0) THEN q ELSE -q
Remainder(a, b) == a - b * Quotient(a, b)

\* x = [op, size, form]: form 1 is the one-operand form; 2 is edx op= ebx.
WideInstructions ==
    [op : {"mul", "imul", "div", "idiv"}, size : Sizes, form : {1}]
    \cup [op : {"imul"}, size : {2, 4}, form : {2}]
    \cup [op : {"cbw"}, size : {1}, form : {0}]
    \cup [op : {"cwd", "cwde"}, size : {2}, form : {0}]
    \cup [op : {"cdq"}, size : {4}, form : {0}]

----------------------------------------------------------------------------
(* The processor.                                                            *)

Value(v, signed, w) == IF signed THEN AsSigned(Low(v, w), w) ELSE Low(v, w)
IsSigned(x) == x.op \in {"imul", "idiv"}

\* A double-width result goes to ax, to dx:ax or to edx:eax.
PutPair(s, lo, hi, size) ==
    LET w == BitsOf(size) IN
    IF size = 1 THEN [s EXCEPT !.eax = Merge(@, Low(hi, w) * 2 ^ w + Low(lo, w), 2 * w)]
    ELSE [s EXCEPT !.eax = Merge(@, lo, w), !.edx = Merge(@, hi, w)]
Dividend(s, signed, size) ==
    LET w == BitsOf(size)
        d == IF size = 1 THEN Low(s.eax, 2 * w) ELSE Low(s.edx, w) * 2 ^ w + Low(s.eax, w)
    IN IF signed THEN AsSigned(d, 2 * w) ELSE d

Product(s, x) ==
    LET w == BitsOf(x.size) IN
    Value(IF x.form = 2 THEN s.edx ELSE s.eax, IsSigned(x), w) * Value(s.ebx, IsSigned(x), w)
Overflows(p, x) ==
    LET w == BitsOf(x.size) IN
    IF IsSigned(x) THEN AsSigned(Low(p, w), w) # p ELSE p >= 2 ^ w

\* #DE: no divisor, or a quotient that does not fit.
Divides(s, x) ==
    LET w == BitsOf(x.size)
        v == Value(s.ebx, IsSigned(x), w)
        q == Quotient(Dividend(s, IsSigned(x), x.size), v)
    IN /\ v # 0
       /\ IF IsSigned(x) THEN q \in -(2 ^ (w - 1)) .. 2 ^ (w - 1) - 1 ELSE q < 2 ^ w

WideRun(x, s) ==
    LET w == BitsOf(x.size)
        p == Product(s, x)
        n == Dividend(s, IsSigned(x), x.size)
        v == Value(s.ebx, IsSigned(x), w)
        neg == AsSigned(Low(s.eax, w), w) < 0
    IN CASE x.op \in {"mul", "imul"} /\ x.form = 1 ->
              [PutPair(s, p, p \div 2 ^ w, x.size) EXCEPT !.over = Flag(Overflows(p, x))]
         [] x.form = 2 -> [s EXCEPT !.edx = Merge(@, p, w), !.over = Flag(Overflows(p, x))]
         [] x.op \in {"div", "idiv"} ->
              [PutPair(s, Quotient(n, v), Remainder(n, v), x.size) EXCEPT !.over = Unknown]
         [] x.op \in {"cbw", "cwde"} -> [s EXCEPT !.eax = Merge(@, AsSigned(Low(@, w), w), 2 * w)]
         [] x.op \in {"cwd", "cdq"} -> [s EXCEPT !.edx = Merge(@, IF neg THEN -1 ELSE 0, w)]

----------------------------------------------------------------------------
(* lift32: the C has the 32-bit form of everything, whatever the size.       *)

Int32(v) == AsSigned(Low(v, Full), Full)
FmtRead(v, x) == Low(v, BitsOf(x.size))

\* Mutant: the product of two 32-bit reads, the sign lost before it is widened.
lift_mul_bug(s, x) ==
    LET p == s.eax * FmtRead(s.ebx, x)
    IN [s EXCEPT !.eax = Low(p, Full), !.edx = High(p, Full)]
lift_mul(s, x) ==
    LET a == FmtRead(s.ebx, x)
        p == IF x.op = "imul" THEN Int32(s.eax) * Int32(a) ELSE s.eax * a
    IN [s EXCEPT !.eax = Low(p, Full), !.edx = High(p, Full)]

\* A zero divisor gives 0 and carries on.
lift_div(s, x) ==
    LET dv == IF x.op = "idiv" THEN Int32(FmtRead(s.ebx, x)) ELSE FmtRead(s.ebx, x)
        hi == IF x.op = "idiv" THEN Int32(s.edx) ELSE s.edx
        n == hi * 2 ^ Full + s.eax
    IN IF dv = 0 THEN [s EXCEPT !.eax = 0, !.edx = 0]
       ELSE [s EXCEPT !.eax = Low(Quotient(n, dv), Full), !.edx = Low(Remainder(n, dv), Full)]

Lift32Wide(s, x) ==
    LET w == BitsOf(x.size)
        a == FmtRead(s.edx, x)
        b == FmtRead(s.ebx, x)
    IN CASE x.op \in {"mul", "imul"} /\ x.form = 1 -> lift_mul(s, x)
         [] x.form = 2 -> [s EXCEPT !.edx = Merge(@, Int32(a) * Int32(b), w)]
         [] x.op \in {"div", "idiv"} -> lift_div(s, x)
         [] x.op = "cdq" -> [s EXCEPT !.edx = IF Int32(s.eax) < 0 THEN 2 ^ Full - 1 ELSE 0]
         [] x.op = "cwde" -> [s EXCEPT !.eax = Low(AsSigned(Low(@, w), w), Full)]
         [] x.op = "cwd" -> [s EXCEPT !.edx = IF AsSigned(Low(s.eax, w), w) < 0 THEN 2 ^ w - 1 ELSE 0]
         [] x.op = "cbw" -> [s EXCEPT !.eax = Merge(@, AsSigned(Low(@, w), w), 2 * w)]

----------------------------------------------------------------------------
(* lift32_cpu: one C block per size, each with its own casts, and cf = of.   *)

CPair(s, p, size) ==
    LET w == BitsOf(size) IN
    CASE size = 4 -> [s EXCEPT !.eax = Low(p, w), !.edx = High(p, w)]
      [] size = 2 -> [s EXCEPT !.eax = Merge(@, p, w), !.edx = Merge(@, High(p, w), w)]
      [] size = 1 -> [s EXCEPT !.eax = Merge(@, p, 2 * w)]

cpu_mul(s, x) ==
    LET w == BitsOf(x.size)
        sg == x.op = "imul"
        a == IF sg THEN AsSigned(Low(s.eax, w), w) ELSE Low(s.eax, w)
        v == IF sg THEN AsSigned(Low(s.ebx, w), w) ELSE Low(s.ebx, w)
        p == a * v
    IN [CPair(s, p, x.size) EXCEPT
            !.over = Flag(IF sg THEN AsSigned(Low(p, w), w) # p ELSE Truth(p \div 2 ^ w))]
cpu_div(s, x) ==
    LET w == BitsOf(x.size)
        sg == x.op = "idiv"
        n0 == CASE x.size = 1 -> Low(s.eax, 2 * w)
                [] OTHER -> Low(s.edx, w) * 2 ^ w + Low(s.eax, w)
        n == IF sg THEN AsSigned(n0, 2 * w) ELSE n0
        d == IF sg THEN AsSigned(Low(s.ebx, w), w) ELSE Low(s.ebx, w)
        q == Quotient(n, d)
        r == Remainder(n, d)
    IN CASE x.size = 4 -> [s EXCEPT !.eax = Low(q, w), !.edx = Low(r, w)]
         [] x.size = 2 -> [s EXCEPT !.eax = Merge(@, q, w), !.edx = Merge(@, r, w)]
         [] x.size = 1 -> [s EXCEPT !.eax = Merge(@, Low(r, w) * 2 ^ w + Low(q, w), 2 * w)]

CpuWide(s, x) ==
    LET w == BitsOf(x.size)
        p == AsSigned(Low(s.edx, w), w) * AsSigned(Low(s.ebx, w), w)
        top == (s.eax \div 2 ^ (w - 1)) % 2
    IN CASE x.op \in {"mul", "imul"} /\ x.form = 1 -> cpu_mul(s, x)
         [] x.form = 2 -> [s EXCEPT !.edx = Merge(@, p, w),
                                    !.over = Flag(AsSigned(Low(p, w), w) # p)]
         [] x.op \in {"div", "idiv"} -> cpu_div(s, x)
         [] x.op \in {"cbw", "cwde"} -> [s EXCEPT !.eax = Merge(@, AsSigned(Low(@, w), w), 2 * w)]
         [] x.op \in {"cwd", "cdq"} -> [s EXCEPT !.edx = Merge(@, top * (2 ^ w - 1), w)]

----------------------------------------------------------------------------
(* lift16: the operand sizes of 16-bit code and, under a prefix, of 32-bit.  *)

\* _wsz of the operand.
WideSize(x) == x.size

mul16(s, x) ==
    LET n == WideSize(x)
        w == BitsOf(n)
        a == IF x.op = "imul" THEN AsSigned(Low(s.eax, w), w) ELSE Low(s.eax, w)
        b == IF x.op = "imul" THEN AsSigned(Low(s.ebx, w), w) ELSE Low(s.ebx, w)
        p == a * b
    IN [CPair(s, p, n) EXCEPT
            !.over = Flag(IF x.op = "imul" THEN Low(p, 2 * w) # Low(AsSigned(Low(p, w), w), 2 * w)
                                           ELSE Low(p, 2 * w) > 2 ^ w - 1)]
\* A zero divisor is reported and changes nothing.
div16(s, x) ==
    IF Low(s.ebx, BitsOf(WideSize(x))) = 0 THEN s ELSE cpu_div(s, [x EXCEPT !.size = WideSize(x)])
Lift16Wide(s, x) ==
    LET w == BitsOf(x.size)
        p == AsSigned(Low(s.edx, w), w) * AsSigned(Low(s.ebx, w), w)
    IN CASE x.op \in {"mul", "imul"} /\ x.form = 1 -> mul16(s, x)
         [] x.form = 2 -> [s EXCEPT !.edx = Merge(@, Low(p, w), w),
                                    !.over = Flag(p # AsSigned(Low(p, w), w))]
         [] x.op \in {"div", "idiv"} -> div16(s, x)
         [] x.op = "cbw" -> [s EXCEPT !.eax = Merge(@, AsSigned(Low(@, w), w), 2 * w)]
         [] x.op = "cwde" -> [s EXCEPT !.eax = Low(AsSigned(Low(@, w), w), Full)]
         [] x.op = "cwd" -> [s EXCEPT !.edx = Merge(@, IF Low(s.eax, w) >= 2 ^ (w - 1) THEN -1 ELSE 0, w)]
         [] x.op = "cdq" -> [s EXCEPT !.edx = IF s.eax >= 2 ^ (w - 1) THEN 2 ^ w - 1 ELSE 0]

----------------------------------------------------------------------------
\* lift32 has no 8 and 16 bit forms, and cwd writes the whole of edx.
WideKnown(x) == /\ writer = "lift32"
                /\ \/ x.form = 1 /\ x.size # 4
                   \/ x.op = "cwd"

WideStart(w, a, d, b) ==
    /\ writer = w
    /\ regs = [eax |-> a, edx |-> d, ebx |-> b, over |-> Unknown]
    /\ copy = regs
    /\ wsteps = 0

WideExecute(x) ==
    /\ wsteps < WideLength
    /\ ~WideKnown(x)
    /\ IF x.op \in {"div", "idiv"} THEN Divides(regs, x) ELSE TRUE
    /\ regs' = WideRun(x, regs)
    /\ copy' = CASE writer = "lift32" -> Lift32Wide(copy, x)
                 [] writer = "lift32_cpu" -> CpuWide(copy, x)
                 [] writer = "lift16" -> Lift16Wide(copy, x)
    /\ wsteps' = wsteps + 1
    /\ UNCHANGED writer

WideInit == \E w \in {"lift32", "lift32_cpu", "lift16"}, a, d, b \in Values : WideStart(w, a, d, b)
WideNext == \E x \in WideInstructions : WideExecute(x)
WideSpec == WideInit /\ [][WideNext]_wvars

\* After any program of products, quotients and extensions eax and edx are the
\* processor's at every operand size, and so is the overflow flag of the two
\* that keep one: each size has C casts of its own (lift32.py:799-838,
\* lift32_cpu.py:530-562; lift16.py:440-444 fell through to the 16-bit form).
WideAgrees ==
    /\ copy.eax = regs.eax /\ copy.edx = regs.edx
    /\ (writer # "lift32" /\ regs.over # Unknown) => copy.over = regs.over
=============================================================================
