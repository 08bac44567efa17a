----------------------------- MODULE LanesTest ------------------------------
(* The packed registers: the SSE subset of lift32_cpu (xmm registers of four *)
(* 32-bit lanes) and the MMX subset of lift32 (mm registers of four 16-bit   *)
(* lanes).  An instruction reads the register it writes, writes some of its  *)
(* lanes and must leave, or clear, the others.                               *)
(*                                                                           *)
(* A lane is two bits.  As an SSE float 0, 1 and 2 are numbers and 3, all    *)
(* ones, is a NaN; as an MMX word it is a signed number.                     *)
EXTENDS Integers, Sequences

CONSTANTS Vectors,        \* start values of registers and memory
          LanesLength     \* bound: instructions in a program

VARIABLES unit,           \* "sse" (lift32_cpu) or "mmx" (lift32)
          v,              \* the processor: [x0, x1, m, r, fl]
          lv,             \* the same as the lifted C has it
          lsteps
lvars == <<unit, v, lv, lsteps>>

Lanes == 1 .. 4
Zero4 == <<0, 0, 0, 0>>
NaN == 3
LaneOnes == 3

LaneAnd(a, b) == (a % 2) * (b % 2) + 2 * ((a \div 2) * (b \div 2))
LaneOp(op, a, b) ==
    CASE op = "and" -> LaneAnd(a, b)
      [] op = "andn" -> LaneAnd(3 - a, b)
      [] op = "or" -> a + b - LaneAnd(a, b)
      [] op = "xor" -> a + b - 2 * LaneAnd(a, b)
      [] op = "add" -> IF NaN \in {a, b} THEN NaN ELSE (a + b) % 3
      [] op = "mul" -> IF NaN \in {a, b} THEN NaN ELSE (a * b) % 3
      [] op = "min" -> IF NaN \in {a, b} \/ a >= b THEN b ELSE a
      [] op = "max" -> IF NaN \in {a, b} \/ a <= b THEN b ELSE a
Bitwise4 == {"and", "andn", "or", "xor"}
Packed == Bitwise4 \cup {"add", "mul", "min", "max"}
Predicates == {"eq", "lt", "unord", "nle"}
MaskTrue(p, a, b) ==
    LET un == NaN \in {a, b} IN
    CASE p = "eq" -> ~un /\ a = b
      [] p = "lt" -> ~un /\ a < b
      [] p = "unord" -> un
      [] p = "nle" -> un \/ a > b

SignedLane(a) == IF a >= 2 THEN a - 4 ELSE a
Saturate(n) == IF n > 1 THEN 1 ELSE IF n < -2 THEN -2 ELSE n
Number(x) == x[1] + 4 * x[2] + 16 * x[3] + 64 * x[4]

\* i = [op, d, s, imm]; operands x0, x1, the memory m and the integer r.
L(ops, ds, ss, imms) == {i \in [op : ops, d : ds, s : ss, imm : imms] : i.d # i.s}
Regs == {"x0", "x1"}
SseInstructions ==
    L({"movss", "movsd", "movq", "movaps"}, Regs \cup {"m"}, Regs \cup {"m"}, {0})
    \cup L({"movd"}, {"x0", "r"}, {"x0", "r"}, {0})
    \cup L(Packed, {"x0"}, {"x1", "m"}, {0})
    \cup L({"addss", "minss"}, {"x0"}, {"x1", "m"}, {0})
    \cup L({"shufps"}, Regs, Regs, {27, 228, 78})
    \cup L({"unpcklps", "unpckhps"}, {"x0"}, {"x1", "m"}, {0})
    \cup L({"ucomiss"}, {"x0"}, {"x1", "m"}, {0})
    \cup L(Predicates, {"x1"}, {"x0", "m"}, {0})
    \cup L({"cvtsi2ss"}, {"x0"}, {"r"}, {0}) \cup L({"cvttss2si"}, {"r"}, {"x0", "m"}, {0})
MmxInstructions ==
    L({"movq"}, Regs \cup {"m"}, Regs \cup {"m"}, {0})
    \cup L({"movd"}, {"x0", "r"}, {"x0", "r"}, {0})
    \cup L({"pandn", "paddw", "psubsw", "pcmpgtw", "pmaddwd", "punpcklwd", "punpckhwd",
            "punpckldq", "punpckhdq"}, {"x0"}, {"x1", "m"}, {0})
    \cup L({"psllw", "psraw", "psllq"}, {"x0"}, {"x1", "imm"}, {1, 2})
Runs(i) == {i.d, i.s} # {"m"} /\ (i.s = "m" => i.d # "m")

----------------------------------------------------------------------------
(* The processor: the lanes of the result, each from the operands.           *)

Two(i) == (i - 1) % 2
Sel(imm, k) == ((imm \div 4 ^ k) % 4) + 1
Mask(p) == IF p THEN LaneOnes ELSE 0

\* The lanes a two-operand SSE instruction leaves in its destination.
SseResult(i, d, s) ==
    CASE i.op = "movaps" -> s
      [] i.op = "movss" -> IF i.s = "m" THEN <<s[1], 0, 0, 0>> ELSE <<s[1], d[2], d[3], d[4]>>
      [] i.op = "movsd" -> IF i.s = "m" THEN <<s[1], s[2], 0, 0>> ELSE <<s[1], s[2], d[3], d[4]>>
      [] i.op = "movq" -> <<s[1], s[2], 0, 0>>
      [] i.op \in Packed -> [k \in Lanes |-> LaneOp(i.op, d[k], s[k])]
      [] i.op = "addss" -> [d EXCEPT ![1] = LaneOp("add", @, s[1])]
      [] i.op = "minss" -> [d EXCEPT ![1] = LaneOp("min", @, s[1])]
      [] i.op = "shufps" -> <<d[Sel(i.imm, 0)], d[Sel(i.imm, 1)], s[Sel(i.imm, 2)], s[Sel(i.imm, 3)]>>
      [] i.op = "unpcklps" -> <<d[1], s[1], d[2], s[2]>>
      [] i.op = "unpckhps" -> <<d[3], s[3], d[4], s[4]>>
      [] i.op \in Predicates -> [d EXCEPT ![1] = Mask(MaskTrue(i.op, @, s[1]))]

Dword(x, k) == x[k] + 4 * x[k + 1]
Wrap(n) == n % 4
PairOf(n) == <<Wrap(n), (n \div 4) % 4>>
ShiftWord(op, a, n) ==
    IF op = "psllw" THEN Wrap(a * 2 ^ n) ELSE Wrap(SignedLane(a) \div 2 ^ n)
Least(a, b) == IF a < b THEN a ELSE b
MmxResult(i, d, s) ==
    LET n == IF i.s = "imm" THEN i.imm ELSE Number(s)
        dot(k) == SignedLane(d[k]) * SignedLane(s[k]) + SignedLane(d[k + 1]) * SignedLane(s[k + 1])
    IN CASE i.op = "movq" -> s
         [] i.op = "pandn" -> [k \in Lanes |-> LaneAnd(3 - d[k], s[k])]
         [] i.op = "paddw" -> [k \in Lanes |-> Wrap(d[k] + s[k])]
         [] i.op = "psubsw" -> [k \in Lanes |-> Wrap(Saturate(SignedLane(d[k]) - SignedLane(s[k])))]
         [] i.op = "pcmpgtw" -> [k \in Lanes |-> Mask(SignedLane(d[k]) > SignedLane(s[k]))]
         [] i.op = "pmaddwd" -> PairOf(dot(1)) \o PairOf(dot(3))
         [] i.op = "punpcklwd" -> <<d[1], s[1], d[2], s[2]>>
         [] i.op = "punpckhwd" -> <<d[3], s[3], d[4], s[4]>>
         [] i.op = "punpckldq" -> <<d[1], d[2], s[1], s[2]>>
         [] i.op = "punpckhdq" -> <<d[3], d[4], s[3], s[4]>>
         [] i.op \in {"psllw", "psraw"} -> [k \in Lanes |-> ShiftWord(i.op, d[k], Least(n, 2))]
         [] i.op = "psllq" -> LET q == IF n > 7 THEN 0 ELSE (Number(d) * 2 ^ n) % 256
                              IN PairOf(q) \o PairOf(q \div 16)

\* Wider operands than a store has room for are truncated by its size.
StoredLanes(op) == CASE op = "movss" -> 1 [] op \in {"movsd", "movq"} -> 2 [] OTHER -> 4
LaneRun(i, w) ==
    CASE i.op = "movd" -> IF i.d = "r" THEN [w EXCEPT !.r = w.x0[1]] ELSE [w EXCEPT !.x0 = <<w.r, 0, 0, 0>>]
      [] i.op = "cvtsi2ss" -> [w EXCEPT !.x0[1] = w.r % 3]
      [] i.op = "cvttss2si" -> [w EXCEPT !.r = IF w[i.s][1] = NaN THEN 2 ELSE w[i.s][1]]
      [] i.op = "ucomiss" -> LET a == w.x0[1] b == w[i.s][1] un == NaN \in {a, b} IN
            [w EXCEPT !.fl = [zf |-> un \/ a = b, pf |-> un, cf |-> un \/ a < b]]
      [] OTHER ->
            IF i.d = "m"
            THEN [w EXCEPT !.m = [k \in Lanes |->
                    IF k <= (IF unit = "mmx" THEN 4 ELSE StoredLanes(i.op)) THEN w[i.s][k] ELSE @[k]]]
            ELSE IF unit = "sse" THEN [w EXCEPT ![i.d] = SseResult(i, @, w[i.s])]
            ELSE [w EXCEPT ![i.d] = MmxResult(i, @, IF i.s = "imm" THEN Zero4 ELSE w[i.s])]

----------------------------------------------------------------------------
(* lift32_cpu, sse(): C assignments in the order they are written.           *)

Assign(x, lane, val) == [x EXCEPT ![lane] = val]

\* Mutant: the lanes are read from the register being written.
Unpack_bug(d, s, a, b) ==
    LET x1 == Assign(d, 1, d[a])
        x2 == Assign(x1, 2, s[a])
        x3 == Assign(x2, 3, x2[b])
    IN Assign(x3, 4, s[b])
\* _d and _s are copies taken before the first lane is written.
Unpack(d, s, a, b) ==
    LET x1 == Assign(d, 1, d[a])
        x2 == Assign(x1, 2, s[a])
        x3 == Assign(x2, 3, d[b])
    IN Assign(x3, 4, s[b])
Shuf(d, s, imm) ==
    LET sel(k) == ((imm \div 2 ^ (2 * k)) % 4) + 1
        x == Assign(Assign(d, 1, d[sel(0)]), 2, d[sel(1)])
    IN Assign(Assign(x, 3, s[sel(2)]), 4, s[sel(3)])
sse_load(s, lanes) == [k \in Lanes |-> IF k <= lanes THEN s[k] ELSE 0]
sse_min(a, b) == IF a # NaN /\ b # NaN /\ a < b THEN a ELSE b
sse_max(a, b) == IF a # NaN /\ b # NaN /\ a > b THEN a ELSE b
Fold4(op, d, s) ==
    [k \in Lanes |-> CASE op = "min" -> sse_min(d[k], s[k]) [] op = "max" -> sse_max(d[k], s[k])
                       [] OTHER -> LaneOp(op, d[k], s[k])]
sse_compare(a, b) == IF NaN \in {a, b} THEN [zf |-> TRUE, pf |-> TRUE, cf |-> TRUE]
                     ELSE [zf |-> a = b, pf |-> FALSE, cf |-> a < b]
sse_cvtt_i32(a) == IF a # NaN THEN a ELSE 2
SSE_CMP_PRED(p, a, b) ==
    LET lt == NaN \notin {a, b} /\ a < b
        eq == NaN \notin {a, b} /\ a = b
    IN CASE p = "eq" -> eq [] p = "lt" -> lt
         [] p = "unord" -> a = NaN \/ b = NaN
         [] p = "nle" -> ~(lt \/ eq)

sse(i, w) ==
    LET d == w[i.d]
        s == w[i.s]
        low(n) == [k \in Lanes |-> IF k <= n THEN s[k] ELSE d[k]]
        to(x) == [w EXCEPT ![i.d] = x]
    IN CASE i.op = "movss" -> to(IF i.s = "m" THEN sse_load(s, 1) ELSE low(1))
         [] i.op = "movsd" -> to(IF i.s = "m" THEN sse_load(s, 2) ELSE low(2))
         [] i.op = "movd" -> IF i.d = "r" THEN to(s[1]) ELSE to(<<s, 0, 0, 0>>)
         [] i.op = "movq" -> to(IF i.d = "m" THEN low(2) ELSE sse_load(s, 2))
         [] i.op = "movaps" -> to(s)
         [] i.op \in Packed -> to(Fold4(i.op, d, s))
         [] i.op = "addss" -> to(Assign(d, 1, LaneOp("add", d[1], s[1])))
         [] i.op = "minss" -> to(Assign(d, 1, sse_min(d[1], s[1])))
         [] i.op = "shufps" -> to(Shuf(d, s, i.imm))
         [] i.op = "unpcklps" -> to(Unpack(d, s, 1, 2))
         [] i.op = "unpckhps" -> to(Unpack(d, s, 3, 4))
         [] i.op = "ucomiss" -> [w EXCEPT !.fl = sse_compare(d[1], s[1])]
         [] i.op \in Predicates -> to(Assign(d, 1, IF SSE_CMP_PRED(i.op, d[1], s[1]) THEN LaneOnes ELSE 0))
         [] i.op = "cvtsi2ss" -> to(Assign(d, 1, s % 3))
         [] i.op = "cvttss2si" -> to(sse_cvtt_i32(s[1]))

----------------------------------------------------------------------------
(* lift32: an MMX register is one number; MM_W and MM_D take lanes out of it *)
(* and MM_PUT_W and MM_PUT_D put them together.                              *)

MM_W(x, k) == SignedLane((x \div 4 ^ k) % 4)
MM_D(x, k) == (x \div 16 ^ k) % 16
MM_PUT_W(k, n) == (n % 4) * 4 ^ k
MM_PUT_D(k, n) == (n % 16) * 16 ^ k
Words4(f(_)) == MM_PUT_W(0, f(0)) + MM_PUT_W(1, f(1)) + MM_PUT_W(2, f(2)) + MM_PUT_W(3, f(3))
Interleave(a, b, k) == MM_PUT_W(0, MM_W(a, k)) + MM_PUT_W(1, MM_W(b, k))
                       + MM_PUT_W(2, MM_W(a, k + 1)) + MM_PUT_W(3, MM_W(b, k + 1))
\* An immediate, or the whole of the other register.
_mm_count(i, b) == IF i.s = "imm" THEN i.imm ELSE IF b > 7 THEN 8 ELSE b
Products(a, b, k) == MM_W(a, 2 * k) * MM_W(b, 2 * k) + MM_W(a, 2 * k + 1) * MM_W(b, 2 * k + 1)

MMX_BINOPS(i, a, b) ==
    LET n == _mm_count(i, b)
        pandn(k) == LaneAnd(3 - (MM_W(a, k) % 4), MM_W(b, k) % 4)
        paddw(k) == MM_W(a, k) + MM_W(b, k)
        psubsw(k) == Saturate(MM_W(a, k) - MM_W(b, k))
        pcmpgtw(k) == IF MM_W(a, k) > MM_W(b, k) THEN 3 ELSE 0
        psllw(k) == (MM_W(a, k) % 4) * 2 ^ n
        psraw(k) == MM_W(a, k) \div 2 ^ Least(n, 1)
    IN CASE i.op = "movq" -> b
         [] i.op = "pandn" -> Words4(pandn)
         [] i.op = "paddw" -> Words4(paddw)
         [] i.op = "psubsw" -> Words4(psubsw)
         [] i.op = "pcmpgtw" -> Words4(pcmpgtw)
         [] i.op = "pmaddwd" -> MM_PUT_D(0, Products(a, b, 0)) + MM_PUT_D(1, Products(a, b, 1))
         [] i.op = "punpcklwd" -> Interleave(a, b, 0)
         [] i.op = "punpckhwd" -> Interleave(a, b, 2)
         [] i.op = "punpckldq" -> MM_PUT_D(0, MM_D(a, 0)) + MM_PUT_D(1, MM_D(b, 0))
         [] i.op = "punpckhdq" -> MM_PUT_D(0, MM_D(a, 1)) + MM_PUT_D(1, MM_D(b, 1))
         [] i.op = "psllw" -> IF n > 1 THEN 0 ELSE Words4(psllw)
         [] i.op = "psraw" -> Words4(psraw)
         [] i.op = "psllq" -> IF n > 7 THEN 0 ELSE (a * 2 ^ n) % 256
FromNumber(n) == [k \in Lanes |-> (n \div 4 ^ (k - 1)) % 4]

\* _mm_write of the expression; movd zero-extends in and truncates out.
mmx(i, w) ==
    CASE i.op = "movd" -> IF i.d = "r" THEN [w EXCEPT !.r = MM_D(Number(w.x0), 0) % 4]
                                       ELSE [w EXCEPT !.x0 = FromNumber(w.r)]
      [] OTHER -> [w EXCEPT ![i.d] =
            FromNumber(MMX_BINOPS(i, Number(w[i.d]), IF i.s = "imm" THEN 0 ELSE Number(w[i.s])))]

----------------------------------------------------------------------------
LanesStart(u, a, b, c, n) ==
    /\ unit = u
    /\ v = [x0 |-> a, x1 |-> b, m |-> c, r |-> n, fl |-> [zf |-> FALSE, pf |-> FALSE, cf |-> FALSE]]
    /\ lv = v
    /\ lsteps = 0
LanesExecute(i) ==
    /\ lsteps < LanesLength
    /\ v' = LaneRun(i, v)
    /\ lv' = IF unit = "sse" THEN sse(i, lv) ELSE mmx(i, lv)
    /\ lsteps' = lsteps + 1
    /\ UNCHANGED unit
LanesInit == \E u \in {"sse", "mmx"}, a, b, c \in Vectors, n \in {1, 3} : LanesStart(u, a, b, c, n)
LanesNext == \/ unit = "sse" /\ \E i \in SseInstructions : LanesExecute(i)
             \/ unit = "mmx" /\ \E i \in MmxInstructions : LanesExecute(i)
LanesSpec == LanesInit /\ [][LanesNext]_lvars

\* After any program of packed instructions every lane, the memory and the
\* compare flags are the processor's, NaN included: which lanes a move clears,
\* shuffles that read the register they write, min and max that are not fmin
\* and fmax (lift32_cpu.py:950-953, cpu.h:400-430).
LanesAgree == lv = v
=============================================================================
