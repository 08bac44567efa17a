----------------------------- MODULE Lift32Cpu ------------------------------
(* What the C that tools/lift/lift32_cpu.py emits for one instruction does   *)
(* when it runs against runtime/recomp32_cpu/cpu.h.  Every flag is a field   *)
(* of the CPU struct, written where the instruction writes it, at the        *)
(* operand's width.                                                          *)
(*                                                                           *)
(* c = [eax, fl]; the helpers return [r, fl], the value and the flags after. *)
EXTENDS X86

SignSet(v, w) == Bit(v, w - 1)
ResultFlags(fl, r, w) == [fl EXCEPT !.zf = AsBit(r = 0), !.sf = SignSet(r, w)]

flags_add(fl, a, b, w) ==
    LET r == Trunc(a + b, w) IN
    [r |-> r, fl |-> [ResultFlags(fl, r, w) EXCEPT
        !.cf = AsBit(r < a), !.of = SignSet(And(Not(Xor(a, b), w), Xor(a, r)), w)]]
flags_sub(fl, a, b, w) ==
    LET r == Trunc(a - b, w) IN
    [r |-> r, fl |-> [ResultFlags(fl, r, w) EXCEPT
        !.cf = AsBit(a < b), !.of = SignSet(And(Xor(a, b), Xor(a, r)), w)]]
flags_logicz(fl, v, w) ==
    LET r == Trunc(v, w) IN
    [r |-> r, fl |-> [ResultFlags(fl, r, w) EXCEPT !.cf = 0, !.of = 0]]

\* inc and dec put the carry back.
KeepCarry(x, cf) == [x EXCEPT !.fl.cf = cf]
flags_incs(fl, a, w) == KeepCarry(flags_add(fl, a, 1, w), fl.cf)
flags_decs(fl, a, w) == KeepCarry(flags_sub(fl, a, 1, w), fl.cf)

\* The carry out is bit w of the sum taken at twice the width.
flags_adc(fl, a, b, w) ==
    LET full == a + b + fl.cf
        r == Trunc(full, w)
    IN [r |-> r, fl |-> [ResultFlags(fl, r, w) EXCEPT
        !.cf = Bit(full, w), !.of = SignSet(And(Not(Xor(a, b), w), Xor(a, r)), w)]]
flags_sbb(fl, a, b, w) ==
    LET full == (a - b - fl.cf) % 2 ^ (2 * W)
        r == Trunc(full, w)
    IN [r |-> r, fl |-> [ResultFlags(fl, r, w) EXCEPT
        !.cf = Bit(full, w), !.of = SignSet(And(Xor(a, b), Xor(a, r)), w)]]

\* The count is masked to the bits of a full register.  A narrow operand can
\* still be shifted past its width; then the C shifts by a negative amount,
\* and the bits that should come from there are not the operand's.
Count(n) == n % W
Past(n, w) == Count(n) > w
op_shl(fl, v, n, w) ==
    LET k == Count(n)
        r == Trunc(v * 2 ^ k, w)
    IN IF k = 0 THEN [r |-> v, fl |-> fl]
       ELSE [r |-> r, fl |-> [ResultFlags(fl, r, w) EXCEPT
                !.cf = IF Past(n, w) THEN Undef ELSE Bit(v, w - k)]]
op_shr(fl, v, n, w) ==
    LET k == Count(n)
        r == v \div 2 ^ k
    IN IF k = 0 THEN [r |-> v, fl |-> fl]
       ELSE [r |-> r, fl |-> [ResultFlags(fl, r, w) EXCEPT !.cf = Bit(v, k - 1)]]
op_sar(fl, v, n, w) ==
    LET k == Count(n)
        ext == IF SignSet(v, w) = 0 \/ Past(n, w) THEN 0 ELSE Trunc(Ones(w) * 2 ^ (w - k), w)
        r == Trunc(Or(v \div 2 ^ k, ext), w)
    IN IF k = 0 THEN [r |-> v, fl |-> fl]
       ELSE [r |-> r, fl |-> [ResultFlags(fl, r, w) EXCEPT !.cf = Bit(v, k - 1)]]

\* A rotate leaves zf and sf; a whole turn leaves everything.
op_rol(fl, v, n, w) ==
    LET k == Count(n) % w
        r == Trunc(Or(Trunc(v * 2 ^ k, W), v \div 2 ^ (w - k)), w)
    IN IF k = 0 THEN [r |-> v, fl |-> fl]
       ELSE [r |-> r, fl |-> [fl EXCEPT !.cf = r % 2, !.of = AsBit(Bit(r, w - 1) # r % 2)]]
op_ror(fl, v, n, w) ==
    LET k == Count(n) % w
        r == Trunc(Or(v \div 2 ^ k, Trunc(v * 2 ^ (w - k), W)), w)
    IN IF k = 0 THEN [r |-> v, fl |-> fl]
       ELSE [r |-> r, fl |-> [fl EXCEPT !.cf = SignSet(r, w),
                                        !.of = AsBit(Bit(r, w - 1) # Bit(r, w - 2))]]

op_shld(fl, d, s, n, w) ==
    LET k == Count(n)
        r == Trunc(Or(Trunc(d * 2 ^ k, W), s \div 2 ^ (w - k)), w)
    IN IF k = 0 \/ k > w THEN [r |-> d, fl |-> fl]
       ELSE [r |-> r, fl |-> [ResultFlags(fl, r, w) EXCEPT !.cf = Bit(d, w - k)]]
op_shrd(fl, d, s, n, w) ==
    LET k == Count(n)
        r == Trunc(Or(d \div 2 ^ k, Trunc(s * 2 ^ (w - k), W)), w)
    IN IF k = 0 \/ k > w THEN [r |-> d, fl |-> fl]
       ELSE [r |-> r, fl |-> [ResultFlags(fl, r, w) EXCEPT !.cf = Bit(d, k - 1)]]

bit_reg_op(fl, r, idx) == [fl EXCEPT !.cf = Bit(r, idx % W)]

\* The condition a jcc, setcc or cmovcc becomes.
_cond(cc, fl) ==
    CASE cc = "e" -> fl.zf = 1
      [] cc = "ne" -> fl.zf # 1
      [] cc = "be" -> fl.cf = 1 \/ fl.zf = 1
      [] cc = "a" -> fl.cf # 1 /\ fl.zf # 1
      [] cc = "b" -> fl.cf = 1
      [] cc = "ae" -> fl.cf # 1
      [] cc = "l" -> fl.sf # fl.of
      [] cc = "ge" -> fl.sf = fl.of
      [] cc = "le" -> fl.zf = 1 \/ fl.sf # fl.of
      [] cc = "g" -> fl.zf # 1 /\ fl.sf = fl.of
      [] cc = "s" -> fl.sf = 1
      [] cc = "ns" -> fl.sf # 1
      [] cc = "o" -> fl.of = 1
      [] cc = "no" -> fl.of # 1

CpuArith(i, fl, a, b, w) ==
    CASE i.op = "add" -> flags_add(fl, a, b, w)
      [] i.op \in {"sub", "cmp"} -> flags_sub(fl, a, b, w)
      [] i.op = "adc" -> flags_adc(fl, a, b, w)
      [] i.op = "sbb" -> flags_sbb(fl, a, b, w)
      [] i.op \in {"and", "test"} -> flags_logicz(fl, And(a, b), w)
      [] i.op = "or" -> flags_logicz(fl, Or(a, b), w)
      [] i.op = "xor" -> flags_logicz(fl, Xor(a, b), w)
      [] i.op = "inc" -> flags_incs(fl, a, w)
      [] i.op = "dec" -> flags_decs(fl, a, w)
      [] i.op = "neg" -> flags_sub(fl, 0, a, w)
CpuShift(i, fl, a, b, w) ==
    CASE i.op = "shl" -> op_shl(fl, a, i.imm, w)
      [] i.op = "shr" -> op_shr(fl, a, i.imm, w)
      [] i.op = "sar" -> op_sar(fl, a, i.imm, w)
      [] i.op = "rol" -> op_rol(fl, a, i.imm, w)
      [] i.op = "ror" -> op_ror(fl, a, i.imm, w)
      [] i.op = "shld" -> op_shld(fl, a, b, i.imm, w)
      [] i.op = "shrd" -> op_shrd(fl, a, b, i.imm, w)

\* cmp and test drop the value the helper returns.
translate(i, c) ==
    LET w == Bits(i.dst)
        a == Get(c.eax, i.dst)
        b == Source(c.eax, i)
        x == CASE i.op \in Shifts \cup Rotates \cup DoubleShifts -> CpuShift(i, c.fl, a, b, w)
               [] i.op = "popfd" -> [r |-> a, fl |-> c.fl]
               [] i.op = "bt" -> [r |-> a, fl |-> bit_reg_op(c.fl, a, b)]
               [] i.op = "setcc" -> [r |-> AsBit(_cond(i.cc, c.fl)), fl |-> c.fl]
               [] i.op = "cmovcc" -> [r |-> IF _cond(i.cc, c.fl) THEN b ELSE a, fl |-> c.fl]
               [] i.op \in {"mov", "not"} -> [r |-> Value(i.op, a, b, 0, w), fl |-> c.fl]
               [] OTHER -> CpuArith(i, c.fl, a, b, w)
    IN [c EXCEPT !.fl = x.fl,
                 !.eax = IF i.op \in {"cmp", "test"} THEN @ ELSE Put(@, i.dst, x.r)]

\* translate has no case for these: RECOMP_TODO, abort() by default.
Untranslated == {"rcl", "rcr", "clc", "stc", "cmc"}
=============================================================================
