------------------------------- MODULE Lift16 -------------------------------
(* What the C that tools/lift/lift16.py emits for one instruction does when  *)
(* it runs against runtime/recomp16/cpu.h.  The flags are bits of cpu->flags,*)
(* written by one helper per operation and width.                            *)
(*                                                                           *)
(* c = [eax, fl]; the helpers return [r, fl], the value and the flags after. *)
EXTENDS X86

set_szp(fl, r, w) == [fl EXCEPT !.zf = AsBit(r = 0), !.sf = Bit(r, w - 1)]
SameSign(a, b, w) == Not(Xor(a, b), w)

\* The 8, 16 and 32 bit forms differ in their masks alone.
flags_addn(fl, a, b, w) ==
    LET wide == a + b
        r == Trunc(wide, w)
    IN [r |-> r, fl |-> set_szp([fl EXCEPT !.cf = AsBit(wide > Ones(w)),
                                          !.of = Bit(And(SameSign(a, b, w), Xor(a, r)), w - 1)], r, w)]
flags_subn(fl, a, b, w) ==
    LET r == Trunc(a - b, w)
    IN [r |-> r, fl |-> set_szp([fl EXCEPT !.cf = AsBit(a < b),
                                          !.of = Bit(And(Xor(a, b), Xor(a, r)), w - 1)], r, w)]
flags_logicn(fl, r, w) == [r |-> r, fl |-> set_szp([fl EXCEPT !.cf = 0, !.of = 0], r, w)]

\* The carry is a third input.
flags_adcn(fl, a, b, w) ==
    LET wide == a + b + fl.cf
        r == Trunc(wide, w)
    IN [r |-> r, fl |-> set_szp([fl EXCEPT !.cf = AsBit(wide > Ones(w)),
                                          !.of = Bit(And(SameSign(a, b, w), Xor(a, r)), w - 1)], r, w)]
flags_sbbn(fl, a, b, w) ==
    LET r == Trunc(a - b - fl.cf, w)
    IN [r |-> r, fl |-> set_szp([fl EXCEPT !.cf = AsBit(a < b + fl.cf),
                                          !.of = Bit(And(Xor(a, b), Xor(a, r)), w - 1)], r, w)]

\* inc and dec save cf(cpu) and put it back.
CarryKept(x, fl) == [x EXCEPT !.fl.cf = fl.cf]

\* A count of zero leaves every flag; a count past the width shifts all out.
Shift16(fl, op, v, n, w) ==
    LET c == n % W
        s == IF c >= w THEN w - 1 ELSE c
        x == Signed(v, w)
        r == CASE op = "shl" -> IF c >= w THEN 0 ELSE Trunc(v * 2 ^ c, w)
               [] op = "shr" -> IF c >= w THEN 0 ELSE v \div 2 ^ c
               [] op = "sar" -> Trunc(x \div 2 ^ s, w)
        cf == CASE op = "shl" -> IF c <= w THEN Bit(v, w - c) ELSE 0
                [] op = "shr" -> IF c <= w THEN Bit(v, c - 1) ELSE 0
                [] op = "sar" -> (x \div 2 ^ (s - 1)) % 2
        of == CASE op = "shl" -> AsBit(Bit(r, w - 1) # cf)
                [] op = "shr" -> Bit(v, w - 1)
                [] op = "sar" -> 0
    IN IF c = 0 THEN [r |-> v, fl |-> fl]
       ELSE [r |-> r, fl |-> set_szp([fl EXCEPT !.cf = cf, !.of = of], r, w)]

\* Plain rotates turn in w positions, the ones through carry in w + 1.
Rotate16(fl, op, v, n, w) ==
    LET k == n % W
        c == k % w
        r == IF c = 0 THEN v
             ELSE IF op = "rol" THEN Trunc(v * 2 ^ c, w) + v \div 2 ^ (w - c)
             ELSE v \div 2 ^ c + Trunc(v * 2 ^ (w - c), w)
    IN IF k = 0 THEN [r |-> v, fl |-> fl]
       ELSE [r |-> r, fl |-> [fl EXCEPT !.cf = IF op = "rol" THEN r % 2 ELSE Bit(r, w - 1)]]
RotateCarry16(fl, op, v, n, w) ==
    LET k == n % W
        c == k % (w + 1)
        val == v + fl.cf * 2 ^ w
        r == IF op = "rcl" THEN Trunc(val * 2 ^ c, w + 1) + val \div 2 ^ (w + 1 - c)
                           ELSE val \div 2 ^ c + Trunc(val * 2 ^ (w + 1 - c), w + 1)
    IN IF k = 0 THEN [r |-> v, fl |-> fl]
       ELSE IF c = 0 THEN [r |-> v, fl |-> fl]
       ELSE [r |-> Trunc(r, w), fl |-> [fl EXCEPT !.cf = Bit(r, w)]]
DoubleShift16(fl, op, d, s, n, w) ==
    LET c == n % W
        r == IF op = "shld" THEN Trunc(d * 2 ^ c, w) + s \div 2 ^ (w - c)
                            ELSE d \div 2 ^ c + Trunc(s * 2 ^ (w - c), w)
    IN IF ~(0 < c /\ c < w) THEN [r |-> d, fl |-> fl]
       ELSE [r |-> r, fl |-> set_szp([fl EXCEPT !.cf =
                IF op = "shld" THEN Bit(d, w - c) ELSE Bit(d, c - 1)], r, w)]

\* cc_o .. cc_g.
cc16(cc, fl) ==
    CASE cc = "o" -> fl.of = 1
      [] cc = "no" -> fl.of = 0
      [] cc = "b" -> fl.cf = 1
      [] cc = "ae" -> fl.cf = 0
      [] cc = "e" -> fl.zf = 1
      [] cc = "ne" -> fl.zf = 0
      [] cc = "be" -> fl.cf = 1 \/ fl.zf = 1
      [] cc = "a" -> fl.cf = 0 /\ fl.zf = 0
      [] cc = "s" -> fl.sf = 1
      [] cc = "ns" -> fl.sf = 0
      [] cc = "l" -> fl.sf # fl.of
      [] cc = "ge" -> fl.sf = fl.of
      [] cc = "le" -> fl.zf = 1 \/ fl.sf # fl.of
      [] cc = "g" -> fl.zf = 0 /\ fl.sf = fl.of

Arith16(i, fl, a, b, w) ==
    CASE i.op = "add" -> flags_addn(fl, a, b, w)
      [] i.op \in {"sub", "cmp"} -> flags_subn(fl, a, b, w)
      [] i.op = "adc" -> flags_adcn(fl, a, b, w)
      [] i.op = "sbb" -> flags_sbbn(fl, a, b, w)
      [] i.op = "inc" -> CarryKept(flags_addn(fl, a, 1, w), fl)
      [] i.op = "dec" -> CarryKept(flags_subn(fl, a, 1, w), fl)
      [] i.op = "neg" -> flags_subn(fl, 0, a, w)
Logic16(i, fl, a, b, w) ==
    flags_logicn(fl, CASE i.op \in {"and", "test"} -> And(a, b)
                       [] i.op = "or" -> Or(a, b)
                       [] i.op = "xor" -> Xor(a, b), w)
CarryFlag16(i, fl) ==
    CASE i.op = "clc" -> [fl EXCEPT !.cf = 0]
      [] i.op = "stc" -> [fl EXCEPT !.cf = 1]
      [] i.op = "cmc" -> [fl EXCEPT !.cf = 1 - @]

lift_instruction16(i, c) ==
    LET w == Bits(i.dst)
        a == Get(c.eax, i.dst)
        b == Source(c.eax, i)
        same(fl) == [r |-> a, fl |-> fl]
        x == CASE i.op \in Logicals \cup {"test"} -> Logic16(i, c.fl, a, b, w)
               [] i.op \in Shifts -> Shift16(c.fl, i.op, a, i.imm, w)
               [] i.op \in {"rol", "ror"} -> Rotate16(c.fl, i.op, a, i.imm, w)
               [] i.op \in {"rcl", "rcr"} -> RotateCarry16(c.fl, i.op, a, i.imm, w)
               [] i.op \in DoubleShifts -> DoubleShift16(c.fl, i.op, a, b, i.imm, w)
               [] i.op = "bt" -> same([c.fl EXCEPT !.cf = Bit(a, b % w)])
               [] i.op \in {"clc", "stc", "cmc"} -> same(CarryFlag16(i, c.fl))
               [] i.op = "popfd" -> same(c.fl)
               [] i.op = "setcc" -> [r |-> AsBit(cc16(i.cc, c.fl)), fl |-> c.fl]
               [] i.op \in {"mov", "not"} -> [r |-> Value(i.op, a, b, 0, w), fl |-> c.fl]
               [] OTHER -> Arith16(i, c.fl, a, b, w)
    IN [c EXCEPT !.fl = x.fl,
                 !.eax = IF i.op \in {"cmp", "test"} THEN @ ELSE Put(@, i.dst, x.r)]
=============================================================================
