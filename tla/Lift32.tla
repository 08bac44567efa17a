------------------------------- MODULE Lift32 -------------------------------
(* What the C that tools/lift/lift32.py emits for one instruction does when  *)
(* it runs against runtime/recomp32/recomp_types.h.                          *)
(*                                                                           *)
(* The flags are not computed where they are written: a body keeps the last  *)
(* flag writer's operands (_flag_a, _flag_b) and its kind (_flag_k), and a   *)
(* running carry _cf beside them.  Whoever reads a flag derives it, from a   *)
(* macro the lifter paired with the writer (_flag_state) or at run time.     *)
(*                                                                           *)
(* g = [eax, cf, k, a, b, word, st, precise_sbb]; word is the packed flag    *)
(* word that _flag_a holds when the kind is EFLAGS, st the lifter's          *)
(* _flag_state and precise_sbb its option of that name.                      *)
EXTENDS X86

FlagKind(st) ==
    CASE st \in {"cmp", "sub"} -> "CMP"
      [] st = "dec" -> "DEC"
      [] st = "add" -> "ADD"
      [] st = "inc" -> "INC"
      [] st \in {"and", "or", "xor", "test"} -> "TEST"
      [] st = "bt" -> "BT"

Top(v) == Bit(v, W - 1)
Pack(r, cf, of) == [cf |-> cf, zf |-> AsBit(r = 0), sf |-> Top(r), of |-> of]
AddOverflow(a, b, r) == Top(And(Not(Xor(a, b), W), Xor(a, r)))
SubOverflow(a, b, r) == Top(And(Xor(a, b), Xor(a, r)))

\* The word PUSHFD pushes, and the one the differential harness compares.
recomp_eflags(g) ==
    LET add == Trunc(g.a + g.b, W)
        sub == Trunc(g.a - g.b, W)
    IN CASE g.k = "EFLAGS" -> g.word
         [] g.k \in {"ADD", "INC"} ->
              Pack(add, IF g.k = "ADD" THEN AsBit(add < g.a) ELSE g.cf, AddOverflow(g.a, g.b, add))
         [] g.k = "TEST" -> Pack(And(g.a, g.b), g.cf, 0)
         [] g.k = "BT" -> Pack(0, Bit(g.a, g.b % W), 0)
         [] g.k = "NONE" -> [cf |-> g.cf, zf |-> 0, sf |-> 0, of |-> 0]
         [] g.k \in {"CMP", "DEC"} ->
              Pack(sub, IF g.k = "CMP" THEN AsBit(g.a < g.b) ELSE g.cf, SubOverflow(g.a, g.b, sub))

\* Unlike recomp_eflags this derives a carry for every kind, INC and DEC too.
recomp_cond(g, cc) ==
    LET add == Trunc(g.a + g.b, W)
        sub == Trunc(g.a - g.b, W)
    IN Holds(cc, CASE g.k = "EFLAGS" -> g.word
                   [] g.k \in {"ADD", "INC"} -> Pack(add, AsBit(add < g.a), AddOverflow(g.a, g.b, add))
                   [] g.k = "TEST" -> Pack(And(g.a, g.b), 0, 0)
                   [] g.k = "BT" -> Pack(0, Bit(g.a, g.b % W), 0)
                   [] OTHER -> Pack(sub, AsBit(g.a < g.b), SubOverflow(g.a, g.b, sub)))

\* The CMP_* and TEST_* macros; CMP_O and CMP_NO are constants.
Cmp(cc, a, b) ==
    LET x == Signed(a, W)
        y == Signed(b, W)
        r == Trunc(a - b, W)
    IN CASE cc = "e" -> a = b
         [] cc = "ne" -> a # b
         [] cc = "b" -> a < b
         [] cc = "be" -> a <= b
         [] cc = "a" -> a > b
         [] cc = "ae" -> a >= b
         [] cc = "l" -> x < y
         [] cc = "le" -> x <= y
         [] cc = "g" -> x > y
         [] cc = "ge" -> x >= y
         [] cc = "s" -> Top(r) = 1
         [] cc = "ns" -> Top(r) = 0
         [] cc = "o" -> FALSE
         [] cc = "no" -> TRUE

\* Mutant: setle and cmovle after test are looked up under their own spelling.
Test_bug(cc, a, b) == Cmp(cc, a, b)
Test(cc, a, b) ==
    LET r == And(a, b)
        x == Signed(r, W)
    IN CASE cc \in {"e", "be"} -> r = 0
         [] cc \in {"ne", "a"} -> r # 0
         [] cc = "b" -> FALSE
         [] cc = "ae" -> TRUE
         [] cc \in {"s", "l"} -> x < 0
         [] cc \in {"ns", "ge"} -> x >= 0
         [] cc = "g" -> x > 0
         [] cc = "le" -> x <= 0
         [] OTHER -> Cmp(cc, a, b)

HasTestMacro == {"e", "ne", "s", "ns", "l"}

\* The expression a jcc, setcc or cmovcc gets: paired, or decided at run time.
_make_condition(cc, g) ==
    CASE g.st = "none" -> recomp_cond(g, cc)
      [] g.st \in {"cmp", "sub", "dec"} -> Cmp(cc, g.a, g.b)
      [] g.st \in {"test", "and"} -> Test(cc, g.a, g.b)
      [] g.st \in {"or", "xor"} -> IF cc \in HasTestMacro THEN Test(cc, g.a, g.b)
                                                          ELSE Cmp(cc, g.a, g.b)
      [] g.st \in {"add", "inc"} -> recomp_cond(g, cc)
      [] g.st = "bt" -> IF cc \in {"b", "ae"} THEN Bit(g.a, g.b % W) = 1 ELSE Cmp(cc, g.a, g.b)

----------------------------------------------------------------------------
(* What an emitter leaves behind.                                            *)

\* Mutant: a narrow operand is stored as it was read.
Aligned_bug(v, w) == Trunc(v, W)

\* A narrow operand is stored with its top bit at the top of the word.
Aligned(v, w) == Trunc(v * 2 ^ (W - w), W)

\* The operands, the static state and the kind that goes with it.
_flag_capture(g, st, a, b, w) ==
    [g EXCEPT !.a = Aligned(a, w), !.b = Aligned(b, w), !.st = st, !.k = FlagKind(st)]

\* A finished word: adc, sbb, the shifts, the rotates and clc/stc/cmc.
Freeze(g, word) ==
    [g EXCEPT !.k = "EFLAGS", !.word = word, !.a = 0, !.b = 0, !.st = "none"]

recomp_eflags_setcf(g, cf) == [recomp_eflags(g) EXCEPT !.cf = cf]
SetCarry(g, cf) == Freeze([g EXCEPT !.cf = cf], recomp_eflags_setcf(g, cf))

\* _shift_count masks; _shift_out_cf is the bit that leaves, 0 past the width.
_shift_count(n) == n % W
_shift_out_cf(kind, a, n, w) ==
    CASE kind = "left" -> IF n <= w THEN Bit(a, w - n) ELSE 0
      [] kind = "right" -> IF n <= w THEN Bit(a, n - 1) ELSE 0
      [] kind = "arith" -> IF n <= w THEN Bit(a, n - 1) ELSE Bit(a, w - 1)

\* Flags of a shift that shifted: the carry out, the rest from the result.
_shift_flags(g, res, cf, w) ==
    Freeze([g EXCEPT !.cf = cf], Pack(Aligned(res, w), cf, 0))

Shift(g, i, a, w) ==
    LET n == _shift_count(i.imm)
        kind == CASE i.op = "shl" -> "left" [] i.op = "shr" -> "right" [] i.op = "sar" -> "arith"
        res == CASE i.op = "shl" -> a * 2 ^ n
                 [] i.op = "shr" -> a \div 2 ^ n
                 \* (int32_t) of a narrow read is never negative
                 [] i.op = "sar" -> IF w = W THEN Signed(a, W) \div 2 ^ n ELSE a \div 2 ^ n
    IN IF n = 0 THEN [g EXCEPT !.st = "none"]
       ELSE [_shift_flags(g, res, _shift_out_cf(kind, a, n, w), w) EXCEPT
                !.eax = Put(g.eax, i.dst, res)]

DoubleShift(g, i, d, s, w) ==
    LET n == _shift_count(i.imm)
        left == i.op = "shld"
        res == IF left THEN Or(Trunc(d * 2 ^ n, W), s \div 2 ^ (w - n))
                       ELSE Or(d \div 2 ^ n, Trunc(s * 2 ^ (w - n), W))
    IN IF ~(0 < n /\ n < w) THEN [g EXCEPT !.st = "none"]
       ELSE [_shift_flags(g, res, _shift_out_cf(IF left THEN "left" ELSE "right", d, n, w), w)
                EXCEPT !.eax = Put(g.eax, i.dst, res)]

\* Mutant: every rotate turns a full register, whatever the operand.
RotateStep_bug(op, s, w) ==
    LET rb == IF op \in {"rcr", "ror"} THEN s.v % 2 ELSE Bit(s.v, W - 1) IN
    [v |-> Trunc(IF op \in {"rcr", "ror"}
                 THEN s.v \div 2 + (IF op = "rcr" THEN s.cf ELSE rb) * 2 ^ (W - 1)
                 ELSE 2 * s.v + (IF op = "rcl" THEN s.cf ELSE rb), W),
     cf |-> rb]
RotateStep(op, s, w) ==
    LET rb == IF op \in {"rcr", "ror"} THEN s.v % 2 ELSE Bit(s.v, w - 1) IN
    [v |-> Trunc(CASE op = "rcr" -> s.v \div 2 + s.cf * 2 ^ (w - 1)
                   [] op = "rcl" -> 2 * s.v + s.cf
                   [] op = "ror" -> s.v \div 2 + rb * 2 ^ (w - 1)
                   [] op = "rol" -> 2 * s.v + rb, w),
     cf |-> rb]

\* Through-carry rotates turn in w + 1 positions, the others in w.
Rotate(g, i, a, w) ==
    LET turns == IF i.op \in {"rcl", "rcr"} THEN w + 1 ELSE w
        n == (i.imm % W) % turns
        s[k \in 0 .. n] == IF k = 0 THEN [v |-> a, cf |-> g.cf] ELSE RotateStep(i.op, s[k - 1], w)
    IN IF n = 0 THEN [g EXCEPT !.st = "none"]
       ELSE [SetCarry(g, s[n].cf) EXCEPT !.eax = Put(g.eax, i.dst, s[n].v)]

Adc(g, i, a, b) ==
    LET r == Trunc(a + b + g.cf, W)
        cf == AsBit(IF g.cf = 1 THEN r <= a ELSE r < a)
    IN [Freeze([g EXCEPT !.cf = cf], Pack(r, cf, AddOverflow(a, b, r))) EXCEPT
            !.eax = Put(g.eax, i.dst, a + b + g.cf)]

\* sbb r, r is the carry spread over the register.
Sbb(g, i, a, b) ==
    LET same == i.src = i.dst
        c == IF same /\ g.precise_sbb /\ g.st \in {"cmp", "sub"} THEN AsBit(Cmp("b", g.a, g.b))
                                                               ELSE g.cf
        r == Trunc(a - b - c, W)
        cf == AsBit(IF c = 1 THEN a <= b ELSE a < b)
    IN [Freeze([g EXCEPT !.cf = cf], Pack(r, cf, SubOverflow(a, b, r))) EXCEPT
            !.eax = Put(g.eax, i.dst, IF same THEN c * Ones(W) ELSE a - b - c)]

\* Borrow of the operands just captured, at their own width.
PublishBorrow(g) == [g EXCEPT !.cf = AsBit(Cmp("b", g.a, g.b))]

Arith(g, i, a, b, w) ==
    CASE i.op = "add" -> _flag_capture(g, "add", a, b, w)
      [] i.op \in {"sub", "cmp"} -> PublishBorrow(_flag_capture(g, i.op, a, b, w))
      [] i.op \in {"inc", "dec"} -> _flag_capture(g, i.op, a, 1, w)
      [] i.op = "neg" -> [_flag_capture(g, "sub", 0, a, w) EXCEPT !.cf = AsBit(a # 0)]
\* or and xor capture their result twice, and and test their operands.
Logic(g, i, a, b, w) ==
    CASE i.op \in {"and", "test"} -> [_flag_capture(g, i.op, a, b, w) EXCEPT !.cf = 0]
      [] i.op = "or" -> [_flag_capture(g, "or", Or(a, b), Or(a, b), w) EXCEPT !.cf = 0]
      [] i.op = "xor" -> [_flag_capture(g, "xor", Xor(a, b), Xor(a, b), w) EXCEPT !.cf = 0]

Complement(g) == SetCarry(g, 1 - recomp_eflags(g).cf)

\* pushfd; popfd: the flags as a word, and from then on that word.
Popfd(g) == Freeze([g EXCEPT !.cf = recomp_eflags(g).cf], recomp_eflags(g))

\* setcc and cmovcc.
Conditional(g, i, b) ==
    LET cond == _make_condition(i.cc, g)
        store(v) == [g EXCEPT !.eax = Put(g.eax, i.dst, v)]
    IN IF i.op = "setcc" THEN store(AsBit(cond)) ELSE IF cond THEN store(b) ELSE g

_lift_instruction(i, g) ==
    LET w == Bits(i.dst)
        a == Get(g.eax, i.dst)
        b == Source(g.eax, i)
        store(h, v) == [h EXCEPT !.eax = Put(g.eax, i.dst, v)]
    IN CASE i.op \in Shifts -> Shift(g, i, a, w)
         [] i.op \in DoubleShifts -> DoubleShift(g, i, a, b, w)
         [] i.op \in Rotates -> Rotate(g, i, a, w)
         [] i.op = "adc" -> Adc(g, i, a, b)
         [] i.op = "sbb" -> Sbb(g, i, a, b)
         [] i.op = "bt" -> _flag_capture(g, "bt", a, b, W)
         [] i.op = "clc" -> SetCarry(g, 0)
         [] i.op = "stc" -> SetCarry(g, 1)
         [] i.op = "cmc" -> Complement(g)
         [] i.op = "popfd" -> Popfd(g)
         [] i.op \in {"setcc", "cmovcc"} -> Conditional(g, i, b)
         [] i.op = "cmp" -> Arith(g, i, a, b, w)
         [] i.op = "test" -> Logic(g, i, a, b, w)
         [] i.op \in Logicals \ {"test"} -> store(Logic(g, i, a, b, w), Value(i.op, a, b, 0, w))
         [] i.op \in {"mov", "not"} -> store(g, Value(i.op, a, b, 0, w))
         [] OTHER -> store(Arith(g, i, a, b, w), Value(i.op, a, b, 0, w))

\* A body starts with no flag writer and no carry; a block that is not reached
\* by falling through one jcc starts with no static pairing.
Fresh(e, precise) ==
            [precise_sbb |-> precise, eax |-> e, cf |-> 0, k |-> "NONE", a |-> 0, b |-> 0,
             word |-> [n \in FlagNames |-> 0], st |-> "none"]
BlockStart(g) == [g EXCEPT !.st = "none"]
=============================================================================
