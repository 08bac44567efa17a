-------------------------------- MODULE X86 --------------------------------
(* The processor the lifters are measured against: what an instruction does  *)
(* to one general register, its two halves and the arithmetic flags.  The    *)
(* differential harness runs every case on an emulator of this machine       *)
(* (tools/lift/difftest.py, run_unicorn); nothing here is read from a lifter.*)
(*                                                                           *)
(* Width is scaled down: eax has W bits, al and ah are its halves of H bits. *)
(* A flag is 0, 1 or Undef where the architecture leaves it undefined.       *)
EXTENDS Integers

CONSTANTS W,          \* bits of a full register
          H           \* bits of its low and high halves

ASSUME WidthAssumption == /\ H \in Nat \ {0, 1}
                          /\ W = 2 * H

Undef == 2
FlagNames == {"cf", "zf", "sf", "of"}
Registers == {"eax", "al", "ah"}
Words == 0 .. 2 ^ W - 1

Bits(r) == IF r = "eax" THEN W ELSE H
Trunc(v, w) == v % 2 ^ w
Bit(v, n) == (v \div 2 ^ n) % 2
Sign(v, w) == Bit(v, w - 1)
Signed(v, w) == v - Sign(v, w) * 2 ^ w
Ones(w) == 2 ^ w - 1
AsBit(p) == IF p THEN 1 ELSE 0

\* Bit by bit, for the two logical operations arithmetic cannot express.
AndTable == [a \in Words, b \in Words |->
                LET s[n \in 0 .. W] == IF n = 0 THEN 0
                                       ELSE s[n - 1] + 2 ^ (n - 1) * Bit(a, n - 1) * Bit(b, n - 1)
                IN s[W]]
And(a, b) == AndTable[a, b]
Or(a, b)  == a + b - And(a, b)
Xor(a, b) == a + b - 2 * And(a, b)
Not(a, w) == Ones(w) - a

Get(e, r) == CASE r = "eax" -> e
               [] r = "al" -> Trunc(e, H)
               [] r = "ah" -> e \div 2 ^ H
Put(e, r, v) == CASE r = "eax" -> Trunc(v, W)
                  [] r = "al" -> (e \div 2 ^ H) * 2 ^ H + Trunc(v, H)
                  [] r = "ah" -> Trunc(v, H) * 2 ^ H + Trunc(e, H)

----------------------------------------------------------------------------
(* Flags.  `f` is the flag word before the instruction.                      *)

SignZero(f, r, w) == [f EXCEPT !.zf = AsBit(r = 0), !.sf = Sign(r, w)]
Sum(f, a, b, c, w) ==
    LET r == Trunc(a + b + c, w) IN
    [SignZero(f, r, w) EXCEPT !.cf = AsBit(a + b + c > Ones(w)),
                              !.of = AsBit(Signed(a, w) + Signed(b, w) + c # Signed(r, w))]
Difference(f, a, b, c, w) ==
    LET r == Trunc(a - b - c, w) IN
    [SignZero(f, r, w) EXCEPT !.cf = AsBit(a < b + c),
                              !.of = AsBit(Signed(a, w) - Signed(b, w) - c # Signed(r, w))]
Logical(f, r, w) == [SignZero(f, r, w) EXCEPT !.cf = 0, !.of = 0]

\* One position of a shift or a rotate; `v` and the carry are all it touches.
ShiftOne(op, v, cf, w) ==
    CASE op = "shl" -> [v |-> Trunc(2 * v, w), cf |-> Sign(v, w)]
      [] op = "shr" -> [v |-> v \div 2, cf |-> v % 2]
      [] op = "sar" -> [v |-> v \div 2 + Sign(v, w) * 2 ^ (w - 1), cf |-> v % 2]
      [] op = "rol" -> [v |-> Trunc(2 * v, w) + Sign(v, w), cf |-> Sign(v, w)]
      [] op = "ror" -> [v |-> v \div 2 + (v % 2) * 2 ^ (w - 1), cf |-> v % 2]
      [] op = "rcl" -> [v |-> Trunc(2 * v, w) + cf, cf |-> Sign(v, w)]
      [] op = "rcr" -> [v |-> v \div 2 + cf * 2 ^ (w - 1), cf |-> v % 2]

ShiftBy(op, v, cf, w, n) ==
    LET s[k \in 0 .. n] == IF k = 0 THEN [v |-> v, cf |-> cf]
                           ELSE ShiftOne(op, s[k - 1].v, s[k - 1].cf, w)
    IN s[n]

\* The processor masks every count to the bits that name a full register.
Masked(n) == n % W

Shifts == {"shl", "shr", "sar"}
Rotates == {"rol", "ror", "rcl", "rcr"}

\* A shift leaves OF undefined, and CF too when nothing of the operand is left;
\* a rotate writes CF and leaves OF undefined.  A count of zero writes nothing.
\* (OF is defined for a count of one.  Neither lifter computes it, and it is
\* left out of the comparison as the undef mask of the shift cases does.)
Shifted(f, op, v, w, n) ==
    LET m == Masked(n)
        s == ShiftBy(op, v, f.cf, w, m)
        g == [f EXCEPT !.cf = s.cf, !.of = Undef]
    IN IF m = 0 THEN [v |-> v, fl |-> f]
       ELSE IF op \in Rotates THEN [v |-> s.v, fl |-> g]
       ELSE [v |-> s.v,
             fl |-> [SignZero(g, s.v, w) EXCEPT
                        !.cf = IF m > w /\ op # "sar" THEN Undef ELSE s.cf]]

----------------------------------------------------------------------------
(* The conditions of jcc, setcc and cmovcc.                                  *)

Conditions == {"e", "ne", "s", "ns", "g", "ge", "l", "le", "a", "ae", "b", "be", "o", "no"}

FlagsRead(cc) ==
    CASE cc \in {"e", "ne"} -> {"zf"}
      [] cc \in {"s", "ns"} -> {"sf"}
      [] cc \in {"o", "no"} -> {"of"}
      [] cc \in {"b", "ae"} -> {"cf"}
      [] cc \in {"a", "be"} -> {"cf", "zf"}
      [] cc \in {"l", "ge"} -> {"sf", "of"}
      [] cc \in {"g", "le"} -> {"zf", "sf", "of"}

Holds(cc, f) ==
    CASE cc = "e" -> f.zf = 1
      [] cc = "ne" -> f.zf = 0
      [] cc = "s" -> f.sf = 1
      [] cc = "ns" -> f.sf = 0
      [] cc = "o" -> f.of = 1
      [] cc = "no" -> f.of = 0
      [] cc = "b" -> f.cf = 1
      [] cc = "ae" -> f.cf = 0
      [] cc = "be" -> f.cf = 1 \/ f.zf = 1
      [] cc = "a" -> f.cf = 0 /\ f.zf = 0
      [] cc = "l" -> f.sf # f.of
      [] cc = "ge" -> f.sf = f.of
      [] cc = "le" -> f.zf = 1 \/ f.sf # f.of
      [] cc = "g" -> f.zf = 0 /\ f.sf = f.of

Defined(cc, f) == \A n \in FlagsRead(cc) : f[n] # Undef

----------------------------------------------------------------------------
(* One instruction i = [op, dst, src, imm, cc]: src is a register, or "imm". *)

Source(e, i) == IF i.src = "imm" THEN Trunc(i.imm, Bits(i.dst)) ELSE Get(e, i.src)

Sums == {"add", "adc", "inc"}
Differences == {"sub", "sbb", "cmp", "dec", "neg"}
Logicals == {"and", "or", "xor", "test"}
CarryOps == {"clc", "stc", "cmc"}
DoubleShifts == {"shld", "shrd"}

\* The flags an instruction takes as inputs.
Reads(i) ==
    CASE i.op \in {"adc", "sbb", "rcl", "rcr", "cmc"} -> {"cf"}
      [] i.op \in {"setcc", "cmovcc"} -> FlagsRead(i.cc)
      [] OTHER -> {}

Value(op, a, b, c, w) ==
    CASE op \in {"add", "adc"} -> Trunc(a + b + c, w)
      [] op = "inc" -> Trunc(a + 1, w)
      [] op \in {"sub", "sbb"} -> Trunc(a - b - c, w)
      [] op = "dec" -> Trunc(a - 1, w)
      [] op = "neg" -> Trunc(0 - a, w)
      [] op \in {"and", "test"} -> And(a, b)
      [] op = "or" -> Or(a, b)
      [] op = "xor" -> Xor(a, b)
      [] op \in {"cmp"} -> a
      [] op = "not" -> Not(a, w)
      [] op = "mov" -> b

Carry(f, op) == IF op \in {"adc", "sbb"} THEN f.cf ELSE 0

ArithFlags(f, op, a, b, w) ==
    CASE op \in {"add", "adc"} -> Sum(f, a, b, Carry(f, op), w)
      [] op = "inc" -> [Sum(f, a, 1, 0, w) EXCEPT !.cf = f.cf]
      [] op \in {"sub", "sbb", "cmp"} -> Difference(f, a, b, Carry(f, op), w)
      [] op = "dec" -> [Difference(f, a, 1, 0, w) EXCEPT !.cf = f.cf]
      [] op = "neg" -> Difference(f, 0, a, 0, w)
      [] op \in Logicals -> Logical(f, Value(op, a, b, 0, w), w)
      [] OTHER -> f

\* The register and the flags after i, from e and f.
Run(i, e, f) ==
    LET w == Bits(i.dst)
        a == Get(e, i.dst)
        b == Source(e, i)
        s == Shifted(f, i.op, a, w, i.imm)
        pair == IF i.op = "shld" THEN [hi |-> a, lo |-> b] ELSE [hi |-> b, lo |-> a]
        m == Masked(i.imm)
        d == pair.hi * 2 ^ w + pair.lo
        dv == IF i.op = "shld" THEN Trunc((d * 2 ^ m) \div 2 ^ w, w) ELSE Trunc(d \div 2 ^ m, w)
        dcf == IF i.op = "shld" THEN Bit(a, w - m) ELSE Bit(a, m - 1)
    IN CASE i.op \in Shifts \cup Rotates -> [eax |-> Put(e, i.dst, s.v), fl |-> s.fl]
         [] i.op \in DoubleShifts ->
              IF m = 0 THEN [eax |-> e, fl |-> f]
              ELSE [eax |-> Put(e, i.dst, dv),
                    fl |-> [SignZero(f, dv, w) EXCEPT !.cf = dcf, !.of = Undef]]
         [] i.op = "bt" -> [eax |-> e,
                            fl |-> [f EXCEPT !.cf = Bit(a, b % w), !.sf = Undef, !.of = Undef]]
         [] i.op \in CarryOps -> [eax |-> e,
                            fl |-> [f EXCEPT !.cf = CASE i.op = "clc" -> 0
                                                      [] i.op = "stc" -> 1
                                                      [] i.op = "cmc" -> 1 - f.cf]]
         [] i.op = "popfd" -> [eax |-> e, fl |-> f]
         [] i.op = "setcc" -> [eax |-> Put(e, i.dst, AsBit(Holds(i.cc, f))), fl |-> f]
         [] i.op = "cmovcc" -> [eax |-> IF Holds(i.cc, f) THEN Put(e, i.dst, b) ELSE e, fl |-> f]
         [] i.op \in {"cmp", "test"} -> [eax |-> e, fl |-> ArithFlags(f, i.op, a, b, w)]
         [] OTHER -> [eax |-> Put(e, i.dst, Value(i.op, a, b, Carry(f, i.op), w)),
                      fl |-> ArithFlags(f, i.op, a, b, w)]
=============================================================================
