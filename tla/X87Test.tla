------------------------------ MODULE X87Test ------------------------------
(* The x87 half of tools/lift/difftest.py ("depth is the thing worth         *)
(* comparing"): a register stack on the processor, the fixed window with the *)
(* top at index 0 of recomp_types.h, and the ring of cpu.h.                  *)
(*                                                                           *)
(* Numbers are the residues 0 .. Modulus-1 with + - * and a unary function:  *)
(* enough to tell which operand went where.                                  *)
EXTENDS Integers, Sequences

CONSTANTS Slots,          \* registers of the stack; 8 in the program
          Modulus,
          FpuLength       \* bound: instructions in a program

VARIABLES model,          \* "window" (lift32) or "ring" (lift32_cpu)
          st,             \* the processor's stack, st(0) first
          fpu,            \* the lifted stack: [top, slot]
          cell,           \* a memory operand: [real, lifted]
          cmp,            \* the status word's comparison: [real, lifted]
          eflags,         \* the one fcomi left in the flags: [real, lifted]
          fsteps          \* instructions run so far
fvars == <<model, st, fpu, cell, cmp, eflags, fsteps>>

Norm(v) == v % Modulus
Transcendental(v) == Norm(v + 2)
Over(a, b) == CHOOSE q \in 0 .. Modulus - 1 : Norm(q * b) = a
\* -1, 0, 1 of two numbers: below, equal, above.
Compare(a, b) == IF a < b THEN -1 ELSE IF a > b THEN 1 ELSE 0

Arithmetic(op, dst, src) ==
    Norm(CASE op = "fadd" -> dst + src
           [] op = "fmul" -> dst * src
           [] op = "fsub" -> dst - src
           [] op = "fsubr" -> src - dst
           [] op = "fdiv" -> Over(dst, src)
           [] op = "fdivr" -> Over(src, dst))
ArithmeticOps == {"fadd", "fmul", "fsub", "fsubr", "fdiv", "fdivr"}

----------------------------------------------------------------------------
(* An instruction is [op, form, i].  form "st0" computes into st(0) from     *)
(* st(i), "sti" into st(i) from st(0), "pop" does so and pops, "mem" takes   *)
(* the memory cell, as a float or as an integer.  fincstp comes with the     *)
(* ffree st(7) behind it: the two discard st(0), and by itself neither, nor  *)
(* fdecstp, leaves a stack whose registers are all in use.                   *)

Constants == {"fld1", "fldz", "fldpi"}
Constant(op) == CASE op = "fld1" -> 1 [] op = "fldz" -> 0 [] op = "fldpi" -> 3
Unary == {"fchs", "fsin"}
UnaryOf(op, v) == IF op = "fchs" THEN Norm(0 - v) ELSE Transcendental(v)
\* st(1) from both, and a pop; st(0) from both, and none.
Popping(op, x, y) == IF op = "fyl2x" THEN Norm(y * Transcendental(x)) ELSE Norm(y - 2 * x)
Reduce(x, y) == Norm(x - 2 * y)

FpuInstructions ==
    [op : Constants \cup Unary \cup {"fptan", "fyl2x", "fpatan", "fprem", "fcompp", "ftst",
                                   "fincstp_ffree"}, form : {"none"}, i : {0}]
    \cup [op : {"fld", "fst", "fstp"} \cup ArithmeticOps, form : {"mem"}, i : {0}]
    \cup [op : {"fld", "fst", "fstp", "fxch", "fcom", "fcomp", "fcomi", "fcomip", "fcmovb"},
        form : {"st0"}, i : 0 .. Slots - 1]
    \cup [op : ArithmeticOps, form : {"st0", "sti", "pop"}, i : 0 .. Slots - 1]

\* The registers an instruction reads are there, and so is room for its push;
\* a quotient has a divisor.
Pushing == Constants \cup {"fld", "fptan"}
Needs(x) == CASE x.op \in Constants -> 0
              [] x.op = "fld" /\ x.form = "mem" -> 0
              [] x.op \in {"fyl2x", "fpatan", "fprem", "fcompp"} -> 2
              [] OTHER -> x.i + 1
Source(x) == CASE x.form = "mem" -> cell.real [] x.form = "st0" -> st[x.i + 1] [] OTHER -> st[1]
Target(x) == IF x.form \in {"sti", "pop"} THEN st[x.i + 1] ELSE st[1]
Fits(x) == /\ Needs(x) <= Len(st)
           /\ IF x.op \in Pushing THEN Len(st) < Slots ELSE TRUE
           /\ IF x.op = "fdiv" THEN Source(x) # 0 ELSE TRUE
           /\ IF x.op = "fdivr" THEN Target(x) # 0 ELSE TRUE

Push(s, v) == <<v>> \o s
FpuRun(x, s, m) ==
    LET j == x.i + 1 IN
    CASE x.op \in Constants -> Push(s, Constant(x.op))
      [] x.op = "fld" -> Push(s, IF x.form = "mem" THEN m ELSE s[j])
      [] x.op = "fst" -> IF x.form = "mem" THEN s ELSE [s EXCEPT ![j] = s[1]]
      [] x.op = "fstp" -> Tail(IF x.form = "mem" THEN s ELSE [s EXCEPT ![j] = s[1]])
      [] x.op \in {"fcomp", "fcomip", "fincstp_ffree"} -> Tail(s)
      [] x.op = "fcompp" -> Tail(Tail(s))
      [] x.op = "fxch" -> [s EXCEPT ![1] = s[j], ![j] = s[1]]
      [] x.op = "fcmovb" -> IF eflags.real < 0 THEN [s EXCEPT ![1] = s[j]] ELSE s
      [] x.op \in Unary -> [s EXCEPT ![1] = UnaryOf(x.op, @)]
      [] x.op = "fptan" -> Push([s EXCEPT ![1] = Transcendental(@)], 1)
      [] x.op \in {"fyl2x", "fpatan"} -> Tail([s EXCEPT ![2] = Popping(x.op, s[1], @)])
      [] x.op = "fprem" -> [s EXCEPT ![1] = Reduce(@, s[2])]
      [] x.op \in ArithmeticOps /\ x.form = "st0" -> [s EXCEPT ![1] = Arithmetic(x.op, @, s[j])]
      [] x.op \in ArithmeticOps /\ x.form = "sti" -> [s EXCEPT ![j] = Arithmetic(x.op, @, s[1])]
      [] x.op \in ArithmeticOps /\ x.form = "pop" -> Tail([s EXCEPT ![j] = Arithmetic(x.op, @, s[1])])
      [] x.op \in ArithmeticOps /\ x.form = "mem" -> [s EXCEPT ![1] = Arithmetic(x.op, @, m)]
      [] OTHER -> s

Comparing == {"fcom", "fcomp", "fcompp", "ftst"}
Outcome(x, a, b) == Compare(a, IF x.op = "ftst" THEN 0 ELSE b)
Other(x) == IF x.op = "fcompp" THEN 1 ELSE x.i
\* C0 and C3 of the status word.
StatusWord(c) == [c0 |-> c < 0, c3 |-> c = 0]

----------------------------------------------------------------------------
(* lift32: st(0) is slot 0, and a push moves every other register.           *)

fp_push(w, v) == [top |-> w.top + 1,
                  slot |-> [n \in 0 .. Slots - 1 |-> IF n = 0 THEN v ELSE w.slot[n - 1]]]
fp_pop(w) == [top |-> w.top - 1,
              slot |-> [n \in 0 .. Slots - 1 |-> IF n = Slots - 1 THEN 0 ELSE w.slot[n + 1]]]

\* Mutant: the value is stored under the number its target had before the pop.
_fpu_popdst_bug(i) == i
\* The value is popped first, so st(i) is slot i - 1 by then.
_fpu_popdst(i) == IF i = 0 THEN 0 ELSE i - 1
_fpu_dst(x) == IF x.form = "sti" THEN x.i ELSE 0
_fmt_fpu_src(x, w, m) == CASE x.form = "mem" -> m
                           [] x.form = "sti" -> w.slot[0]
                           [] OTHER -> w.slot[x.i]

window_load(x, w, m) == fp_push(w, IF x.op \in Constants THEN Constant(x.op) ELSE _fmt_fpu_src(x, w, m))
\* fst st(i) is emitted as nothing.
window_store(x, w) ==
    CASE x.op = "fst" -> w
      [] x.op = "fstp" -> fp_pop(IF x.form = "mem" THEN w ELSE [w EXCEPT !.slot[x.i] = w.slot[0]])
\* fincstp discards, and its ffree does nothing.
window_stack(x, w) ==
    CASE x.op = "fincstp_ffree" -> fp_pop(w)
      [] x.op = "fxch" -> [w EXCEPT !.slot[0] = w.slot[x.i], !.slot[x.i] = w.slot[0]]
window_compare(x, w) ==
    CASE x.op = "fcompp" -> fp_pop(fp_pop(w)) [] x.op = "fcomp" -> fp_pop(w) [] OTHER -> w
\* The pop forms take the old top as their operand.
window_arith(x, w, m) ==
    LET top == w.slot[0] IN
    IF x.form = "pop" THEN [fp_pop(w) EXCEPT !.slot[_fpu_popdst(x.i)] = Arithmetic(x.op, @, top)]
    ELSE [w EXCEPT !.slot[_fpu_dst(x)] = Arithmetic(x.op, @, _fmt_fpu_src(x, w, m))]
window_function(x, w) ==
    CASE x.op \in Unary -> [w EXCEPT !.slot[0] = UnaryOf(x.op, @)]
      [] x.op = "fptan" -> fp_push([w EXCEPT !.slot[0] = Transcendental(@)], 1)
      [] x.op \in {"fyl2x", "fpatan"} -> [fp_pop(w) EXCEPT !.slot[0] = Popping(x.op, w.slot[0], @)]
      [] x.op = "fprem" -> [w EXCEPT !.slot[0] = Reduce(@, w.slot[1])]
window_fnstsw(c) == CASE c < 0 -> [c0 |-> TRUE, c3 |-> FALSE]
                      [] c = 0 -> [c0 |-> FALSE, c3 |-> TRUE]
                      [] OTHER -> [c0 |-> FALSE, c3 |-> FALSE]

----------------------------------------------------------------------------
(* lift32_cpu: a ring that grows downwards from fpu_top.                     *)

At(r, i) == (r.top + i) % Slots
fst(r, i) == r.slot[At(r, i)]
SetSt(r, i, v) == [r EXCEPT !.slot[At(r, i)] = v]
fpush(r, v) == SetSt([r EXCEPT !.top = (@ - 1) % Slots], 0, v)
fpop(r) == [r EXCEPT !.top = (@ + 1) % Slots]

ring_move(x, r, m) ==
    CASE x.op \in Constants -> fpush(r, Constant(x.op))
      [] x.op = "fld" -> fpush(r, IF x.form = "mem" THEN m ELSE fst(r, x.i))
      [] x.op = "fst" -> IF x.form = "mem" THEN r ELSE SetSt(r, x.i, fst(r, 0))
      [] x.op = "fstp" -> fpop(IF x.form = "mem" THEN r ELSE SetSt(r, x.i, fst(r, 0)))
ring_fcmov(x, r) == IF eflags.lifted < 0 THEN SetSt(r, 0, fst(r, x.i)) ELSE r
ring_fxch(x, r) == SetSt(SetSt(r, 0, fst(r, x.i)), x.i, fst(r, 0))
ring_compare(x, r) ==
    CASE x.op = "fcompp" -> fpop(fpop(r))
      [] x.op \in {"fcomp", "fcomip"} -> fpop(r)
      [] OTHER -> r
ring_function(x, r) ==
    CASE x.op \in Unary -> SetSt(r, 0, UnaryOf(x.op, fst(r, 0)))
      [] x.op = "fptan" -> fpush(SetSt(r, 0, Transcendental(fst(r, 0))), 1)
      [] x.op = "fpatan" -> fpop(SetSt(r, 1, Popping(x.op, fst(r, 0), fst(r, 1))))
      [] x.op = "fprem" -> SetSt(r, 0, Reduce(fst(r, 0), fst(r, 1)))
ring_arith(x, r, m) ==
    LET d == IF x.form \in {"sti", "pop"} THEN x.i ELSE 0
        src == CASE x.form = "mem" -> m
                 [] x.form = "st0" -> fst(r, x.i)
                 [] OTHER -> fst(r, 0)
        done == SetSt(r, d, Arithmetic(x.op, fst(r, d), src))
    IN IF x.form = "pop" THEN fpop(done) ELSE done
ring_fnstsw(c) == [c0 |-> c < 0, c3 |-> c = 0]

----------------------------------------------------------------------------
(* What one lifter gets wrong or leaves out ends the program: fst st(i) is   *)
(* dropped by lift32, fOPp st(0) computes into the register below, fcomi and *)
(* fcmovb are untranslated, and fcomip compares with st(1) whatever its      *)
(* operand is and leaves its result where fnstsw reads; the others are a     *)
(* TODO of lift32_cpu.                                                       *)

Dropped(x) ==
    \/ /\ model = "window"
       /\ \/ x.op = "fst" /\ x.form # "mem"
          \/ x.form = "pop" /\ x.i = 0
          \/ x.op \in {"fcomi", "fcomip", "fcmovb"}
    \/ /\ model = "ring"
       /\ x.op \in {"fincstp_ffree", "fldpi", "fyl2x", "ftst"}

Empty == [top |-> 0, slot |-> [n \in 0 .. Slots - 1 |-> 0]]
FpuStart(m) ==
           /\ model = m
           /\ st = <<>>
           /\ fpu = Empty
           /\ cell = [real |-> 1, lifted |-> 1]
           /\ cmp = [real |-> 0, lifted |-> 0]
           /\ eflags = [real |-> 0, lifted |-> 0]
           /\ fsteps = 0

LiftedSt(i) == IF model = "window" THEN fpu.slot[i] ELSE fst(fpu, i)
Loads == Constants \cup {"fld"}
Stores == {"fst", "fstp"}
Functions == Unary \cup {"fptan", "fyl2x", "fpatan", "fprem"}
Lifted(x) ==
    IF model = "window"
    THEN CASE x.op \in Loads -> window_load(x, fpu, cell.lifted)
           [] x.op \in Stores -> window_store(x, fpu)
           [] x.op \in Comparing -> window_compare(x, fpu)
           [] x.op \in ArithmeticOps -> window_arith(x, fpu, cell.lifted)
           [] x.op \in Functions -> window_function(x, fpu)
           [] OTHER -> window_stack(x, fpu)
    ELSE CASE x.op \in Loads \cup Stores -> ring_move(x, fpu, cell.lifted)
           [] x.op = "fcmovb" -> ring_fcmov(x, fpu)
           [] x.op = "fxch" -> ring_fxch(x, fpu)
           [] x.op \in ArithmeticOps -> ring_arith(x, fpu, cell.lifted)
           [] x.op \in Functions -> ring_function(x, fpu)
           [] OTHER -> ring_compare(x, fpu)

Outcomes(x) == [real |-> Outcome(x, st[1], st[Other(x) + 1]),
                lifted |-> Outcome(x, LiftedSt(0), LiftedSt(Other(x)))]
FpuExecute(x) ==
    /\ fsteps < FpuLength
    /\ Fits(x) /\ ~Dropped(x)
    /\ st' = FpuRun(x, st, cell.real)
    /\ fpu' = Lifted(x)
    /\ cell' = IF x.op \in Stores /\ x.form = "mem"
               THEN [real |-> st[1], lifted |-> LiftedSt(0)] ELSE cell
    /\ cmp' = IF x.op \in Comparing THEN Outcomes(x) ELSE cmp
    /\ eflags' = IF x.op \in {"fcomi", "fcomip"} THEN Outcomes(x) ELSE eflags
    /\ fsteps' = fsteps + 1
    /\ UNCHANGED model

FpuInit == \E m \in {"window", "ring"} : FpuStart(m)
FpuNext == \E x \in FpuInstructions : FpuExecute(x)
FpuSpec == FpuInit /\ [][FpuNext]_fvars

\* After any program without a dropped form the lifted stack is as deep as the processor's and every
\* st(i), every stored value and the last comparison agree (difftest.py:122-128:
\* a handler that pops the wrong number of times leaves plausible values).
FpuAgrees ==
    /\ IF model = "window" THEN fpu.top = Len(st) ELSE (Slots - fpu.top) % Slots = Len(st) % Slots
    /\ \A i \in 0 .. Len(st) - 1 : LiftedSt(i) = st[i + 1]
    /\ cell.lifted = cell.real
    /\ StatusWord(cmp.real) = IF model = "window" THEN window_fnstsw(cmp.lifted) ELSE ring_fnstsw(cmp.lifted)
    /\ eflags.lifted = eflags.real
=============================================================================
