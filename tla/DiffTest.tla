------------------------------ MODULE DiffTest ------------------------------
(* tools/lift/difftest.py and what it measures: a program is run on the      *)
(* processor and, lifted, on the C model of the processor, from the same     *)
(* start, and every field the two can be compared in is compared.  The tool  *)
(* compares after a handful of fixed programs; here the next instruction is  *)
(* any instruction, so the comparison is made after every program.           *)
EXTENDS Lift32, Lift32Cpu, Lift16

CONSTANTS Starts,         \* start values of eax
          Counts,         \* shift and rotate counts
          MaxLength       \* bound: instructions in a program

VARIABLES lifter,         \* which lifter's C is running
          real,           \* the processor: [eax, fl]
          lifted,         \* the C model: a record g of Lift32, or c of the others
          stale,          \* _cf no longer follows the processor's carry
          length          \* instructions run so far
vars == <<lifter, real, lifted, stale, length>>

\* lift32_precise is lift32 with its precise_sbb option.
Eager == {"lift32_cpu", "lift16"}
Lazy == lifter \notin Eager           \* flags derived where they are read
Lifters == {"lift32", "lift32_precise"} \cup Eager

----------------------------------------------------------------------------
(* The instructions, by the operands they take.                              *)

I(ops, dsts, srcs, imms, ccs) ==
    [op : ops, dst : dsts, src : srcs, imm : imms, cc : ccs]

Immediates == {2 ^ H + 1}
Plain == (Sums \ {"inc"}) \cup {"sub", "sbb", "cmp"} \cup Logicals
OneOperand == {"inc", "dec", "neg", "not"}

Instructions ==
    I(Plain, {"eax"}, {"eax", "imm"}, Immediates, {"e"})
    \cup I(Plain \cup {"mov"}, {"al"}, {"ah"}, {0}, {"e"})
    \cup I(OneOperand, {"eax", "ah"}, {"imm"}, {1}, {"e"})
    \cup I(Shifts \cup Rotates, {"eax", "ah"}, {"imm"}, Counts, {"e"})
    \cup I(DoubleShifts, {"eax"}, {"eax", "imm"}, Counts, {"e"})
    \cup I({"bt"}, {"eax"}, {"eax", "imm"}, Immediates, {"e"})
    \cup I(CarryOps \cup {"popfd"}, {"eax"}, {"eax"}, {0}, {"e"})
    \cup I({"setcc"}, {"al"}, {"al"}, {0}, Conditions)
    \cup I({"cmovcc"}, {"al"}, {"ah"}, {0}, {"b", "le"})

\* A flag the architecture leaves undefined, or that nothing has written yet,
\* is no input of a test program.
Runnable(i) == /\ \A n \in Reads(i) : real.fl[n] # Undef
               /\ IF i.op \in {"setcc", "cmovcc"} /\ Lazy THEN lifted.k # "NONE" ELSE TRUE

\* A condition that lift32 is known to get wrong: the carry after inc and dec,
\* overflow after a subtraction, an ordering after or and xor, all but the
\* carry after bt.
KnownCondition(cc, g) ==
    \/ g.k \in {"INC", "DEC"} /\ "cf" \in FlagsRead(cc)
    \/ g.st \in {"cmp", "sub", "dec"} /\ cc \in {"o", "no"}
    \/ g.st \in {"or", "xor"} /\ cc \in {"g", "ge", "le", "a", "be"}
    \/ g.k = "BT" /\ cc # "b"

\* Case.known: the divergences the project keeps, or that the README lists.
\* A program that would meet one is not continued.
known(i) ==
    LET w == Bits(i.dst)
        n == Masked(i.imm)
    IN CASE lifter = "lift32_cpu" ->
            \/ i.op \in Untranslated
            \/ i.op = "sar" /\ n > w
            \/ i.op \in {"rol", "ror"} /\ n # 0 /\ n % w = 0
         [] lifter = "lift16" ->
            \/ i.op = "cmovcc"
            \/ i.op = "sar" /\ n >= w
            \/ i.op \in {"rcl", "rcr"} /\ w = W
         [] OTHER ->
            \/ i.op \in {"adc", "sbb", "sar"} /\ w # W
            \/ i.op \in {"adc", "sbb", "rcl", "rcr"} /\ stale
            \/ i.op \in {"rol", "ror"} /\ n # 0 /\ n % w = 0
            \/ i.op \in {"setcc", "cmovcc"} /\ KnownCondition(i.cc, lifted)
            \/ i.op \in CarryOps \cup Rotates \cup {"popfd"}
               /\ \/ lifted.k = "BT"
                  \/ stale /\ lifted.k \in {"INC", "DEC"}

\* add and bt write a carry and leave _cf alone; what writes no carry keeps it
\* as it is, and so does a shift of zero.
GoesStale(i) ==
    IF i.op \in {"add", "bt"} THEN Lazy
    ELSE /\ stale
         /\ \/ i.op \in {"inc", "dec", "not", "mov", "setcc", "cmovcc"}
            \/ i.op \in Shifts \cup Rotates \cup DoubleShifts /\ Masked(i.imm) = 0

start_regs(l, e) ==
    IF l \in Eager THEN [eax |-> e, fl |-> [n \in FlagNames |-> 0]]
                   ELSE Fresh(e, l = "lift32_precise")

AluStart(l, e) ==
    /\ lifter = l
    /\ real = [eax |-> e, fl |-> [n \in FlagNames |-> 0]]
    /\ lifted = start_regs(l, e)
    /\ stale = FALSE
    /\ length = 0

\* One more instruction, on the processor and as lifted.
Execute(i) ==
    /\ length < MaxLength
    /\ Runnable(i)
    /\ ~known(i)
    /\ real' = Run(i, real.eax, real.fl)
    /\ lifted' = CASE lifter = "lift32_cpu" -> translate(i, lifted)
                   [] lifter = "lift16" -> lift_instruction16(i, lifted)
                   [] OTHER -> _lift_instruction(i, lifted)
    /\ stale' = GoesStale(i)
    /\ length' = length + 1
    /\ UNCHANGED lifter

\* The next instruction begins a block that several jumps lead to.
Join ==
    /\ Lazy
    /\ lifted' = BlockStart(lifted)
    /\ UNCHANGED <<lifter, real, stale, length>>

AluInit == \E l \in Lifters, e \in Starts : AluStart(l, e)
AluNext == Join \/ \E i \in Instructions : Execute(i)
AluSpec == AluInit /\ [][AluNext]_vars

----------------------------------------------------------------------------
(* diff: what the two machines are compared in.                              *)

LiftedFlags == IF Lazy THEN recomp_eflags(lifted) ELSE lifted.fl

\* Undefined flags are not compared, nor the two that lift32 is known to lose:
\* zf after bt, and the carry that inc and dec keep when _cf does not have it.
Compared(n) ==
    /\ real.fl[n] # Undef
    /\ \/ ~Lazy
       \/ /\ n = "zf" => lifted.k # "BT"
          /\ n = "cf" /\ stale => lifted.k \notin {"INC", "DEC"}

\* After any program the registers are the ones the processor has (difftest.py
\* diff): no operand width, no carry and no condition of the lifted C was wrong.
RegistersAgree == lifted.eax = real.eax

\* After any program every defined flag can be derived from what the lifted C
\* kept, although no instruction of lift32 computed it when it wrote it.
FlagsAgree == \A n \in FlagNames : Compared(n) => LiftedFlags[n] = real.fl[n]

\* Whatever condition comes next is decided as the processor decides it, when
\* the lifter pairs it with the setter it saw last and when it is left to run
\* time because several blocks lead here.
ConditionsAgree ==
    \A cc \in {c \in Conditions : Defined(c, real.fl)} :
        CASE lifter = "lift32_cpu" -> _cond(cc, lifted.fl) <=> Holds(cc, real.fl)
          [] lifter = "lift16" -> cc16(cc, lifted.fl) <=> Holds(cc, real.fl)
          [] OTHER -> (lifted.k # "NONE" /\ ~KnownCondition(cc, lifted)) =>
               /\ _make_condition(cc, lifted) <=> Holds(cc, real.fl)
               /\ recomp_cond(lifted, cc) <=> Holds(cc, real.fl)
=============================================================================
