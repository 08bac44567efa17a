------------------------------ MODULE LiftFlow ------------------------------
(* What the catalog of Disasm32 is for: each of its functions becomes one C  *)
(* function, in which a branch is a goto where the text has a label and a    *)
(* dispatch by address where it has none.  The program then runs on the      *)
(* processor and as lifted, side by side.                                    *)
(*                                                                           *)
(* lift32 emits the basic blocks of the descent, in address order; the other *)
(* two decode the extent from its start to its end.                          *)
EXTENDS Disasm32

CONSTANTS RunLength,      \* bound: instructions executed
          MaxDepth        \* bound: calls in progress

VARIABLES flow,           \* "lift32", "lift32_cpu" or "lift16"
          guest,          \* the processor: [pc, ret, flags]
          lifted,         \* the C program: [f, x, ret, flags, state]
          paired,         \* the condition compiled in was the last writer's
          steps
fvars == <<flow, guest, lifted, paired, steps>>

Flows == {"lift32", "lift32_cpu", "lift16"}
NoFlags == "none"
Setters == {"cmp", "test"}

----------------------------------------------------------------------------
(* lift32: the text of a function.                                           *)

Blocks32(f) == functions[f].blocks
Leaders(f) == {b.start : b \in Blocks32(f)}
BlockOf(f, x) == CHOOSE b \in Blocks32(f) : x \in b.insns
LastInsn(b) == Max(b.insns)

\* The addresses a direct j* or loop* of the function names.
targeted(f) == {At(x).t : x \in {y \in InsnsOf(Blocks32(f)) : At(y).k \in {"jcc", "jmp"}}}

\* Mutant: a block keeps the flag state of whatever was emitted before it.
carry_bug(f, b, p) == is_cond_jump(LastInsn(p))
\* The block is reached only by falling through the conditional jump above it.
carry(f, b, p) ==
    /\ is_cond_jump(LastInsn(p))
    /\ end_address(LastInsn(p)) = b.start
    /\ b.start \notin targeted(f)

\* _flag_state before the instruction at x: the setter seen last in the text.
flag_state(f) ==
    LET after(s, y) == IF At(y).k \in Setters THEN At(y).k ELSE s
        before[x \in Code] ==
            LET b == BlockOf(f, x)
                up == {c \in Blocks32(f) : c.start < b.start}
                p == CHOOSE c \in up : \A d \in up : d.start <= c.start
            IN IF x # b.start
               THEN LET y == CHOOSE y \in b.insns : end_address(y) = x IN after(before[y], y)
               ELSE IF up # {} /\ carry(f, b, p) THEN after(before[LastInsn(p)], LastInsn(p))
               ELSE NoFlags
    IN before

----------------------------------------------------------------------------
(* Where the C goes.                                                         *)

\* The instructions decoded for an extent, with the ones that finish the last
\* when the extent ends inside it.
Insns(f) ==
    LET to == f + functions[f].size
        all == Linear(f, NeverStops)
    IN {x \in all : x < to}
Labels(f) == IF flow = "lift32" THEN Leaders(f) ELSE Insns(f)

\* RECOMP_CALL and RECOMP_ITAIL, dispatch, or the call of a known function.
Dispatch(l, t) ==
    IF t \in DOMAIN functions
    THEN [l EXCEPT !.f = t, !.x = t, !.flags = IF flow = "lift32" THEN NoFlags ELSE @]
    ELSE [l EXCEPT !.state = "missing"]
Goto(l, t) == IF t \in Labels(l.f) THEN [l EXCEPT !.x = t] ELSE Dispatch(l, t)

\* lift32 has nothing after a block that is not a jump: the next one in the
\* text, and past the last the closing brace.
NextInText(l) ==
    LET b == BlockOf(l.f, l.x)
        down == {c \in Leaders(l.f) : c > b.start}
    IN IF l.x # LastInsn(b) THEN [l EXCEPT !.x = end_address(l.x)]
       ELSE IF down # {} THEN [l EXCEPT !.x = Min(down)]
       ELSE [l EXCEPT !.state = "fell"]
\* Mutant: the extent ends, and so does the C function.
FallThrough_bug(l) ==
    IF end_address(l.x) \in Insns(l.f) THEN [l EXCEPT !.x = end_address(l.x)] ELSE [l EXCEPT !.state = "fell"]
\* The others end a body that does not end control flow with a dispatch to the
\* address after its last instruction.
FallThrough(l) ==
    IF end_address(l.x) \in Insns(l.f) THEN [l EXCEPT !.x = end_address(l.x)]
    ELSE Dispatch(l, end_address(l.x))
Continue(l) == IF flow = "lift32" THEN NextInText(l) ELSE FallThrough(l)

\* The arms an indirect jump has gotos for: lift32 takes the ones descent found,
\* lift32_cpu reads the table again and stops at the first word that is no code.
resolve_jumptable ==
    LET slots == image.table
        read[k \in 1 .. Len(slots) + 1] ==
            IF k > Len(slots) \/ slots[k] \notin Code THEN {} ELSE {slots[k]} \cup read[k + 1]
    IN read[1]
\* A table without padding or holes: what lies behind one costs lift32_cpu arms
\* the catalog has no entry for.
SameArms == resolve_jumptable = jump_table_targets
Arms == IF flow = "lift32_cpu" THEN resolve_jumptable ELSE jump_table_targets
_computed_jump(l, t) == IF t \in Arms THEN Goto(l, t) ELSE Dispatch(l, t)

----------------------------------------------------------------------------
Running == /\ stage = "run" /\ lifted.state = "run" /\ steps < RunLength
           /\ Decodes(guest.pc)
Record(g, l) == /\ guest' = g /\ lifted' = l
                /\ steps' = steps + 1
                /\ UNCHANGED <<image, stage, functions, owner, queue, queued, aliases,
                               scanned, rounds, flow>>
After1 == end_address(guest.pc)
SetFlags(l) == IF At(l.x).k \in Setters THEN [l EXCEPT !.flags = At(l.x).k] ELSE l

Straight ==
    /\ Running
    /\ At(guest.pc).k \in Setters \cup {"op", "push", "prolog"}
    /\ Record([guest EXCEPT !.pc = After1,
                            !.flags = IF At(guest.pc).k \in Setters THEN At(guest.pc).k ELSE @],
              Continue(SetFlags(lifted)))
    /\ UNCHANGED paired

\* A program reads flags it has written; lift32 keeps them in locals, which a
\* function entered by a tail jump does not share.
Readable == guest.flags \in Setters /\ lifted.flags # NoFlags
CondJump(taken) ==
    /\ Running /\ is_cond_jump(guest.pc) /\ Readable
    /\ LET t == At(guest.pc).t IN
       Record([guest EXCEPT !.pc = IF taken THEN t ELSE After1],
              IF taken THEN Goto(lifted, t) ELSE Continue(lifted))
    /\ paired' = LET s == flag_state(lifted.f)[lifted.x] IN
                 (flow = "lift32" /\ s # NoFlags) => s = guest.flags

Jump ==
    /\ Running /\ At(guest.pc).k = "jmp"
    /\ Record([guest EXCEPT !.pc = At(guest.pc).t], Goto(lifted, At(guest.pc).t))
    /\ UNCHANGED paired
TableJump(t) ==
    /\ Running /\ At(guest.pc).k = "jt"
    /\ Record([guest EXCEPT !.pc = t], _computed_jump(lifted, t))
    /\ UNCHANGED paired
PointerJump(t) ==
    /\ Running /\ At(guest.pc).k = "ijmp"
    /\ Record([guest EXCEPT !.pc = t], _computed_jump(lifted, t))
    /\ UNCHANGED paired

\* A call pushes, and its C continuation is the next statement of the caller.
Call ==
    /\ Running /\ is_call(guest.pc) /\ Len(guest.ret) < MaxDepth
    /\ Record([guest EXCEPT !.pc = At(guest.pc).t, !.ret = <<After1>> \o @],
              Dispatch([lifted EXCEPT !.ret = <<[f |-> lifted.f, x |-> lifted.x, flags |-> lifted.flags]>> \o @],
                       At(guest.pc).t))
    /\ UNCHANGED paired

\* Flags do not survive a call in either program.
Ret ==
    /\ Running /\ is_ret(guest.pc)
    /\ IF guest.ret = <<>>
       THEN Record([guest EXCEPT !.pc = CodeEnd], [lifted EXCEPT !.state = "done"])
       ELSE LET c == Head(lifted.ret)
                back == [lifted EXCEPT !.f = c.f, !.x = c.x, !.flags = c.flags, !.ret = Tail(@)]
            IN Record([pc |-> Head(guest.ret), ret |-> Tail(guest.ret), flags |-> NoFlags],
                      Continue(back))
    /\ UNCHANGED paired

Built == /\ Build
         /\ UNCHANGED fvars
\* The loader enters at the image's entry point.  lift32 has the functions as
\* descent left them (translator.py), the others a list of extents.
Start ==
    /\ \/ stage = "close" /\ rounds = 0 /\ flow' = "lift32"
       \/ stage = "built" /\ flow' = "lift16"
       \/ stage = "built" /\ SameArms /\ flow' = "lift32_cpu"
    /\ stage' = "run"
    /\ guest' = [guest EXCEPT !.pc = image.entry]
    /\ lifted' = IF image.entry \in DOMAIN functions
                 THEN [lifted EXCEPT !.f = image.entry, !.x = image.entry, !.state = "run"]
                 ELSE [lifted EXCEPT !.state = "missing"]
    /\ UNCHANGED <<image, functions, owner, queue, queued, aliases, scanned, rounds, paired, steps>>

FlowInit ==
    /\ DisasmInit
    /\ flow = "lift32"
    /\ guest = [pc |-> 0, ret |-> <<>>, flags |-> NoFlags]
    /\ lifted = [f |-> 0, x |-> 0, ret |-> <<>>, flags |-> NoFlags, state |-> "idle"]
    /\ paired = TRUE
    /\ steps = 0
FlowNext ==
    \/ Built
    \/ Start
    \/ Straight
    \/ \E taken \in BOOLEAN : CondJump(taken)
    \/ Jump
    \/ \E t \in jump_table_targets : TableJump(t)
    \/ \E t \in image.pointers : PointerJump(t)
    \/ Call
    \/ Ret
FlowSpec == FlowInit /\ [][FlowNext]_<<dvars, fvars>>

----------------------------------------------------------------------------
\* As long as the lifted program runs it is where the processor is, with the
\* same returns outstanding: a goto, a tail dispatch, a fall through the end of
\* an extent and a return all continue at the guest's next instruction
\* (lift32_cpu.py:1133-1148, "nothing faults, and every value after it is off").
\* Whatever address the program branches to, calls, falls into or takes from its
\* tables, the catalog has a function there (disasm32.py:884-901).
PathsAgree ==
    /\ lifted.state = "run" => /\ lifted.x = guest.pc
                               /\ Len(lifted.ret) = Len(guest.ret)
                               /\ \A k \in 1 .. Len(guest.ret) : end_address(lifted.ret[k].x) = guest.ret[k]
    /\ lifted.state \notin {"fell", "missing"}

\* The condition that was compiled into a jump is the one of the instruction that
\* wrote the flags last, on every path to it (lift32.py:1858-1862).
PairedWithLast == paired
=============================================================================
