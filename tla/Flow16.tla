------------------------------- MODULE Flow16 -------------------------------
(* How tools/lift/lift16.py carries control: jumps, loops, calls, returns,   *)
(* overlay calls and falling off a function's end.  A 16-bit program runs on *)
(* the processor and, beside it, as the C functions it was lifted to; every  *)
(* step is one instruction of the guest and the C it became.  A program is   *)
(* its layout: where the functions and their instructions lie decides how an *)
(* instruction is lifted, so each step may meet any instruction.  Addresses  *)
(* are offsets into the image; a paragraph is Para of them, a segment        *)
(* SegSize.                                                                  *)
EXTENDS Integers, Sequences, FiniteSets, FiniteSetsExt, SequencesExt

CONSTANTS Para, SegSize,
          Layouts,        \* the images: see Layout
          CxTop,          \* cx counts modulo CxTop
          MaxWords,       \* bound on the words on the guest's stack
          HdrSize, Corr   \* the lifter's guesses at where a far segment lies

VARIABLES layout,         \* [funcs, bias, far_base, arms]
          guest,          \* [at, seg, cx, stack]
          lifted,         \* [f, at, cx, stack, calls, ticked]
          back            \* the guest's last step went back inside the function
f16vars == <<layout, guest, lifted, back>>

\* A lifted function: known_funcs has it at entry; its instructions are at
\* DOMAIN code, as far as their lengths; seg is its code segment.  start is
\* func_start and entry_addr the secondary entry, or Absent.
Absent == -1
Sentinel == -1            \* 0xFFFF, what a lifted call pushes as its return
known(lin) == \E f \in layout.funcs : f.entry = lin
FuncAt(lin) == CHOOSE f \in layout.funcs : f.entry = lin
valid_addrs(f) == {a - f.start : a \in DOMAIN f.code}
SegBase(seg) == layout.bias + seg * Para

\* The secondary entry is a goto at the top of the C function.
Start(f) == IF f.entry_addr \in valid_addrs(f) THEN f.start + f.entry_addr ELSE Min(DOMAIN f.code)

\* What a project that lifts with it sees to: a C function is listed without a
\* gap and begins where it is called, segments lie in the image, and far_base,
\* or else one of the two guesses, is where they do (lift16.py:774-801).
WellLaid(l) ==
    /\ l.bias \in Int
    /\ \A f \in l.funcs :
         /\ f.start \in Int /\ f.seg \in Nat /\ l.bias + f.seg * Para >= 0
         /\ DOMAIN f.code \subseteq Nat /\ \A a \in DOMAIN f.code : f.code[a] \in Nat
         /\ \A a \in DOMAIN f.code :
               a + f.code[a] \in DOMAIN f.code \/ \A b \in DOMAIN f.code : b <= a
         /\ f.entry \in DOMAIN f.code /\ Start(f) = f.entry
    /\ IF l.far_base # Absent THEN l.far_base = l.bias ELSE l.bias \in {-Corr, HdrSize}

ASSUME Flow16Assumption ==
    /\ Para \in Nat \ {0} /\ SegSize \in Nat \ {0} /\ CxTop \in Nat \ {0}
    /\ HdrSize \in Int /\ Corr \in Int
    /\ \A l \in Layouts : WellLaid(l)

----------------------------------------------------------------------------
(* The instructions.                                                         *)

Counted == {"loop", "loopz", "loopnz", "jcxz"}
NearOps == {"jmp", "jcc"} \cup Counted
Rels == -(SegSize \div 2) .. (SegSize \div 2) - 1
Offsets == 0 .. SegSize - 1
Segs == {f.seg : f \in layout.funcs}
Dropped == {0, 2}         \* the words a return drops beside the address

\* cond: the condition of a jcc, or the zero flag of a loopz.
NearForms == [op : NearOps, rel : Rels, cond : BOOLEAN] \cup [op : {"call"}, rel : Rels]
FarForms == [op : {"call_far", "jmp_far"}, seg : Segs, off : Offsets, form : {"direct", "mem"}]
            \cup [op : {"int3f"}, at : {f.entry : f \in layout.funcs}]
IndirectForms == [op : {"jmp_ind", "call_ind", "jmp_table"}, off : Offsets]
\* A pair is pushed to jump with, so only where something lifted begins.
StackForms == [op : {"ret", "retf"}, drop : Dropped]
              \cup {p \in [op : {"pushfar"}, seg : Segs, off : Offsets] : known(SegBase(p.seg) + p.off)}
Instructions == NearForms \cup FarForms \cup IndirectForms \cup StackForms \cup {[op |-> "plain"]}

----------------------------------------------------------------------------
(* The processor.  A near transfer wraps inside its segment.                 *)

Dec(cx) == (cx + CxTop - 1) % CxTop
Taken(i, cx) == CASE i.op = "jmp" -> TRUE
                  [] i.op = "jcc" -> i.cond
                  [] i.op = "loop" -> Dec(cx) # 0
                  [] i.op = "loopz" -> Dec(cx) # 0 /\ i.cond
                  [] i.op = "loopnz" -> Dec(cx) # 0 /\ ~i.cond
                  [] i.op = "jcxz" -> cx = 0
CxAfter(i, cx) == IF i.op \in Counted \ {"jcxz"} THEN Dec(cx) ELSE cx

InSegment(seg, ip) == SegBase(seg) + (ip % SegSize)
Length(f, a) == f.code[a]
Drop(s, n) == SubSeq(s, 1, Len(s) - n)
\* A word of the guest's stack: what it is, and the address or data it holds.
Word(k, v) == [k |-> k, v |-> v]
ReturnWords(g, next, far) == (IF far THEN <<Word("cs", g.seg)>> ELSE <<>>) \o <<Word("ip", next - SegBase(g.seg))>>

GuestGoes(g, seg, at, ws) == [g EXCEPT !.seg = seg, !.at = at, !.stack = @ \o ws]
GuestStep(g, i, len) ==
    LET next == InSegment(g.seg, g.at + len - SegBase(g.seg))
        rel == InSegment(g.seg, g.at + len + i.rel - SegBase(g.seg))
        far == SegBase(i.seg) + i.off
        near == SegBase(g.seg) + i.off
        top == g.stack[Len(g.stack)].v
        below == g.stack[Len(g.stack) - 1].v
    IN CASE i.op \in NearOps -> [g EXCEPT !.at = IF Taken(i, g.cx) THEN rel ELSE next,
                                       !.cx = CxAfter(i, @)]
         [] i.op = "call" -> GuestGoes(g, g.seg, rel, ReturnWords(g, next, FALSE))
         [] i.op = "call_far" -> GuestGoes(g, i.seg, far, ReturnWords(g, next, TRUE))
         [] i.op = "jmp_far" -> GuestGoes(g, i.seg, far, <<>>)
         [] i.op = "int3f" -> GuestGoes(g, FuncAt(i.at).seg, i.at, ReturnWords(g, next, TRUE))
         [] i.op \in {"jmp_ind", "jmp_table"} -> GuestGoes(g, g.seg, near, <<>>)
         [] i.op = "call_ind" -> GuestGoes(g, g.seg, near, ReturnWords(g, next, FALSE))
         [] i.op = "ret" -> [g EXCEPT !.at = SegBase(g.seg) + top, !.stack = Drop(@, 1 + i.drop)]
         [] i.op = "retf" -> [g EXCEPT !.seg = below, !.at = SegBase(below) + top,
                                       !.stack = Drop(@, 2 + i.drop)]
         [] i.op = "pushfar" -> GuestGoes(g, g.seg, next, <<Word("data", i.seg), Word("data", i.off)>>)
         [] i.op = "plain" -> [g EXCEPT !.at = next]

----------------------------------------------------------------------------
(* The lifted C.                                                             *)

Nowhere == -1000          \* a stub, or a dispatch that found nothing
Lost(l) == [l EXCEPT !.at = Nowhere]
Enter(l, lin) == [l EXCEPT !.f = FuncAt(lin), !.at = Start(FuncAt(lin))]

\* The project's dispatcher: the lifted function at a segment and offset.
recomp_dispatch(l, seg, off) ==
    IF known(SegBase(seg) + off) THEN Enter(l, SegBase(seg) + off) ELSE Lost(l)

_tail_jump(l, abs_t) ==
    IF known(abs_t) THEN Enter(l, abs_t) ELSE recomp_dispatch(l, abs_t \div Para, abs_t % Para)

\* After an instruction: the next statement, or, behind the last instruction
\* of the function, the explicit tail call.
Onwards(l, f, next) ==
    IF next \in DOMAIN f.code THEN [l EXCEPT !.f = f, !.at = next] ELSE _tail_jump(l, next)

\* A branch: a goto with a poll on the way back, or a tail jump.
Goto(l, target) ==
    [l EXCEPT !.at = l.f.start + target, !.ticked = target <= l.at - l.f.start]
Branch(l, target) == IF target \in valid_addrs(l.f) THEN Goto(l, target)
                                                    ELSE _tail_jump(l, l.f.start + target)

\* Mutant: the count is looked at before it goes down.
Loops_bug(i, cx) == CASE i.op = "loop" -> cx # 0
                      [] i.op = "loopz" -> cx # 0 /\ i.cond
                      [] i.op = "loopnz" -> cx # 0 /\ ~i.cond
                      [] i.op = "jcxz" -> cx = 0
                      [] i.op = "jmp" -> TRUE
                      [] i.op = "jcc" -> i.cond
Loops(i, cx) == CASE i.op = "jmp" -> TRUE
                  [] i.op = "jcc" -> i.cond
                  [] i.op = "loop" -> Dec(cx) # 0
                  [] i.op = "loopz" -> Dec(cx) # 0 /\ i.cond
                  [] i.op = "loopnz" -> Dec(cx) # 0 /\ ~i.cond
                  [] i.op = "jcxz" -> cx = 0

\* A call pushes the sentinel and calls the C function, which comes back to
\* the statement after it.
Frame(l, far) == (IF far THEN <<Word("cs", Absent)>> ELSE <<>>) \o <<Word("ip", Sentinel)>>
Called(l, next, far) ==
    [l EXCEPT !.stack = @ \o Frame(l, far), !.calls = Append(@, [f |-> l.f, next |-> next])]
CallKnown(l, next, far, lin) == IF known(lin) THEN Enter(Called(l, next, far), lin) ELSE Lost(l)

\* The target of a near call, which is brought up when it lies below 0.
NearTarget(t) == IF t < 0 /\ known(t + SegSize) THEN t + SegSize ELSE t
\* The target of a direct far call.
FarTarget(i) ==
    LET lin == i.seg * Para + i.off IN
    IF layout.far_base # Absent THEN layout.far_base + lin
    ELSE IF known(lin - Corr) THEN lin - Corr ELSE HdrSize + lin
jmp_far(l, i) ==
    LET abs_t == i.seg * Para + i.off IN
    IF i.form = "direct" /\ known(abs_t) THEN Enter(l, abs_t) ELSE recomp_dispatch(l, i.seg, i.off)
\* The arms of the table that lie in this function are the cases of a switch
\* over the offset, each at its distance from the segment's paragraph: where
\* the image's bias puts the segment is not counted.
Arm(f, off) == f.seg * Para + off
Switched(f, off) == Arm(f, off) \in layout.arms /\ Arm(f, off) - f.start \in valid_addrs(f)
jmp_table(l, i) ==
    IF Switched(l.f, i.off) THEN [l EXCEPT !.at = Arm(l.f, i.off)]
    ELSE recomp_dispatch(l, l.f.seg, i.off)

\* A C function returns: its caller goes on behind the call.
Return(l, n) ==
    LET c == Last(l.calls)
    IN IF l.calls = <<>> THEN Lost(l)
       ELSE Onwards([l EXCEPT !.stack = Drop(@, n), !.calls = Front(@)], c.f, c.next)
\* A far return whose popped offset is no sentinel is a jump.
retf(l, i) ==
    LET ip == l.stack[Len(l.stack)].v
        cs == l.stack[Len(l.stack) - 1].v
    IN IF ip # Sentinel /\ ip # 0
       THEN recomp_dispatch([l EXCEPT !.stack = Drop(@, 2 + i.drop)], cs, ip)
       ELSE Return(l, 2 + i.drop)

Rel(l, i, len) == l.at - l.f.start + len + i.rel
lift_instruction(l, i, len) ==
    LET next == l.at + len IN
    CASE i.op \in NearOps ->
            LET u == [l EXCEPT !.cx = CxAfter(i, @)] IN
            IF Loops(i, l.cx) THEN Branch(u, Rel(l, i, len)) ELSE Onwards(u, l.f, next)
      [] i.op = "call" -> CallKnown(l, next, FALSE, NearTarget(l.f.start + Rel(l, i, len)))
      [] i.op = "call_far" /\ i.form = "direct" -> CallKnown(l, next, TRUE, FarTarget(i))
      [] i.op = "call_far" /\ i.form = "mem" -> recomp_dispatch(Called(l, next, TRUE), i.seg, i.off)
      [] i.op = "jmp_far" -> jmp_far(l, i)
      [] i.op = "int3f" -> CallKnown(l, next, TRUE, i.at)
      [] i.op = "jmp_ind" -> recomp_dispatch(l, l.f.seg, i.off)
      [] i.op = "jmp_table" -> jmp_table(l, i)
      [] i.op = "call_ind" -> recomp_dispatch(Called(l, next, FALSE), l.f.seg, i.off)
      [] i.op = "ret" -> Return(l, 1 + i.drop)
      [] i.op = "retf" -> retf(l, i)
      [] i.op = "pushfar" -> Onwards([l EXCEPT !.stack = @ \o <<Word("data", i.seg), Word("data", i.off)>>], l.f, next)
      [] i.op = "plain" -> Onwards(l, l.f, next)

----------------------------------------------------------------------------
(* What the guest's program does: a return finds the address its own call    *)
(* pushed, near or far alike, or a far one the pair the program pushed to    *)
(* jump with; nothing returns to offset 0.  A function always runs under one  *)
(* code segment.                                                             *)
Kind(s, n) == IF Len(s) > n THEN s[Len(s) - n].k ELSE "none"
Sound(g, i) ==
    CASE i.op = "ret" -> /\ Kind(g.stack, 0) = "ip" /\ Kind(g.stack, 1) # "cs"
                         /\ Last(lifted.calls).f.seg = g.seg
                         /\ \A n \in 1 .. i.drop : Kind(g.stack, n) = "data"
      [] i.op = "retf" -> /\ \/ Kind(g.stack, 0) = "ip" /\ Kind(g.stack, 1) = "cs"
                             \/ /\ Kind(g.stack, 0) = "data" /\ Kind(g.stack, 1) = "data"
                                /\ Last(g.stack).v # 0
                          /\ \A n \in 2 .. i.drop + 1 : Kind(g.stack, n) = "data"
      [] OTHER -> TRUE

\* The differences that are kept: a near jump, or a call outside the first
\* segment or upwards, that wraps in its segment; a far target guessed wrong,
\* and a direct far jump looked up without the image's bias, as are the
\* addresses a tail jump dispatches and the arms of a jump table.
WrapsWrongly(g, i, len) ==
    LET ip == g.at - SegBase(g.seg) + len
        to == IF i.op \in NearOps \cup {"call"} THEN ip + i.rel ELSE ip
    IN \/ ip \notin Offsets
       \/ to \notin Offsets /\ ~(i.op = "call" /\ to < 0 /\ SegBase(g.seg) = 0)
Misjudged(i) ==
    /\ i.op \in {"call_far", "jmp_far"} /\ i.form = "direct"
    /\ LET lin == IF i.op = "call_far" THEN FarTarget(i) ELSE i.seg * Para + i.off
       IN known(lin) /\ lin # SegBase(i.seg) + i.off
Unbiased(g, i, len) ==
    LET next == g.at + len IN
    layout.bias # 0 /\ \E t \in {next, IF i.op \in NearOps THEN next + i.rel ELSE next} :
                           ~known(t) /\ t \notin DOMAIN lifted.f.code /\ known(layout.bias + t)
WrongArm(i) == i.op = "jmp_table" /\ layout.bias # 0 /\ Switched(lifted.f, i.off)
Known16(g, i, len) == WrapsWrongly(g, i, len) \/ Misjudged(i) \/ Unbiased(g, i, len) \/ WrongArm(i)

OneSegment(g) == known(g.at) => FuncAt(g.at).seg = g.seg

----------------------------------------------------------------------------
Flow16Init ==
    /\ layout \in Layouts
    /\ \E f \in layout.funcs, cx \in 0 .. CxTop - 1 :
         /\ guest = [at |-> Start(f), seg |-> f.seg, cx |-> cx, stack |-> <<>>]
         /\ lifted = [f |-> f, at |-> Start(f), cx |-> cx, stack |-> <<>>, calls |-> <<>>,
                      ticked |-> FALSE]
    /\ back = FALSE

Flow16Step ==
    /\ lifted.at # Nowhere
    /\ LET len == lifted.f.code[lifted.at] IN
       \E i \in Instructions :
         /\ Sound(guest, i) /\ ~Known16(guest, i, len)
         /\ guest' = GuestStep(guest, i, len)
         /\ OneSegment(guest') /\ Len(guest'.stack) <= MaxWords
         /\ lifted' = lift_instruction([lifted EXCEPT !.ticked = FALSE], i, len)
         /\ back' = /\ i.op \in NearOps /\ Taken(i, guest.cx)
                    /\ guest'.at <= guest.at /\ guest'.at \in DOMAIN lifted.f.code
    /\ UNCHANGED layout
Flow16Next == Flow16Step
Flow16Spec == Flow16Init /\ [][Flow16Next]_f16vars

\* The C goes where the program goes, with the same count in cx, as many
\* words on the stack, the same data among them, and one C call under way for
\* every call of the guest; it is lost only where no lifted function begins;
\* and it polls for interrupts on every branch back inside a function.
TransfersAgree ==
    IF lifted.at = Nowhere THEN ~known(guest.at)
    ELSE /\ lifted.at = guest.at /\ lifted.f.seg = guest.seg /\ lifted.cx = guest.cx
         /\ Len(lifted.stack) = Len(guest.stack)
         /\ \A n \in DOMAIN guest.stack :
               guest.stack[n].k = "data" => lifted.stack[n] = guest.stack[n]
         /\ Len(lifted.calls) = Quantify(DOMAIN guest.stack, LAMBDA n : guest.stack[n].k = "ip")
         /\ back => lifted.ticked
=============================================================================
