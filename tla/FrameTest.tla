----------------------------- MODULE FrameTest -----------------------------
(* The stack of the lifted program beside the processor's: pushes of both    *)
(* widths, frames, and calls.  A lifted call is a C call, so its return does *)
(* not look at the return address; the two only stay together because each   *)
(* call pushes a word for it and each return pops one.                       *)
(*                                                                           *)
(* Memory is half words, esp counts them; a full word takes two.             *)
EXTENDS Integers, Sequences

CONSTANTS Base,           \* half words of stack
          MaxCalls,       \* bound: calls in progress
          FrameLength     \* bound: instructions in a program

VARIABLES emitter,        \* "lift32", "lift32_cpu" or "lift16"
          machine,        \* the processor: [esp, ebp, eax, mem]
          guest,          \* the same as the lifted C has it
          frames,         \* C calls in progress, innermost first: [esp, far]
          went,           \* targets of the last indirect call: [real, lifted]
          fran            \* instructions run so far
kvars == <<emitter, machine, guest, frames, went, fran>>

Emitters == {"lift32", "lift32_cpu", "lift16"}
ReturnAddress == 99       \* whatever a call pushes
\* A word is two decimal digits.
Half(v, n) == IF n = 0 THEN v % 10 ELSE (v \div 10) % 10
Word(hi, lo) == hi * 10 + lo
MaxImm == 1

\* The halves of a stack word, an address and a frame pointer: two in 32-bit
\* code, one in 16-bit code.
Unit == IF emitter = "lift16" THEN 1 ELSE 2

Load32(m, p) == Word(m[p + 1], m[p])
Load(m, p, n) == IF n = 2 THEN Load32(m, p) ELSE m[p]
Pushed(s, v, n) ==
    LET p == s.esp - n
    IN [s EXCEPT !.esp = p, !.mem = [q \in DOMAIN @ |-> IF q \in p .. p + n - 1 THEN Half(v, q - p) ELSE @[q]]]
Room(s, n) == s.esp - n >= 0
Held(s, n) == s.esp + n <= Base

\* Every instruction on the processor; push and pop take eax, and pusha stands
\* for the registers eax, esp as it was, and ebp.
Instruction(op, n, s) ==
    CASE op = "push32" -> Pushed(s, s.eax, 2)
      [] op = "push16" -> Pushed(s, s.eax, 1)
      [] op = "pop32" -> [s EXCEPT !.esp = @ + 2, !.eax = Load32(s.mem, s.esp)]
      [] op = "pop16" -> [s EXCEPT !.esp = @ + 1, !.eax = Word(Half(@, 1), s.mem[s.esp])]
      [] op = "enter" -> LET p == Pushed(s, s.ebp, Unit) IN [p EXCEPT !.ebp = p.esp, !.esp = @ - n]
      [] op = "leave" -> [s EXCEPT !.esp = s.ebp + Unit, !.ebp = Load(s.mem, s.ebp, Unit)]
      [] op = "pusha" -> Pushed(Pushed(Pushed(s, s.eax, Unit), s.esp, Unit), s.ebp, Unit)
      [] op = "popa" -> LET a == Load(s.mem, s.esp + 2 * Unit, Unit) IN
            [s EXCEPT !.ebp = Load(s.mem, s.esp, Unit), !.esp = @ + 3 * Unit,
                      !.eax = IF Unit = 2 THEN a ELSE Word(Half(@, 1), a)]
      [] op = "mov" -> [s EXCEPT !.eax = 12]
Takes(op, n) == CASE op = "push32" -> 2 [] op = "push16" -> 1 [] op = "pusha" -> 3 * Unit
                  [] op = "enter" -> Unit + n [] OTHER -> 0
Gives(op) == CASE op = "pop32" -> 2 [] op = "pop16" -> 1 [] op = "popa" -> 3 * Unit [] OTHER -> 0

(* The macros of recomp_types.h (push32 and pop32 of cpu.h are the same) and *)
(* the statements lift32 makes of them.                                      *)
PUSH32(s, v) == LET p == s.esp - 2 IN [s EXCEPT !.esp = p, !.mem = [@ EXCEPT ![p] = v % 10, ![p + 1] = Half(v, 1)]]
PUSH16(s, v) == LET p == s.esp - 1 IN [s EXCEPT !.esp = p, !.mem[p] = v % 10]
POP32_VAL(s) == [s |-> [s EXCEPT !.esp = @ + 2], v |-> Load32(s.mem, s.esp)]
POP16_VAL(s) == [s |-> [s EXCEPT !.esp = @ + 1], v |-> s.mem[s.esp]]

SET_LO16(old, v) == Word(Half(old, 1), v)

PUSHAD(s) == PUSH32(PUSH32(PUSH32(s, s.eax), s.esp), s.ebp)
POPAD(s) == LET x == POP32_VAL(s)
                y == POP32_VAL([x.s EXCEPT !.esp = @ + 2])
            IN [y.s EXCEPT !.ebp = x.v, !.eax = y.v]

LiftedFrame(op, n, s) ==
    CASE op = "push32" -> PUSH32(s, s.eax)
      [] op = "push16" -> PUSH16(s, s.eax)
      [] op = "pop32" -> LET x == POP32_VAL(s) IN [x.s EXCEPT !.eax = x.v]
      [] op = "pop16" -> LET x == POP16_VAL(s) IN [x.s EXCEPT !.eax = SET_LO16(@, x.v)]
      [] op = "enter" -> LET p == PUSH32(s, s.ebp) IN [p EXCEPT !.ebp = p.esp, !.esp = p.esp - n]
      [] op = "leave" -> LET x == POP32_VAL([s EXCEPT !.esp = s.ebp]) IN [x.s EXCEPT !.ebp = x.v]
      [] op = "pusha" -> PUSHAD(s)
      [] op = "popa" -> POPAD(s)
      [] op = "mov" -> [s EXCEPT !.eax = 12]

(* lift16: push16 and pop16 of recomp16/cpu.h, and sp a half word itself.    *)
push16(s, v) == PUSH16(s, v)
pop16(s) == POP16_VAL(s)
Lifted16Frame(op, n, s) ==
    CASE op = "enter" -> LET p == push16(s, s.ebp) IN [p EXCEPT !.ebp = p.esp, !.esp = p.esp - n]
      [] op = "leave" -> LET x == pop16([s EXCEPT !.esp = s.ebp]) IN [x.s EXCEPT !.ebp = x.v]
      [] op = "pusha" -> push16(push16(push16(s, s.eax), s.esp), s.ebp)
      [] op = "popa" -> LET x == pop16(s)
                            y == pop16(pop16(x.s).s)
                        IN [y.s EXCEPT !.ebp = x.v, !.eax = SET_LO16(@, y.v)]
      [] OTHER -> LiftedFrame(op, n, s)

\* lift32_cpu has no 16-bit push or pop, and no pushad: the first moves a full
\* word, the second is a TODO that stops.
FrameKnown(op) == emitter = "lift32_cpu" /\ op \in {"push16", "pop16", "pusha", "popa"}

FrameStart(e) ==
    /\ emitter = e
    /\ machine = [esp |-> Base, ebp |-> Base, eax |-> 34, mem |-> [p \in 0 .. Base |-> 0]]
    /\ guest = machine
    /\ frames = <<>>
    /\ went = [real |-> 0, lifted |-> 0]
    /\ fran = 0

Step(op, n) ==
    /\ fran < FrameLength /\ ~FrameKnown(op)
    /\ Room(machine, Takes(op, n)) /\ Held(machine, Gives(op))
    /\ op = "leave" => /\ machine.ebp + Unit <= Base
                       /\ machine.ebp >= machine.esp
    /\ machine' = Instruction(op, n, machine)
    /\ guest' = IF emitter = "lift16" THEN Lifted16Frame(op, n, guest) ELSE LiftedFrame(op, n, guest)
    /\ fran' = fran + 1
    /\ UNCHANGED <<emitter, frames, went>>

\* The words a call leaves: an offset, above it a segment if it is far.
ReturnSize(far) == IF far THEN 2 ELSE Unit
PushReturn(s, far) ==
    IF emitter = "lift16" /\ ~far THEN push16(s, ReturnAddress)
    ELSE IF emitter = "lift16" THEN push16(push16(s, Half(ReturnAddress, 1)), ReturnAddress)
    ELSE PUSH32(s, ReturnAddress)
Called(far) ==
    /\ fran < FrameLength /\ Len(frames) < MaxCalls /\ Room(machine, ReturnSize(far))
    /\ far => emitter = "lift16"
    /\ machine' = Pushed(machine, ReturnAddress, ReturnSize(far))
    /\ guest' = PushReturn(guest, far)
    /\ frames' = <<[esp |-> machine.esp, far |-> far]>> \o frames
    /\ fran' = fran + 1
    /\ UNCHANGED emitter

\* call: RECOMP_CALL and a resolved RECOMP_ICALL push a dummy return address
\* before the C call, as push32(nxt); dispatch does; lift16 pushes 0xFFFF and,
\* for a far call, cs above it.
Call(far) == Called(far) /\ UNCHANGED went

\* Mutant: push first, then read the target off the stack it has moved.
StackTarget_bug(s) == Load(PushReturn(s, FALSE).mem, PushReturn(s, FALSE).esp, Unit)
\* call [esp]: the operand is read with the esp from before the push.
StackTarget(s) == Load(s.mem, s.esp, Unit)
CallStack ==
    /\ Held(machine, Unit)
    /\ Called(FALSE)
    /\ went' = [real |-> Load(machine.mem, machine.esp, Unit), lifted |-> StackTarget(guest)]

\* ret n and retf n: the processor finds its return address at esp; the C adds
\* its size and n.  lift16's retf pops the two and looks at the offset: the one
\* a call pushed is no address to dispatch to.
Ret(n) ==
    /\ fran < FrameLength /\ frames # <<>>
    /\ LET k == ReturnSize(Head(frames).far) IN
       /\ Held(machine, k + n)
       /\ Load(machine.mem, machine.esp, k) = ReturnAddress % 10 ^ k
       /\ machine.esp + k = Head(frames).esp
       /\ machine' = [machine EXCEPT !.esp = @ + k + n]
       /\ guest' = IF Head(frames).far THEN [pop16(pop16(guest).s).s EXCEPT !.esp = @ + n]
                   ELSE [guest EXCEPT !.esp = @ + k + n]
    /\ frames' = Tail(frames)
    /\ fran' = fran + 1
    /\ UNCHANGED <<emitter, went>>

FrameInit == \E e \in Emitters : FrameStart(e)
FrameNext ==
    \/ \E op \in {"push32", "push16", "pop32", "pop16", "leave", "pusha", "popa", "mov"} : Step(op, 0)
    \/ \E n \in 0 .. MaxImm : Step("enter", n)
    \/ \E far \in BOOLEAN : Call(far)
    \/ CallStack
    \/ \E n \in 0 .. MaxImm : Ret(n)
FrameSpec == FrameInit /\ [][FrameNext]_kvars

\* After any program of pushes, pops, frames and calls the lifted stack is the
\* processor's: the same esp, ebp, eax and memory, and an indirect call through
\* the stack went where the processor goes (lift32.py:692-699, a pop of 16 bits
\* that replaced the whole of ebp handed leave a truncated esp).
StackAgrees == guest = machine /\ went.lifted = went.real
=============================================================================
