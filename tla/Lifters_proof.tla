---------------------------- MODULE Lifters_proof ----------------------------
(* Two of the lifters' differential tests hold of every program, and not only *)
(* of the short ones TLC runs.                                                *)
(*                                                                            *)
(* The frame half: pushes, pops, enter, leave, calls and returns leave the    *)
(* guest's stack as the processor does, in every emitter, for a stack of any  *)
(* size (FrameInv: the two machines are one, and esp never leaves the stack). *)
(*                                                                            *)
(* The x87 half: the window whose top is slot 0 and the ring that grows       *)
(* downwards are one register stack (Stacked), written, pushed and popped the *)
(* same way, for any number of registers and whatever the numbers in them     *)
(* are.  A ring that begins empty at 0 never wraps: its top is Slots - depth. *)
EXTENDS LifterBench, SequenceTheorems, TLAPS

----------------------------------------------------------------------------
\* Memory and the three registers of a frame program.

Machines == [esp : Int, ebp : Int, eax : Int, mem : [0 .. Base -> Int]]

LEMMA SameMachine ==
  ASSUME NEW s \in Machines, NEW t \in Machines,
         s.esp = t.esp, s.ebp = t.ebp, s.eax = t.eax, s.mem = t.mem
  PROVE  s = t
  BY DEF Machines

LEMMA MachineParts ==
  ASSUME NEW s \in Machines
  PROVE  /\ s.esp \in Int /\ s.ebp \in Int /\ s.eax \in Int
         /\ s.mem \in [0 .. Base -> Int] /\ DOMAIN s.mem = 0 .. Base
  BY DEF Machines

LEMMA HalfType ==
  ASSUME NEW n \in Int, NEW i
  PROVE  Frm!Half(n, i) \in Int
  BY DEF Frm!Half

\* What a push of k half words leaves at q of memory.
Filled(s, n, k, q) == IF q \in s.esp - k .. s.esp - 1 THEN Frm!Half(n, q - (s.esp - k)) ELSE s.mem[q]

LEMMA FilledType ==
  ASSUME NEW s \in Machines, NEW n \in Int, NEW k \in Int, NEW q \in 0 .. Base
  PROVE  Filled(s, n, k, q) \in Int
  BY HalfType, MachineParts DEF Filled

LEMMA PushedFields ==
  ASSUME NEW s \in Machines, NEW n \in Int, NEW k \in {1, 2},
         NEW t, t = Frm!Pushed(s, n, k)
  PROVE  /\ t \in Machines
         /\ t.esp = s.esp - k /\ t.ebp = s.ebp /\ t.eax = s.eax
         /\ t.mem = [q \in 0 .. Base |-> Filled(s, n, k, q)]
  <1> DEFINE p == s.esp - k
             m == [q \in DOMAIN s.mem |-> IF q \in p .. p + k - 1 THEN Frm!Half(n, q - p) ELSE s.mem[q]]
             f == [q \in 0 .. Base |-> Filled(s, n, k, q)]
  <1>1. s.esp \in Int /\ p \in Int /\ DOMAIN s.mem = 0 .. Base
    BY MachineParts
  <1>2. p + k - 1 = s.esp - 1
    BY <1>1
  <1>3. t = [s EXCEPT !.esp = p, !.mem = m]
    BY Zenon DEF Frm!Pushed
  <1>4. m = f
    BY <1>1, <1>2, Zenon DEF Filled
  <1>5. f \in [0 .. Base -> Int]
    BY FilledType, <1>1
  <1>6. t = [s EXCEPT !.esp = p, !.mem = f]
    BY <1>3, <1>4, Zenon
  <1> HIDE DEF f, p
  <1>7. /\ t \in Machines
        /\ t.esp = p /\ t.ebp = s.ebp /\ t.eax = s.eax /\ t.mem = f
    BY <1>1, <1>5, <1>6 DEF Machines
  <1>8. QED
    BY <1>7, Zenon DEF p, f

\* One pushed half or full word is stored as the processor stores it.
LEMMA Stores ==
  ASSUME NEW s \in Machines, NEW n \in Int, NEW k \in {1, 2},
         NEW m \in [0 .. Base -> Int],
         \A q \in 0 .. Base : m[q] = Filled(s, n, k, q),
         NEW x, x = [s EXCEPT !.esp = s.esp - k, !.mem = m]
  PROVE  x = Frm!Pushed(s, n, k)
  <1>1. PICK t : t = Frm!Pushed(s, n, k)
    OBVIOUS
  <1>2. /\ t \in Machines
        /\ t.esp = s.esp - k /\ t.ebp = s.ebp /\ t.eax = s.eax
        /\ t.mem = [q \in 0 .. Base |-> Filled(s, n, k, q)]
    BY <1>1, PushedFields
  <1>3. t.mem = m
    BY <1>2
  <1>4. PICK e : e = s.esp - k /\ e \in Int
    BY MachineParts
  <1>5. /\ x \in Machines /\ x.esp = s.esp - k /\ x.ebp = s.ebp /\ x.eax = s.eax /\ x.mem = m
    <2>1. x = [s EXCEPT !.esp = e, !.mem = m]
      BY <1>4
    <2>2. QED
      BY <2>1, <1>4 DEF Machines
  <1>6. x = t
    BY <1>2, <1>3, <1>5, SameMachine
  <1>7. QED
    BY <1>1, <1>6

\* Memory with one place written.
LEMMA Written ==
  ASSUME NEW A, NEW B, NEW g \in [A -> B], NEW e, NEW x \in B,
         NEW m, m = [g EXCEPT ![e] = x]
  PROVE  m \in [A -> B] /\ \A q \in A : m[q] = IF q = e THEN x ELSE g[q]
  OBVIOUS

LEMMA PushesHalf ==
  ASSUME NEW s \in Machines, NEW n \in Int
  PROVE  Frm!PUSH16(s, n) = Frm!Pushed(s, n, 1)
  <1>1. PICK e, g : e = s.esp - 1 /\ g = s.mem /\ e \in Int /\ g \in [0 .. Base -> Int]
    BY MachineParts
  <1>2. PICK m : m = [g EXCEPT ![e] = n % 10]
    OBVIOUS
  <1>3. m \in [0 .. Base -> Int] /\ \A q \in 0 .. Base : m[q] = IF q = e THEN n % 10 ELSE g[q]
    <2>1. n % 10 \in Int
      OBVIOUS
    <2>2. QED
      BY <1>1, <1>2, <2>1, Written, Zenon
  <1>4. \A q \in 0 .. Base : m[q] = Filled(s, n, 1, q)
    BY <1>1, <1>3, MachineParts DEF Filled, Frm!Half
  <1>5. Frm!PUSH16(s, n) = [s EXCEPT !.esp = s.esp - 1, !.mem = m]
    BY <1>1, <1>2, Zenon DEF Frm!PUSH16
  <1>6. QED
    BY <1>3, <1>4, <1>5, Stores

LEMMA PushesFull ==
  ASSUME NEW s \in Machines, NEW n \in Int
  PROVE  Frm!PUSH32(s, n) = Frm!Pushed(s, n, 2)
  <1>1. PICK e, g, hi : /\ e = s.esp - 2 /\ g = s.mem /\ hi = Frm!Half(n, 1)
                        /\ e \in Int /\ g \in [0 .. Base -> Int] /\ hi \in Int
    BY MachineParts, HalfType
  <1>2. PICK h, m : h = [g EXCEPT ![e] = n % 10] /\ m = [h EXCEPT ![e + 1] = hi]
    OBVIOUS
  <1>3. /\ m \in [0 .. Base -> Int]
        /\ \A q \in 0 .. Base : m[q] = IF q = e + 1 THEN hi ELSE IF q = e THEN n % 10 ELSE g[q]
    <2>1. n % 10 \in Int
      OBVIOUS
    <2>2. h \in [0 .. Base -> Int] /\ \A q \in 0 .. Base : h[q] = IF q = e THEN n % 10 ELSE g[q]
      BY <1>1, <1>2, <2>1, Written, Zenon
    <2>3. m \in [0 .. Base -> Int] /\ \A q \in 0 .. Base : m[q] = IF q = e + 1 THEN hi ELSE h[q]
      BY <1>1, <1>2, <2>2, Written, Zenon
    <2>4. QED
      BY <2>2, <2>3
  <1>4. \A q \in 0 .. Base : m[q] = Filled(s, n, 2, q)
    BY <1>1, <1>3, MachineParts DEF Filled, Frm!Half
  <1>5. Frm!PUSH32(s, n) = [s EXCEPT !.esp = s.esp - 2, !.mem = m]
    BY <1>1, <1>2, Zenon DEF Frm!PUSH32
  <1>6. QED
    BY <1>3, <1>4, <1>5, Stores

----------------------------------------------------------------------------
\* What the frame instructions do, one by one.

Stacks == {s \in Machines : s.esp \in 0 .. Base}
\* The lifted instruction as its emitter has it.
FrameDone(op, n, s) == IF emitter = "lift16" THEN Frm!Lifted16Frame(op, n, s) ELSE Frm!LiftedFrame(op, n, s)

LEMMA LoadType ==
  ASSUME NEW s \in Machines, NEW p, NEW k \in {1, 2}, p \in 0 .. Base, p + k - 1 \in 0 .. Base
  PROVE  Frm!Load(s.mem, p, k) \in Int
  BY MachineParts, BenchAssumption DEF Frm!Load, Frm!Load32, Frm!Word

LEMMA PushesOnto ==
  ASSUME NEW s \in Machines, NEW n \in Int, NEW k \in {1, 2}
  PROVE  Frm!Pushed(s, n, k) \in Machines /\ Frm!Pushed(s, n, k).esp = s.esp - k
  <1>1. PICK t : t = Frm!Pushed(s, n, k)
    OBVIOUS
  <1>2. /\ t \in Machines
        /\ t.esp = s.esp - k /\ t.ebp = s.ebp /\ t.eax = s.eax
        /\ t.mem = [q \in 0 .. Base |-> Filled(s, n, k, q)]
    BY <1>1, PushedFields
  <1>3. QED
    BY <1>1, <1>2

\* A machine with other registers.
LEMMA Loaded ==
  ASSUME NEW s \in Machines, NEW e \in 0 .. Base, NEW x \in Int
  PROVE  [s EXCEPT !.esp = e, !.eax = x] \in Stacks /\ [s EXCEPT !.esp = e, !.ebp = x] \in Stacks
  <1>1. e \in Int
    BY BenchAssumption
  <1>2. [s EXCEPT !.esp = e, !.eax = x] \in Machines /\ [s EXCEPT !.esp = e, !.ebp = x] \in Machines
    BY <1>1 DEF Machines
  <1>3. [s EXCEPT !.esp = e, !.eax = x].esp = e /\ [s EXCEPT !.esp = e, !.ebp = x].esp = e
    BY DEF Machines
  <1>4. QED
    BY <1>2, <1>3 DEF Stacks

LEMMA PushOp ==
  ASSUME NEW s \in Stacks, NEW n, NEW op \in {"push32", "push16"},
         Frm!Room(s, Frm!Takes(op, n))
  PROVE  FrameDone(op, n, s) = Frm!Instruction(op, n, s) /\ Frm!Instruction(op, n, s) \in Stacks
  <1>1. s \in Machines /\ s.eax \in Int /\ s.esp \in 0 .. Base
    BY BenchAssumption, MachineParts DEF Stacks
  <1>2. CASE op = "push32"
    <2>1. FrameDone(op, n, s) = Frm!PUSH32(s, s.eax)
      BY <1>2 DEF FrameDone, Frm!Lifted16Frame, Frm!LiftedFrame
    <2>2. Frm!Instruction(op, n, s) = Frm!Pushed(s, s.eax, 2)
      BY <1>2 DEF Frm!Instruction
    <2>3. s.esp - 2 >= 0
      BY BenchAssumption, <1>2 DEF Frm!Room, Frm!Takes
    <2>4. Frm!Pushed(s, s.eax, 2) \in Machines /\ Frm!Pushed(s, s.eax, 2).esp = s.esp - 2
      BY <1>1, PushesOnto
    <2>5. s.esp - 2 \in 0 .. Base
      BY BenchAssumption, <1>1, <2>3
    <2>6. QED
      BY <1>1, <2>1, <2>2, <2>4, <2>5, PushesFull DEF Stacks
  <1>3. CASE op = "push16"
    <2>1. FrameDone(op, n, s) = Frm!PUSH16(s, s.eax)
      BY <1>3 DEF FrameDone, Frm!Lifted16Frame, Frm!LiftedFrame
    <2>2. Frm!Instruction(op, n, s) = Frm!Pushed(s, s.eax, 1)
      BY <1>3 DEF Frm!Instruction
    <2>3. s.esp - 1 >= 0
      BY BenchAssumption, <1>3 DEF Frm!Room, Frm!Takes
    <2>4. Frm!Pushed(s, s.eax, 1) \in Machines /\ Frm!Pushed(s, s.eax, 1).esp = s.esp - 1
      BY <1>1, PushesOnto
    <2>5. s.esp - 1 \in 0 .. Base
      BY BenchAssumption, <1>1, <2>3
    <2>6. QED
      BY <1>1, <2>1, <2>2, <2>4, <2>5, PushesHalf DEF Stacks
  <1>4. QED
    BY <1>2, <1>3

LEMMA PopOp ==
  ASSUME NEW s \in Stacks, NEW n, NEW op \in {"pop32", "pop16", "mov"},
         Frm!Held(s, Frm!Gives(op))
  PROVE  FrameDone(op, n, s) = Frm!Instruction(op, n, s) /\ Frm!Instruction(op, n, s) \in Stacks
  <1>1. s \in Machines /\ s.eax \in Int /\ s.esp \in 0 .. Base /\ s.mem \in [0 .. Base -> Int]
    BY BenchAssumption, MachineParts DEF Stacks
  <1>2. CASE op = "pop32"
    <2>1. FrameDone(op, n, s) = Frm!Instruction(op, n, s)
      BY <1>2 DEF FrameDone, Frm!Lifted16Frame, Frm!LiftedFrame, Frm!Instruction, Frm!POP32_VAL
    <2>2. s.esp + 2 <= Base
      BY <1>2 DEF Frm!Held, Frm!Gives
    <2>3. PICK x, e : x = Frm!Load32(s.mem, s.esp) /\ e = s.esp + 2
      OBVIOUS
    <2>4. e \in 0 .. Base
      BY BenchAssumption, <1>1, <2>2, <2>3
    <2>5. s.esp + 2 - 1 \in 0 .. Base
      BY BenchAssumption, <1>1, <2>2
    <2>6. Frm!Load(s.mem, s.esp, 2) \in Int
      BY <1>1, <2>5, LoadType
    <2>7. x \in Int
      BY <2>3, <2>6 DEF Frm!Load
    <2>8. Frm!Instruction(op, n, s) = [s EXCEPT !.esp = e, !.eax = x]
      BY <1>2, <2>3 DEF Frm!Instruction
    <2>9. [s EXCEPT !.esp = e, !.eax = x] \in Stacks
      BY <1>1, <2>4, <2>7, Loaded, Zenon
    <2>10. QED
      BY <2>1, <2>8, <2>9
  <1>3. CASE op = "pop16"
    <2>1. FrameDone(op, n, s) = Frm!Instruction(op, n, s)
      BY <1>3 DEF FrameDone, Frm!Lifted16Frame, Frm!LiftedFrame, Frm!Instruction, Frm!POP16_VAL, Frm!SET_LO16
    <2>2. s.esp + 1 <= Base
      BY <1>3 DEF Frm!Held, Frm!Gives
    <2>3. PICK x, e : x = Frm!Word(Frm!Half(s.eax, 1), s.mem[s.esp]) /\ e = s.esp + 1
      OBVIOUS
    <2>4. e \in 0 .. Base
      BY BenchAssumption, <1>1, <2>2, <2>3
    <2>5. Frm!Half(s.eax, 1) \in Int /\ s.mem[s.esp] \in Int
      BY <1>1, HalfType
    <2>6. x \in Int
      BY <2>3, <2>5 DEF Frm!Word
    <2>7. Frm!Instruction(op, n, s) = [s EXCEPT !.esp = e, !.eax = x]
      BY <1>3, <2>3 DEF Frm!Instruction
    <2>8. [s EXCEPT !.esp = e, !.eax = x] \in Stacks
      BY <1>1, <2>4, <2>6, Loaded, Zenon
    <2>9. QED
      BY <2>1, <2>7, <2>8
  <1>4. CASE op = "mov"
    <2>1. FrameDone(op, n, s) = Frm!Instruction(op, n, s)
      BY <1>4 DEF FrameDone, Frm!Lifted16Frame, Frm!LiftedFrame, Frm!Instruction
    <2>2. Frm!Instruction(op, n, s) = [s EXCEPT !.eax = 12]
      BY <1>4 DEF Frm!Instruction
    <2>3. QED
      BY BenchAssumption, <1>1, <2>1, <2>2 DEF Stacks, Machines
  <1>5. QED
    BY <1>2, <1>3, <1>4

LEMMA EnterOp ==
  ASSUME NEW s \in Stacks, NEW n \in Nat, Frm!Room(s, Frm!Takes("enter", n))
  PROVE  /\ FrameDone("enter", n, s) = Frm!Instruction("enter", n, s)
         /\ Frm!Instruction("enter", n, s) \in Stacks
  <1>1. s \in Machines /\ s.ebp \in Int /\ s.esp \in 0 .. Base
    BY BenchAssumption, MachineParts DEF Stacks
  <1>2. PICK k \in {1, 2} : k = Frm!Unit /\ (k = 2 <=> emitter # "lift16")
    BY DEF Frm!Unit
  <1>3. PICK p : p = Frm!Pushed(s, s.ebp, k)
    OBVIOUS
  <1>4. p \in Machines /\ p.esp = s.esp - k
    BY <1>1, <1>3, PushesOnto
  <1>5. Frm!Instruction("enter", n, s) = [p EXCEPT !.ebp = p.esp, !.esp = @ - n]
    BY <1>2, <1>3 DEF Frm!Instruction
  <1>6. FrameDone("enter", n, s) = [p EXCEPT !.ebp = p.esp, !.esp = p.esp - n]
    <2>1. CASE k = 2
      BY <1>1, <1>2, <1>3, <2>1, PushesFull DEF FrameDone, Frm!LiftedFrame
    <2>2. CASE k = 1
      <3>1. Frm!push16(s, s.ebp) = p
        BY <1>1, <1>3, <2>2, PushesHalf DEF Frm!push16
      <3>2. FrameDone("enter", n, s) = Frm!Lifted16Frame("enter", n, s)
        BY <1>2, <2>2 DEF FrameDone
      <3>3. QED
        BY <3>1, <3>2 DEF Frm!Lifted16Frame
    <2>3. QED
      BY <2>1, <2>2
  <1>7. PICK e : e = p.esp - n /\ e \in 0 .. Base /\ p.esp \in Int
    BY BenchAssumption, <1>1, <1>2, <1>4 DEF Frm!Room, Frm!Takes
  <1>8. Frm!Instruction("enter", n, s) = [p EXCEPT !.ebp = p.esp, !.esp = e]
    BY <1>4, <1>5, <1>7 DEF Machines
  <1>9. PICK b : b = p.esp /\ b \in Int
    BY <1>7
  <1>10. [p EXCEPT !.esp = e, !.ebp = b] \in Stacks
    BY <1>4, <1>7, <1>9, Loaded, Zenon
  <1>11. [p EXCEPT !.ebp = b, !.esp = e] = [p EXCEPT !.esp = e, !.ebp = b]
    BY <1>4, <1>7, <1>9, BenchAssumption DEF Machines
  <1>12. QED
    BY <1>6, <1>7, <1>8, <1>9, <1>10, <1>11

LEMMA LeaveOp ==
  ASSUME NEW s \in Stacks, NEW n, s.ebp + Frm!Unit <= Base, s.ebp >= s.esp
  PROVE  /\ FrameDone("leave", n, s) = Frm!Instruction("leave", n, s)
         /\ Frm!Instruction("leave", n, s) \in Stacks
  <1>1. s \in Machines /\ s.ebp \in Int /\ s.esp \in 0 .. Base
    BY BenchAssumption, MachineParts DEF Stacks
  <1>2. PICK k \in {1, 2} : k = Frm!Unit /\ (k = 2 <=> emitter # "lift16")
    BY DEF Frm!Unit
  <1>3. PICK x, e : x = Frm!Load(s.mem, s.ebp, k) /\ x \in Int /\ e = s.ebp + k /\ e \in 0 .. Base
    <2>1. s.ebp \in 0 .. Base /\ s.ebp + k - 1 \in 0 .. Base /\ s.ebp + k \in 0 .. Base
      BY BenchAssumption, <1>1, <1>2
    <2>2. Frm!Load(s.mem, s.ebp, k) \in Int
      BY <1>1, <2>1, LoadType
    <2>3. QED
      BY <2>1, <2>2
  <1>4. PICK b : b = s.ebp /\ b \in Int
    BY <1>1
  <1>5. PICK t : t = [s EXCEPT !.esp = b]
    OBVIOUS
  <1>6. t \in Machines /\ t.esp = b /\ t.mem = s.mem /\ t.ebp = b /\ t.eax = s.eax
    BY <1>1, <1>4, <1>5 DEF Machines
  <1>7. FrameDone("leave", n, s) = [t EXCEPT !.esp = @ + k, !.ebp = x]
    <2>1. CASE k = 2
      BY <1>2, <1>3, <1>4, <1>5, <1>6, <2>1 DEF FrameDone, Frm!LiftedFrame, Frm!POP32_VAL, Frm!Load
    <2>2. CASE k = 1
      BY <1>2, <1>3, <1>4, <1>5, <1>6, <2>2 DEF FrameDone, Frm!Lifted16Frame, Frm!pop16, Frm!POP16_VAL, Frm!Load
    <2>3. QED
      BY <2>1, <2>2
  <1>8. Frm!Instruction("leave", n, s) = [s EXCEPT !.esp = e, !.ebp = x]
    BY <1>2, <1>3 DEF Frm!Instruction
  <1>9. [t EXCEPT !.esp = @ + k, !.ebp = x] = [t EXCEPT !.esp = e, !.ebp = x]
    BY <1>3, <1>4, <1>6 DEF Machines
  <1>10. [t EXCEPT !.esp = e, !.ebp = x] = [s EXCEPT !.esp = e, !.ebp = x]
    BY <1>1, <1>3, <1>6 DEF Machines
  <1>11. [s EXCEPT !.esp = e, !.ebp = x] \in Stacks
    BY <1>1, <1>3, Loaded, Zenon
  <1>12. QED
    BY BenchAssumption, <1>7, <1>8, <1>9, <1>10, <1>11

LEMMA PushaOp ==
  ASSUME NEW s \in Stacks, NEW n, Frm!Room(s, Frm!Takes("pusha", n))
  PROVE  /\ FrameDone("pusha", n, s) = Frm!Instruction("pusha", n, s)
         /\ Frm!Instruction("pusha", n, s) \in Stacks
  <1>1. s \in Machines /\ s.ebp \in Int /\ s.eax \in Int /\ s.esp \in 0 .. Base /\ s.esp \in Int
    BY BenchAssumption, MachineParts DEF Stacks
  <1>2. PICK k \in {1, 2} : k = Frm!Unit /\ (k = 2 <=> emitter # "lift16")
    BY DEF Frm!Unit
  <1>3. PICK p : p = Frm!Pushed(s, s.eax, k)
    OBVIOUS
  <1>4. PICK q : q = Frm!Pushed(p, s.esp, k)
    OBVIOUS
  <1>5. PICK r : r = Frm!Pushed(q, s.ebp, k)
    OBVIOUS
  <1>6. p \in Machines /\ p.esp = s.esp - k
    BY <1>1, <1>3, PushesOnto
  <1>7. q \in Machines /\ q.esp = p.esp - k
    BY <1>1, <1>4, <1>6, PushesOnto
  <1>8. r \in Machines /\ r.esp = q.esp - k
    BY <1>1, <1>5, <1>7, PushesOnto
  <1>9. Frm!Instruction("pusha", n, s) = r
    BY <1>2, <1>3, <1>4, <1>5 DEF Frm!Instruction
  <1>10. FrameDone("pusha", n, s) = r
    <2>1. CASE k = 2
      BY <1>1, <1>2, <1>3, <1>4, <1>5, <1>6, <1>7, <2>1, PushesFull DEF FrameDone, Frm!LiftedFrame, Frm!PUSHAD
    <2>2. CASE k = 1
      BY <1>1, <1>2, <1>3, <1>4, <1>5, <1>6, <1>7, <2>2, PushesHalf DEF FrameDone, Frm!Lifted16Frame, Frm!push16
    <2>3. QED
      BY <2>1, <2>2
  <1>11. s.esp - 3 * k >= 0
    BY BenchAssumption, <1>2 DEF Frm!Room, Frm!Takes
  <1>12. QED
    BY BenchAssumption, <1>1, <1>6, <1>7, <1>8, <1>9, <1>10, <1>11 DEF Stacks

\* The registers popa takes up, in the order the emitters take them.
LEMMA PopaOp ==
  ASSUME NEW s \in Stacks, NEW n, Frm!Held(s, Frm!Gives("popa"))
  PROVE  /\ FrameDone("popa", n, s) = Frm!Instruction("popa", n, s)
         /\ Frm!Instruction("popa", n, s) \in Stacks
  <1>1. s \in Machines /\ s.eax \in Int /\ s.esp \in 0 .. Base /\ s.esp \in Int
    BY BenchAssumption, MachineParts DEF Stacks
  <1>2. PICK k \in {1, 2} : k = Frm!Unit /\ (k = 2 <=> emitter # "lift16")
    BY DEF Frm!Unit
  <1>3. s.esp + 3 * k <= Base
    BY <1>2 DEF Frm!Held, Frm!Gives
  <1>4. PICK e, b, v0 : e = s.esp + 3 * k /\ b = Frm!Load(s.mem, s.esp, k) /\ v0 = Frm!Load(s.mem, s.esp + 2 * k, k)
    OBVIOUS
  <1>5. e \in 0 .. Base /\ e \in Int
    BY BenchAssumption, <1>1, <1>3, <1>4
  <1>6. b \in Int /\ v0 \in Int
    <2>1. s.esp + k - 1 \in 0 .. Base /\ s.esp + 2 * k \in 0 .. Base /\ s.esp + 2 * k + k - 1 \in 0 .. Base
      BY BenchAssumption, <1>1, <1>3
    <2>2. QED
      BY <1>1, <1>4, <2>1, LoadType
  <1>7. PICK a : a = IF k = 2 THEN v0 ELSE Frm!Word(Frm!Half(s.eax, 1), v0)
    OBVIOUS
  <1>8. a \in Int
    BY <1>1, <1>6, <1>7, HalfType DEF Frm!Word
  <1>9. Frm!Instruction("popa", n, s) = [s EXCEPT !.ebp = b, !.esp = e, !.eax = a]
    <2>1. Frm!Instruction("popa", n, s) = [s EXCEPT !.ebp = b, !.esp = @ + 3 * k,
                      !.eax = IF k = 2 THEN v0 ELSE Frm!Word(Frm!Half(@, 1), v0)]
      BY <1>2, <1>4 DEF Frm!Instruction
    <2>2. QED
      BY <1>1, <1>4, <1>5, <1>7, <2>1 DEF Machines
  <1>10. FrameDone("popa", n, s) = [s EXCEPT !.esp = e, !.ebp = b, !.eax = a]
    <2>1. CASE k = 2
      <3>1. PICK x : x = Frm!POP32_VAL(s)
        OBVIOUS
      <3>2. x.s = [s EXCEPT !.esp = s.esp + 2] /\ x.v = b
        BY <1>4, <2>1, <3>1 DEF Frm!POP32_VAL, Frm!Load
      <3>3. PICK u : u = [x.s EXCEPT !.esp = @ + 2]
        OBVIOUS
      <3>4. u \in Machines /\ u.esp = s.esp + 4 /\ u.ebp = s.ebp /\ u.eax = s.eax /\ u.mem = s.mem
        <4>1. PICK c, d : c = s.esp + 2 /\ d = s.esp + 4
          OBVIOUS
        <4> c \in Int /\ d \in Int /\ c + 2 = d
          BY <1>1, <4>1
        <4>2. PICK w : w = [s EXCEPT !.esp = c]
          OBVIOUS
        <4>3. w \in Machines /\ w.esp = c /\ w.ebp = s.ebp /\ w.eax = s.eax /\ w.mem = s.mem
          BY <1>1, <4>1, <4>2 DEF Machines
        <4>4. u = [w EXCEPT !.esp = d]
          BY <3>2, <3>3, <4>1, <4>2, <4>3
        <4>5. u \in Machines /\ u.esp = d /\ u.ebp = w.ebp /\ u.eax = w.eax /\ u.mem = w.mem
          BY <4>1, <4>3, <4>4 DEF Machines
        <4>6. QED
          BY <4>1, <4>3, <4>5
      <3>5. PICK y : y = Frm!POP32_VAL(u)
        OBVIOUS
      <3>6. y.s = [u EXCEPT !.esp = u.esp + 2] /\ y.v = Frm!Load32(u.mem, u.esp)
        BY <3>5 DEF Frm!POP32_VAL
      <3>7. y.v = a
        BY <1>4, <1>7, <2>1, <3>4, <3>6 DEF Frm!Load
      <3>8. y.s = [s EXCEPT !.esp = e]
        <4>1. u.esp + 2 = e
          BY <1>1, <1>4, <2>1, <3>4
        <4>2. QED
          BY <1>1, <1>5, <3>4, <3>6, <4>1 DEF Machines
      <3>9. FrameDone("popa", n, s) = Frm!POPAD(s)
        BY <1>2, <2>1 DEF FrameDone, Frm!LiftedFrame
      <3>10. Frm!POPAD(s) = [y.s EXCEPT !.ebp = x.v, !.eax = y.v]
        BY <3>1, <3>3, <3>5 DEF Frm!POPAD
      <3>11. QED
        BY <3>2, <3>7, <3>8, <3>9, <3>10
    <2>2. CASE k = 1
      <3>1. PICK x : x = Frm!pop16(s)
        OBVIOUS
      <3>2. x.s = [s EXCEPT !.esp = s.esp + 1] /\ x.v = b
        BY <1>4, <2>2, <3>1 DEF Frm!pop16, Frm!POP16_VAL, Frm!Load
      <3>3. PICK u : u = Frm!pop16(x.s).s
        OBVIOUS
      <3>4. u = [x.s EXCEPT !.esp = @ + 1]
        BY <3>3 DEF Frm!pop16, Frm!POP16_VAL
      <3>5. u \in Machines /\ u.esp = s.esp + 2 /\ u.ebp = s.ebp /\ u.eax = s.eax /\ u.mem = s.mem
        <4>1. PICK c, d : c = s.esp + 1 /\ d = s.esp + 2
          OBVIOUS
        <4> c \in Int /\ d \in Int /\ c + 1 = d
          BY <1>1, <4>1
        <4>2. PICK w : w = [s EXCEPT !.esp = c]
          OBVIOUS
        <4>3. w \in Machines /\ w.esp = c /\ w.ebp = s.ebp /\ w.eax = s.eax /\ w.mem = s.mem
          BY <1>1, <4>1, <4>2 DEF Machines
        <4>4. u = [w EXCEPT !.esp = d]
          BY <3>2, <3>4, <4>1, <4>2, <4>3
        <4>5. u \in Machines /\ u.esp = d /\ u.ebp = w.ebp /\ u.eax = w.eax /\ u.mem = w.mem
          BY <4>1, <4>3, <4>4 DEF Machines
        <4>6. QED
          BY <4>1, <4>3, <4>5
      <3>6. PICK y : y = Frm!pop16(u)
        OBVIOUS
      <3>7. y.s = [u EXCEPT !.esp = u.esp + 1] /\ y.v = u.mem[u.esp]
        BY <3>6 DEF Frm!pop16, Frm!POP16_VAL
      <3>8. y.v = v0
        BY <1>1, <1>4, <2>2, <3>5, <3>7 DEF Frm!Load
      <3>9. y.s = [s EXCEPT !.esp = e]
        <4>1. u.esp + 1 = e
          BY <1>1, <1>4, <2>2, <3>5
        <4>2. QED
          BY <1>1, <1>5, <3>5, <3>7, <4>1 DEF Machines
      <3>10. FrameDone("popa", n, s) = Frm!Lifted16Frame("popa", n, s)
        BY <1>2, <2>2 DEF FrameDone
      <3>11. Frm!Lifted16Frame("popa", n, s) = [y.s EXCEPT !.ebp = x.v, !.eax = Frm!SET_LO16(@, y.v)]
        BY <3>1, <3>3, <3>6 DEF Frm!Lifted16Frame
      <3>12. [y.s EXCEPT !.ebp = x.v].eax = s.eax
        BY <1>1, <3>9 DEF Machines
      <3>13. Frm!SET_LO16(s.eax, v0) = a
        BY <1>7, <2>2 DEF Frm!SET_LO16
      <3>14. QED
        BY <3>2, <3>8, <3>9, <3>10, <3>11, <3>12, <3>13
    <2>3. QED
      BY <2>1, <2>2
  <1>11. [s EXCEPT !.ebp = b, !.esp = e, !.eax = a] = [s EXCEPT !.esp = e, !.ebp = b, !.eax = a]
    BY <1>1, <1>5, <1>6, <1>8 DEF Machines
  <1>12. [s EXCEPT !.esp = e, !.ebp = b, !.eax = a] \in Stacks
    <2>1. PICK t : t = [s EXCEPT !.esp = e, !.ebp = b, !.eax = a]
      OBVIOUS
    <2>2. t \in Machines /\ t.esp = e
      BY <1>1, <1>5, <1>6, <1>8, <2>1 DEF Machines
    <2>3. QED
      BY <1>5, <2>1, <2>2 DEF Stacks
  <1>13. QED
    BY <1>9, <1>10, <1>11, <1>12

----------------------------------------------------------------------------
\* Steps: instructions, calls and returns.

FrameInv == machine \in Stacks /\ guest = machine /\ went.lifted = went.real

LEMMA FrameStarts ==
  ASSUME NEW e, Frm!FrameStart(e)
  PROVE  FrameInv
  <1>1. machine = [esp |-> Base, ebp |-> Base, eax |-> 34, mem |-> [p \in 0 .. Base |-> 0]]
    BY DEF Frm!FrameStart
  <1>2. machine \in Machines /\ machine.esp = Base
    BY <1>1, BenchAssumption DEF Machines
  <1>3. machine \in Stacks
    BY <1>2, BenchAssumption DEF Stacks
  <1>4. QED
    BY <1>3 DEF FrameInv, Frm!FrameStart

LEMMA FrameInstruction ==
  ASSUME FrameInv, NEW op, NEW n,
         \/ op \in {"push32", "push16", "pop32", "pop16", "leave", "pusha", "popa", "mov"} /\ n = 0
         \/ op = "enter" /\ n \in 0 .. Frm!MaxImm,
         Frm!Step(op, n)
  PROVE  FrameInv'
  <1>1. machine \in Stacks /\ guest = machine
    BY DEF FrameInv
  <1>2. /\ machine' = Frm!Instruction(op, n, machine)
        /\ guest' = FrameDone(op, n, guest)
        /\ went' = went
    BY DEF Frm!Step, FrameDone
  <1>3. Frm!Room(machine, Frm!Takes(op, n)) /\ Frm!Held(machine, Frm!Gives(op))
    BY DEF Frm!Step
  <1>4. FrameDone(op, n, machine) = Frm!Instruction(op, n, machine) /\ Frm!Instruction(op, n, machine) \in Stacks
    <2>1. CASE op \in {"push32", "push16"}
      BY <1>1, <1>3, <2>1, PushOp
    <2>2. CASE op \in {"pop32", "pop16", "mov"}
      BY <1>1, <1>3, <2>2, PopOp
    <2>3. CASE op = "enter"
      <3>1. n \in Nat
        BY <2>3 DEF Frm!MaxImm
      <3>2. QED
        BY <1>1, <1>3, <2>3, <3>1, EnterOp
    <2>4. CASE op = "leave"
      <3>1. machine.ebp + Frm!Unit <= Base /\ machine.ebp >= machine.esp
        BY <2>4 DEF Frm!Step
      <3>2. QED
        BY <1>1, <2>4, <3>1, LeaveOp
    <2>5. CASE op = "pusha"
      BY <1>1, <1>3, <2>5, PushaOp
    <2>6. CASE op = "popa"
      BY <1>1, <1>3, <2>6, PopaOp
    <2>7. QED
      BY <2>1, <2>2, <2>3, <2>4, <2>5, <2>6
  <1>5. QED
    BY <1>1, <1>2, <1>4 DEF FrameInv

\* A half word pushed over the other half is a full one.
LEMMA HalvesMakeAFull ==
  ASSUME NEW s \in Machines, NEW p, p = Frm!PUSH16(s, 9)
  PROVE  p \in Machines /\ Frm!PUSH16(p, 99) = Frm!Pushed(s, 99, 2)
  <1>1. p = Frm!Pushed(s, 9, 1)
    BY PushesHalf
  <1>2. /\ p \in Machines
        /\ p.esp = s.esp - 1 /\ p.ebp = s.ebp /\ p.eax = s.eax
        /\ p.mem = [q \in 0 .. Base |-> Filled(s, 9, 1, q)]
    BY <1>1, PushedFields
  <1>3. PICK t : t = Frm!Pushed(p, 99, 1)
    OBVIOUS
  <1>4. /\ t \in Machines
        /\ t.esp = p.esp - 1 /\ t.ebp = p.ebp /\ t.eax = p.eax
        /\ t.mem = [q \in 0 .. Base |-> Filled(p, 99, 1, q)]
    BY <1>2, <1>3, PushedFields
  <1>5. PICK u : u = Frm!Pushed(s, 99, 2)
    OBVIOUS
  <1>6. /\ u \in Machines
        /\ u.esp = s.esp - 2 /\ u.ebp = s.ebp /\ u.eax = s.eax
        /\ u.mem = [q \in 0 .. Base |-> Filled(s, 99, 2, q)]
    BY <1>5, PushedFields
  <1>7. s.esp \in Int
    BY MachineParts
  <1>8. ASSUME NEW q \in 0 .. Base  PROVE Filled(p, 99, 1, q) = Filled(s, 99, 2, q)
    <2>1. p.mem[q] = Filled(s, 9, 1, q)
      BY <1>2
    <2>2. PICK e : e = s.esp /\ e \in Int
      BY <1>7
    <2>3. CASE q = e - 1
      <3>1. Filled(p, 99, 1, q) = 9
        <4>1. Filled(s, 9, 1, q) = 9
          BY <2>2, <2>3, BenchAssumption DEF Filled, Frm!Half
        <4>2. Filled(p, 99, 1, q) = p.mem[q]
          <5>1. q \notin p.esp - 1 .. p.esp - 1
            <6>1. p.esp = e - 1
              BY <1>2, <2>2
            <6>2. QED
              BY <2>2, <2>3, <6>1
          <5>2. QED
            BY <5>1, Zenon DEF Filled
        <4>3. QED
          BY <2>1, <4>1, <4>2
      <3>2. Filled(s, 99, 2, q) = 9
        BY <2>2, <2>3, BenchAssumption DEF Filled, Frm!Half
      <3>3. QED
        BY <3>1, <3>2
    <2>4. CASE q = e - 2
      <3>1. Filled(p, 99, 1, q) = 9
        BY <1>2, <2>2, <2>4, BenchAssumption DEF Filled, Frm!Half
      <3>2. Filled(s, 99, 2, q) = 9
        BY <2>2, <2>4, BenchAssumption DEF Filled, Frm!Half
      <3>3. QED
        BY <3>1, <3>2
    <2>5. CASE q # e - 1 /\ q # e - 2
      <3>1. Filled(p, 99, 1, q) = s.mem[q]
        BY <1>2, <2>1, <2>2, <2>5, BenchAssumption DEF Filled
      <3>2. Filled(s, 99, 2, q) = s.mem[q]
        BY <2>2, <2>5, BenchAssumption DEF Filled
      <3>3. QED
        BY <3>1, <3>2
    <2>6. QED
      BY <2>3, <2>4, <2>5
  <1>9. t.mem = u.mem
    BY <1>4, <1>6, <1>8
  <1>10. t = u
    <2>1. t.esp = u.esp
      BY <1>2, <1>4, <1>6, <1>7
    <2>2. QED
      BY <1>2, <1>4, <1>6, <1>9, <2>1, SameMachine
  <1>11. QED
    BY <1>2, <1>3, <1>5, <1>10, PushesHalf

\* A call of either kind leaves what the processor leaves.
LEMMA PushesReturn ==
  ASSUME NEW s \in Stacks, NEW far, far => emitter = "lift16",
         Frm!Room(s, Frm!ReturnSize(far))
  PROVE  /\ Frm!PushReturn(s, far) = Frm!Pushed(s, Frm!ReturnAddress, Frm!ReturnSize(far))
         /\ Frm!PushReturn(s, far) \in Stacks
  <1>1. s \in Machines /\ s.esp \in 0 .. Base /\ s.esp \in Int
    BY BenchAssumption, MachineParts DEF Stacks
  <1>2. PICK k \in {1, 2} : k = Frm!ReturnSize(far)
    BY DEF Frm!ReturnSize, Frm!Unit
  <1>3. s.esp - k \in 0 .. Base
    BY <1>1, <1>2, BenchAssumption DEF Frm!Room
  <1>4. Frm!Pushed(s, 99, k) \in Stacks
    <2>1. PICK a \in Int : a = 99
      OBVIOUS
    <2>2. Frm!Pushed(s, a, k) \in Machines /\ Frm!Pushed(s, a, k).esp = s.esp - k
      BY <1>1, PushesOnto
    <2>3. QED
      BY <1>3, <2>1, <2>2 DEF Stacks
  <1>5. Frm!PushReturn(s, far) = Frm!Pushed(s, 99, k)
    <2>1. CASE emitter # "lift16"
      <3>1. k = 2
        BY <1>2, <2>1 DEF Frm!ReturnSize, Frm!Unit
      <3>2. Frm!PushReturn(s, far) = Frm!PUSH32(s, 99)
        BY <2>1 DEF Frm!PushReturn, Frm!ReturnAddress
      <3>3. QED
        BY <1>1, <3>1, <3>2, PushesFull
    <2>2. CASE emitter = "lift16" /\ ~far
      <3>1. k = 1
        BY <1>2, <2>2 DEF Frm!ReturnSize, Frm!Unit
      <3>2. Frm!PushReturn(s, far) = Frm!PUSH16(s, 99)
        BY <2>2 DEF Frm!PushReturn, Frm!ReturnAddress, Frm!push16
      <3>3. QED
        BY <1>1, <3>1, <3>2, PushesHalf
    <2>3. CASE emitter = "lift16" /\ far
      <3>1. k = 2
        BY <1>2, <2>3 DEF Frm!ReturnSize
      <3>2. PICK p : p = Frm!PUSH16(s, 9)
        OBVIOUS
      <3>3. Frm!Half(99, 1) = 9
        BY DEF Frm!Half
      <3>4. Frm!PushReturn(s, far) = Frm!PUSH16(p, 99)
        BY <2>3, <3>2, <3>3 DEF Frm!PushReturn, Frm!ReturnAddress, Frm!push16
      <3>5. p \in Machines /\ Frm!PUSH16(p, 99) = Frm!Pushed(s, 99, 2)
        BY <1>1, <3>2, HalvesMakeAFull
      <3>6. QED
        BY <3>1, <3>4, <3>5
    <2>4. QED
      BY <2>1, <2>2, <2>3
  <1>6. QED
    BY <1>2, <1>4, <1>5 DEF Frm!ReturnAddress

LEMMA FrameCalled ==
  ASSUME FrameInv, NEW far, Frm!Called(far), went'.lifted = went'.real
  PROVE  FrameInv'
  <1>1. machine \in Stacks /\ guest = machine
    BY DEF FrameInv
  <1>2. /\ machine' = Frm!Pushed(machine, Frm!ReturnAddress, Frm!ReturnSize(far))
        /\ guest' = Frm!PushReturn(guest, far)
        /\ far => emitter = "lift16"
        /\ Frm!Room(machine, Frm!ReturnSize(far))
    BY DEF Frm!Called
  <1>3. QED
    BY <1>1, <1>2, PushesReturn DEF FrameInv

LEMMA FrameReturns ==
  ASSUME FrameInv, NEW n \in 0 .. Frm!MaxImm, Frm!Ret(n)
  PROVE  FrameInv'
  <1>1. /\ machine \in Stacks /\ guest = machine /\ machine \in Machines
        /\ machine.esp \in 0 .. Base /\ machine.esp \in Int
    BY BenchAssumption, MachineParts DEF FrameInv, Stacks
  <1>2. PICK far : far = Head(frames).far
    OBVIOUS
  <1>3. PICK k \in {1, 2} : k = Frm!ReturnSize(far) /\ (far => k = 2)
    BY DEF Frm!ReturnSize, Frm!Unit
  <1>4. /\ Frm!Held(machine, k + n)
        /\ machine' = [machine EXCEPT !.esp = @ + k + n]
        /\ guest' = IF far THEN [Frm!pop16(Frm!pop16(guest).s).s EXCEPT !.esp = @ + n]
                    ELSE [guest EXCEPT !.esp = @ + k + n]
        /\ went' = went
    BY <1>2, <1>3 DEF Frm!Ret
  <1>5. PICK e : e = machine.esp + k + n
    OBVIOUS
  <1>6. e \in 0 .. Base /\ e \in Int /\ n \in Int
    BY <1>1, <1>4, <1>5, BenchAssumption DEF Frm!Held, Frm!MaxImm
  <1>7. machine' = [machine EXCEPT !.esp = e]
    BY <1>4, <1>5
  <1>8. machine' \in Machines /\ machine'.esp = e
    BY <1>1, <1>6, <1>7 DEF Machines
  <1>9. guest' = machine'
    <2>1. CASE ~far
      BY <1>1, <1>4, <2>1
    <2>2. CASE far
      <3>1. PICK c, d : c = machine.esp + 1 /\ d = machine.esp + 2
        OBVIOUS
      <3> c \in Int /\ d \in Int /\ c + 1 = d /\ d + n = e
        <4>1. k = 2
          BY <1>3, <2>2
        <4>2. PICK x \in Int : x = machine.esp
          BY <1>1
        <4>3. c = x + 1 /\ d = x + 2 /\ e = x + 2 + n
          BY <1>5, <3>1, <4>1, <4>2
        <4>4. QED
          BY <1>6, <4>2, <4>3
      <3>2. PICK u : u = [machine EXCEPT !.esp = c]
        OBVIOUS
      <3>3. u \in Machines /\ u.esp = c /\ u.ebp = machine.ebp /\ u.eax = machine.eax /\ u.mem = machine.mem
        BY <1>1, <3>1, <3>2 DEF Machines
      <3>4. PICK w : w = [u EXCEPT !.esp = d]
        OBVIOUS
      <3>5. w \in Machines /\ w.esp = d /\ w.ebp = machine.ebp /\ w.eax = machine.eax /\ w.mem = machine.mem
        BY <3>1, <3>3, <3>4 DEF Machines
      <3>6. Frm!pop16(guest).s = u
        BY <1>1, <3>1, <3>2 DEF Frm!pop16, Frm!POP16_VAL
      <3>7. Frm!pop16(u).s = w
        BY <3>1, <3>3, <3>4 DEF Frm!pop16, Frm!POP16_VAL
      <3>8. guest' = [w EXCEPT !.esp = @ + n]
        BY <1>4, <2>2, <3>6, <3>7
      <3>9. guest' = [w EXCEPT !.esp = e]
        BY <3>1, <3>5, <3>8
      <3>10. [w EXCEPT !.esp = e] = [machine EXCEPT !.esp = e]
        BY <1>1, <1>6, <3>5 DEF Machines
      <3>11. QED
        BY <1>7, <3>9, <3>10
    <2>3. QED
      BY <2>1, <2>2
  <1>10. QED
    BY <1>4, <1>6, <1>8, <1>9 DEF FrameInv, Stacks

LEMMA FrameStep ==
  ASSUME FrameInv, Frm!FrameNext
  PROVE  FrameInv'
  <1>1. ASSUME NEW op \in {"push32", "push16", "pop32", "pop16", "leave", "pusha", "popa", "mov"}, Frm!Step(op, 0)
        PROVE  FrameInv'
    BY <1>1, FrameInstruction
  <1>2. ASSUME NEW n \in 0 .. Frm!MaxImm, Frm!Step("enter", n)
        PROVE  FrameInv'
    BY <1>2, FrameInstruction
  <1>3. ASSUME NEW far \in BOOLEAN, Frm!Call(far)
        PROVE  FrameInv'
    <2>1. Frm!Called(far) /\ went'.lifted = went'.real
      BY <1>3 DEF Frm!Call, FrameInv
    <2>2. QED
      BY <2>1, FrameCalled
  <1>4. ASSUME Frm!CallStack
        PROVE  FrameInv'
    <2>1. /\ Frm!Called(FALSE)
          /\ went' = [real |-> Frm!Load(machine.mem, machine.esp, Frm!Unit), lifted |-> Frm!StackTarget(guest)]
      BY <1>4 DEF Frm!CallStack
    <2>2. Frm!StackTarget(guest) = Frm!Load(machine.mem, machine.esp, Frm!Unit)
      BY DEF FrameInv, Frm!StackTarget
    <2>3. QED
      BY <2>1, <2>2, FrameCalled
  <1>5. ASSUME NEW n \in 0 .. Frm!MaxImm, Frm!Ret(n)
        PROVE  FrameInv'
    BY <1>5, FrameReturns
  <1>6. QED
    BY <1>1, <1>2, <1>3, <1>4, <1>5 DEF Frm!FrameNext

\* After any program of pushes, pops, frames and calls, for any stack, the
\* lifted stack, esp, ebp and eax are the processor's, and an indirect call
\* through the stack goes where the processor goes (lift32.py:692-699).
THEOREM StackAgreesAlways == BenchSpec => []StackAgrees
<1>1. BenchInit => FrameInv
  BY FrameStarts DEF BenchInit, FrameIdle, Frm!FrameInit
<1>2. FrameInv /\ [BenchNext]_<<bench, vars, fvars, svars, kvars, wvars, lvars, mvars>> => FrameInv'
  <2>1. ASSUME FrameInv, UNCHANGED kvars  PROVE FrameInv'
    BY <2>1 DEF kvars, FrameInv
  <2>2. QED
    BY <2>1, FrameStep DEF BenchNext
<1>3. FrameInv => StackAgrees
  BY DEF FrameInv, StackAgrees, Frm!StackAgrees
<1>4. QED
  BY <1>1, <1>2, <1>3, PTL DEF BenchSpec
----------------------------------------------------------------------------
\* The register stack of the x87: sequences, whatever their elements are.

IsSequence(s) == \E S : s \in Seq(S)

LEMMA Lengths ==
  ASSUME NEW s, IsSequence(s)
  PROVE  Len(s) \in Nat /\ DOMAIN s = 1 .. Len(s)
  BY DEF IsSequence

LEMMA Longer ==
  ASSUME NEW s, IsSequence(s), NEW x
  PROVE  /\ IsSequence(Fpu!Push(s, x)) /\ Len(Fpu!Push(s, x)) = Len(s) + 1
         /\ \A i \in 0 .. Len(s) : Fpu!Push(s, x)[i + 1] = IF i = 0 THEN x ELSE s[i]
  <1>1. PICK S : s \in Seq(S)
    BY DEF IsSequence
  <1>2. PICK T : T = S \cup {x}
    OBVIOUS
  <1>3. s \in Seq(T) /\ <<x>> \in Seq(T)
    BY <1>1, <1>2
  <1>4. PICK t : t = <<x>> \o s
    OBVIOUS
  <1>5. t \in Seq(T) /\ Len(t) = Len(s) + 1
    BY <1>3, <1>4
  <1>6. ASSUME NEW i \in 0 .. Len(s)  PROVE t[i + 1] = IF i = 0 THEN x ELSE s[i]
    BY <1>3, <1>4
  <1>7. QED
    BY <1>4, <1>5, <1>6 DEF Fpu!Push, IsSequence

LEMMA Shorter ==
  ASSUME NEW s, IsSequence(s), Len(s) > 0
  PROVE  /\ IsSequence(Tail(s)) /\ Len(Tail(s)) = Len(s) - 1
         /\ \A i \in 1 .. Len(s) - 1 : Tail(s)[i] = s[i + 1]
  BY DEF IsSequence

With(s, j, x) == [s EXCEPT ![j] = x]

LEMMA Changed ==
  ASSUME NEW s, IsSequence(s), NEW j \in 1 .. Len(s), NEW x
  PROVE  /\ IsSequence(With(s, j, x)) /\ Len(With(s, j, x)) = Len(s)
         /\ \A i \in 1 .. Len(s) : With(s, j, x)[i] = IF i = j THEN x ELSE s[i]
  <1>1. PICK S : s \in Seq(S)
    BY DEF IsSequence
  <1>2. PICK T : T = S \cup {x}
    OBVIOUS
  <1>3. s \in Seq(T) /\ x \in T
    BY <1>1, <1>2
  <1>4. PICK t : t = [s EXCEPT ![j] = x]
    OBVIOUS
  <1>5. t \in Seq(T) /\ Len(t) = Len(s)
    BY <1>3, <1>4
  <1>6. \A i \in 1 .. Len(s) : t[i] = IF i = j THEN x ELSE s[i]
    BY <1>3, <1>4
  <1>7. QED
    BY <1>4, <1>5, <1>6 DEF IsSequence, With

LEMMA SameSequence ==
  ASSUME NEW s, NEW t, IsSequence(s), IsSequence(t), Len(s) = Len(t),
         \A i \in 1 .. Len(s) : s[i] = t[i]
  PROVE  s = t
  <1>1. PICK S, T : s \in Seq(S) /\ t \in Seq(T)
    BY DEF IsSequence
  <1>2. PICK U : U = S \cup T
    OBVIOUS
  <1>3. s \in Seq(U) /\ t \in Seq(U)
    BY <1>1, <1>2
  <1>4. QED
    BY <1>3

\* A register below the top can be written before the pop or behind it.
LEMMA PopsBehind ==
  ASSUME NEW s, IsSequence(s), NEW i \in 1 .. Len(s) - 1, NEW x
  PROVE  Tail([s EXCEPT ![i + 1] = x]) = [Tail(s) EXCEPT ![i] = x]
  <1>1. Len(s) \in Nat
    BY Lengths
  <1>2. i + 1 \in 1 .. Len(s)
    BY <1>1
  <1>3. PICK t : t = [s EXCEPT ![i + 1] = x]
    OBVIOUS
  <1>4. IsSequence(t) /\ Len(t) = Len(s) /\ \A k \in 1 .. Len(s) : t[k] = IF k = i + 1 THEN x ELSE s[k]
    <2>1. PICK j \in 1 .. Len(s) : j = i + 1
      BY <1>2
    <2>2. t = With(s, j, x)
      BY <1>3, <2>1 DEF With
    <2>3. IsSequence(t) /\ Len(t) = Len(s) /\ \A k \in 1 .. Len(s) : t[k] = IF k = j THEN x ELSE s[k]
      BY <2>2, Changed
    <2>4. QED
      BY <2>1, <2>3
  <1>5. PICK l : l = Tail(t)
    OBVIOUS
  <1>6. IsSequence(l) /\ Len(l) = Len(s) - 1 /\ \A k \in 1 .. Len(s) - 1 : l[k] = t[k + 1]
    BY <1>1, <1>2, <1>4, <1>5, Shorter
  <1>7. PICK u : u = Tail(s)
    OBVIOUS
  <1>8. IsSequence(u) /\ Len(u) = Len(s) - 1 /\ \A k \in 1 .. Len(s) - 1 : u[k] = s[k + 1]
    BY <1>1, <1>2, <1>7, Shorter
  <1>9. PICK r : r = With(u, i, x)
    OBVIOUS
  <1>10. IsSequence(r) /\ Len(r) = Len(s) - 1 /\ \A k \in 1 .. Len(s) - 1 : r[k] = IF k = i THEN x ELSE u[k]
    <2>1. i \in 1 .. Len(u) /\ IsSequence(u)
      BY <1>8
    <2>2. IsSequence(r) /\ Len(r) = Len(u) /\ \A k \in 1 .. Len(u) : r[k] = IF k = i THEN x ELSE u[k]
      BY <1>9, <2>1, Changed
    <2>3. QED
      BY <1>8, <2>2
  <1>11. \A k \in 1 .. Len(l) : l[k] = r[k]
    BY <1>1, <1>4, <1>6, <1>8, <1>10
  <1>12. l = r
    BY <1>6, <1>10, <1>11, SameSequence
  <1>13. QED
    BY <1>3, <1>5, <1>7, <1>9, <1>12 DEF With

----------------------------------------------------------------------------
\* Both emitters' stacks as one: reading, writing, pushing and popping.

RegAt(w, i) == IF model = "window" THEN w.slot[i] ELSE Fpu!fst(w, i)
SetReg(w, i, x) == IF model = "window" THEN [w EXCEPT !.slot[i] = x] ELSE Fpu!SetSt(w, i, x)
PushReg(w, x) == IF model = "window" THEN Fpu!fp_push(w, x) ELSE Fpu!fpush(w, x)
PopReg(w) == IF model = "window" THEN Fpu!fp_pop(w) ELSE Fpu!fpop(w)

\* Where st(i) of a stack of n is.  A ring that begins at 0 never passes it.
Place(n, i) == IF model = "window" THEN i ELSE Slots - n + i
TopAt(n) == CASE model = "window" -> n [] n = 0 -> 0 [] OTHER -> Slots - n

\* The lifted stack w holds what the processor's stack s does.
Stacked(w, s) ==
  /\ IsSequence(s) /\ Len(s) <= Slots
  /\ DOMAIN w = {"top", "slot"} /\ DOMAIN w.slot = 0 .. Slots - 1
  /\ w.top = TopAt(Len(s))
  /\ \A i \in 0 .. Len(s) - 1 : w.slot[Place(Len(s), i)] = s[i + 1]

LEMMA Wraps ==
  /\ \A n \in 0 .. Slots - 1 : n % Slots = n
  /\ (0 - 1) % Slots = Slots - 1
  /\ Slots % Slots = 0
  BY BenchAssumption

LEMMA RingPlace ==
  ASSUME NEW w, NEW s, Stacked(w, s), model # "window", NEW i \in 0 .. Len(s) - 1
  PROVE  Fpu!At(w, i) = Place(Len(s), i) /\ Place(Len(s), i) \in 0 .. Slots - 1
  <1>1. Len(s) \in Nat /\ Len(s) <= Slots
    BY Lengths DEF Stacked
  <1>2. w.top = Slots - Len(s)
    BY <1>1 DEF Stacked, TopAt
  <1>3. PICK n : n = Slots - Len(s) + i
    OBVIOUS
  <1>4. n \in 0 .. Slots - 1
    BY <1>1, <1>3, BenchAssumption
  <1>5. n % Slots = n
    BY <1>4, Wraps
  <1>6. QED
    BY <1>2, <1>3, <1>4, <1>5 DEF Fpu!At, Place

LEMMA ReadsSt ==
  ASSUME NEW w, NEW s, Stacked(w, s), NEW i \in 0 .. Len(s) - 1
  PROVE  RegAt(w, i) = s[i + 1]
  <1>1. w.slot[Place(Len(s), i)] = s[i + 1]
    BY DEF Stacked
  <1>2. CASE model = "window"
    BY <1>1, <1>2 DEF RegAt, Place
  <1>3. CASE model # "window"
    <2>1. Fpu!At(w, i) = Place(Len(s), i)
      BY <1>3, RingPlace
    <2>2. QED
      BY <1>1, <1>3, <2>1 DEF RegAt, Fpu!fst
  <1>4. model = "window" \/ model # "window"
    OBVIOUS
  <1>5. QED
    BY <1>2, <1>3, <1>4

\* A register of the lifted stack written, wherever it is.
LEMMA WritesSt ==
  ASSUME NEW w, NEW s, Stacked(w, s), NEW i \in 0 .. Len(s) - 1, NEW x
  PROVE  Stacked(SetReg(w, i, x), [s EXCEPT ![i + 1] = x])
  <1>1. Len(s) \in Nat /\ IsSequence(s) /\ Len(s) <= Slots
    BY Lengths DEF Stacked
  <1>2. PICK p : p = Place(Len(s), i)
    OBVIOUS
  <1>3. p \in 0 .. Slots - 1
    BY <1>1, <1>2, BenchAssumption DEF Place
  <1>4. PICK y : y = SetReg(w, i, x)
    OBVIOUS
  <1>5. y = [w EXCEPT !.slot[p] = x]
    <2>1. CASE model = "window"
      BY <1>2, <1>4, <2>1 DEF SetReg, Place
    <2>2. CASE model # "window"
      <3>1. Fpu!At(w, i) = p
        BY <1>2, <2>2, RingPlace
      <3>2. QED
        BY <1>4, <2>2, <3>1 DEF SetReg, Fpu!SetSt
    <2>3. QED
      BY <2>1, <2>2
  <1>6. /\ DOMAIN w = {"top", "slot"} /\ DOMAIN w.slot = 0 .. Slots - 1
        /\ w.top = TopAt(Len(s))
        /\ \A k \in 0 .. Len(s) - 1 : w.slot[Place(Len(s), k)] = s[k + 1]
    BY DEF Stacked
  <1>7. /\ DOMAIN y = {"top", "slot"} /\ DOMAIN y.slot = 0 .. Slots - 1 /\ y.top = w.top
        /\ \A k \in 0 .. Slots - 1 : y.slot[k] = IF k = p THEN x ELSE w.slot[k]
    BY <1>3, <1>5, <1>6
  <1>8. PICK j \in 1 .. Len(s) : j = i + 1
    BY <1>1
  <1>9. PICK t : t = With(s, j, x)
    OBVIOUS
  <1>10. IsSequence(t) /\ Len(t) = Len(s) /\ \A k \in 1 .. Len(s) : t[k] = IF k = j THEN x ELSE s[k]
    BY <1>1, <1>9, Changed
  <1>11. ASSUME NEW k \in 0 .. Len(s) - 1
         PROVE  y.slot[Place(Len(s), k)] = t[k + 1]
    <2>1. Place(Len(s), k) \in 0 .. Slots - 1 /\ (Place(Len(s), k) = p <=> k = i)
      BY <1>1, <1>2, BenchAssumption DEF Place
    <2>2. w.slot[Place(Len(s), k)] = s[k + 1]
      BY <1>6
    <2>3. k + 1 \in 1 .. Len(s) /\ (k + 1 = j <=> k = i)
      BY <1>1, <1>8
    <2>4. QED
      BY <1>7, <1>10, <2>1, <2>2, <2>3
  <1>12. Stacked(y, t)
    BY <1>1, <1>6, <1>7, <1>10, <1>11 DEF Stacked
  <1>13. QED
    BY <1>4, <1>8, <1>9, <1>12 DEF With

LEMMA PushesSt ==
  ASSUME NEW w, NEW s, Stacked(w, s), Len(s) < Slots, NEW x
  PROVE  Stacked(PushReg(w, x), Fpu!Push(s, x))
  <1>1. Len(s) \in Nat /\ IsSequence(s) /\ Slots \in Nat
    BY Lengths, BenchAssumption DEF Stacked
  <1>2. PICK n : n = Len(s) /\ n \in Nat
    BY <1>1
  <1>3. PICK y, t : y = PushReg(w, x) /\ t = Fpu!Push(s, x)
    OBVIOUS
  <1>4. IsSequence(t) /\ Len(t) = n + 1 /\ \A i \in 0 .. n : t[i + 1] = IF i = 0 THEN x ELSE s[i]
    BY <1>1, <1>2, <1>3, Longer
  <1>5. /\ DOMAIN w = {"top", "slot"} /\ DOMAIN w.slot = 0 .. Slots - 1
        /\ w.top = TopAt(n)
        /\ \A k \in 0 .. n - 1 : w.slot[Place(n, k)] = s[k + 1]
    BY <1>2 DEF Stacked
  <1>6. CASE model = "window"
    <2>1. y = [top |-> w.top + 1, slot |-> [k \in 0 .. Slots - 1 |-> IF k = 0 THEN x ELSE w.slot[k - 1]]]
      BY <1>3, <1>6 DEF PushReg, Fpu!fp_push
    <2>2. /\ DOMAIN y = {"top", "slot"} /\ DOMAIN y.slot = 0 .. Slots - 1
          /\ y.top = n + 1
          /\ \A k \in 0 .. Slots - 1 : y.slot[k] = IF k = 0 THEN x ELSE w.slot[k - 1]
      BY <1>5, <1>6, <2>1 DEF TopAt
    <2>3. ASSUME NEW k \in 0 .. n  PROVE y.slot[k] = t[k + 1]
      <3>1. k \in 0 .. Slots - 1
        BY <1>1, <1>2
      <3>2. CASE k = 0
        BY <1>4, <2>2, <3>1, <3>2
      <3>3. CASE k # 0
        <4>1. k - 1 \in 0 .. n - 1 /\ k - 1 + 1 = k
          BY <1>2, <3>3
        <4>2. w.slot[k - 1] = s[k]
          BY <1>5, <1>6, <4>1 DEF Place
        <4>3. QED
          BY <1>4, <2>2, <3>1, <3>3, <4>2
      <3>4. QED
        BY <3>2, <3>3
    <2>4. QED
      BY <1>1, <1>2, <1>3, <1>4, <1>6, <2>2, <2>3 DEF Stacked, TopAt, Place
  <1>7. CASE model # "window"
    <2>1. PICK p : p = Slots - n - 1
      OBVIOUS
    <2>2. p \in 0 .. Slots - 1
      BY <1>1, <1>2, <2>1
    <2>3. (w.top - 1) % Slots = p
      <3>1. CASE n = 0
        BY <1>5, <1>7, <2>1, <3>1, Wraps, <1>1 DEF TopAt
      <3>2. CASE n # 0
        <4>1. w.top - 1 = p
          BY <1>1, <1>2, <1>5, <1>7, <2>1, <3>2 DEF TopAt
        <4>2. QED
          BY <2>2, <4>1, Wraps
      <3>3. QED
        BY <3>1, <3>2
    <2>4. PICK u : u = [w EXCEPT !.top = p]
      OBVIOUS
    <2>5. DOMAIN u = {"top", "slot"} /\ u.slot = w.slot /\ u.top = p
      BY <1>5, <2>4
    <2>6. Fpu!At(u, 0) = p
      <3>1. p + 0 = p
        BY <2>2
      <3>2. QED
        BY <2>2, <2>5, <3>1, Wraps DEF Fpu!At
    <2>7. y = [u EXCEPT !.slot[p] = x]
      <3>1. y = Fpu!SetSt(u, 0, x)
        BY <1>3, <1>7, <2>3, <2>4 DEF PushReg, Fpu!fpush
      <3>2. QED
        BY <2>6, <3>1 DEF Fpu!SetSt
    <2>8. /\ DOMAIN y = {"top", "slot"} /\ DOMAIN y.slot = 0 .. Slots - 1 /\ y.top = p
          /\ \A k \in 0 .. Slots - 1 : y.slot[k] = IF k = p THEN x ELSE w.slot[k]
      BY <1>5, <2>2, <2>5, <2>7
    <2>9. ASSUME NEW k \in 0 .. n  PROVE y.slot[Slots - (n + 1) + k] = t[k + 1]
      <3>1. PICK q : q = Slots - (n + 1) + k
        OBVIOUS
      <3>2. q \in 0 .. Slots - 1 /\ (q = p <=> k = 0)
        BY <1>1, <1>2, <2>1, <3>1
      <3>3. CASE k = 0
        BY <1>4, <2>8, <3>1, <3>2, <3>3
      <3>4. CASE k # 0
        <4>1. k - 1 \in 0 .. n - 1 /\ k - 1 + 1 = k /\ Slots - n + (k - 1) = q
          BY <1>1, <1>2, <3>1, <3>4
        <4>2. w.slot[q] = s[k]
          BY <1>5, <1>7, <4>1 DEF Place
        <4>3. QED
          BY <1>4, <2>8, <3>1, <3>2, <3>4, <4>2
      <3>5. QED
        BY <3>3, <3>4
    <2>10. n + 1 # 0 /\ n + 1 - 1 = n /\ p = Slots - (n + 1) /\ n + 1 <= Slots
      BY <1>1, <1>2, <2>1
    <2>11. y.top = TopAt(n + 1)
      BY <1>7, <2>8, <2>10 DEF TopAt
    <2>12. \A k \in 0 .. n : y.slot[Place(n + 1, k)] = t[k + 1]
      BY <1>7, <2>9 DEF Place
    <2>13. Len(t) - 1 = n /\ Len(t) = n + 1
      BY <1>1, <1>2, <1>4
    <2>14. Stacked(y, t)
      BY <1>4, <2>8, <2>10, <2>11, <2>12, <2>13 DEF Stacked
    <2>15. QED
      BY <1>3, <2>14
  <1>8. QED
    BY <1>6, <1>7

LEMMA PopsSt ==
  ASSUME NEW w, NEW s, Stacked(w, s), Len(s) > 0
  PROVE  Stacked(PopReg(w), Tail(s))
  <1>1. Len(s) \in Nat /\ IsSequence(s) /\ Slots \in Nat /\ Len(s) <= Slots
    BY Lengths, BenchAssumption DEF Stacked
  <1>2. PICK n \in Nat : n = Len(s)
    BY <1>1
  <1>3. PICK y, t : y = PopReg(w) /\ t = Tail(s)
    OBVIOUS
  <1>4. IsSequence(t) /\ Len(t) = n - 1 /\ \A i \in 1 .. n - 1 : t[i] = s[i + 1]
    BY <1>1, <1>2, <1>3, Shorter
  <1>5. /\ DOMAIN w = {"top", "slot"} /\ DOMAIN w.slot = 0 .. Slots - 1
        /\ w.top = TopAt(n)
        /\ \A k \in 0 .. n - 1 : w.slot[Place(n, k)] = s[k + 1]
    BY <1>2 DEF Stacked
  <1>6. CASE model = "window"
    <2>1. y = [top |-> w.top - 1, slot |-> [k \in 0 .. Slots - 1 |-> IF k = Slots - 1 THEN 0 ELSE w.slot[k + 1]]]
      BY <1>3, <1>6 DEF PopReg, Fpu!fp_pop
    <2>2. /\ DOMAIN y = {"top", "slot"} /\ DOMAIN y.slot = 0 .. Slots - 1
          /\ y.top = n - 1
          /\ \A k \in 0 .. Slots - 1 : y.slot[k] = IF k = Slots - 1 THEN 0 ELSE w.slot[k + 1]
      BY <1>5, <1>6, <2>1 DEF TopAt
    <2>3. ASSUME NEW k \in 0 .. n - 1 - 1  PROVE y.slot[k] = t[k + 1]
      <3>1. k \in 0 .. Slots - 1 /\ k # Slots - 1 /\ k + 1 \in 0 .. n - 1 /\ k + 1 \in 1 .. n - 1
        BY <1>1, <1>2
      <3>2. w.slot[k + 1] = s[k + 1 + 1]
        BY <1>5, <1>6, <3>1 DEF Place
      <3>3. QED
        BY <1>4, <2>2, <3>1, <3>2
    <2>4. n - 1 <= Slots
      BY <1>1, <1>2
    <2>5. QED
      BY <1>3, <1>4, <1>6, <2>2, <2>3, <2>4 DEF Stacked, TopAt, Place
  <1>7. CASE model # "window"
    <2>1. PICK p : p = TopAt(n - 1)
      OBVIOUS
    <2>2. (w.top + 1) % Slots = p
      <3>1. w.top = Slots - n
        BY <1>1, <1>2, <1>5, <1>7 DEF TopAt
      <3>2. CASE n = 1
        <4>1. w.top + 1 = Slots
          BY <1>1, <3>1, <3>2
        <4>2. QED
          BY <1>7, <2>1, <3>2, <4>1, Wraps DEF TopAt
      <3>3. CASE n # 1
        <4>1. w.top + 1 \in 0 .. Slots - 1 /\ w.top + 1 = Slots - (n - 1) /\ n - 1 # 0
          BY <1>1, <1>2, <3>1, <3>3
        <4>2. p = w.top + 1
          BY <1>7, <2>1, <4>1 DEF TopAt
        <4>3. QED
          BY <4>1, <4>2, Wraps
      <3>4. QED
        BY <3>2, <3>3
    <2>3. y = [w EXCEPT !.top = p]
      BY <1>3, <1>7, <2>2 DEF PopReg, Fpu!fpop
    <2>4. DOMAIN y = {"top", "slot"} /\ y.slot = w.slot /\ y.top = p
      BY <1>5, <2>3
    <2>5. ASSUME NEW k \in 0 .. n - 1 - 1  PROVE y.slot[Place(n - 1, k)] = t[k + 1]
      <3>1. k + 1 \in 0 .. n - 1 /\ k + 1 \in 1 .. n - 1 /\ Slots - (n - 1) + k = Slots - n + (k + 1)
        BY <1>1, <1>2
      <3>2. w.slot[Place(n, k + 1)] = s[k + 1 + 1]
        BY <1>5, <3>1
      <3>3. Place(n - 1, k) = Place(n, k + 1)
        BY <1>7, <3>1 DEF Place
      <3>4. QED
        BY <1>4, <2>4, <3>1, <3>2, <3>3
    <2>6. n - 1 <= Slots
      BY <1>1, <1>2
    <2>7. QED
      BY <1>3, <1>4, <1>5, <2>1, <2>4, <2>5, <2>6 DEF Stacked
  <1>8. QED
    BY <1>6, <1>7

----------------------------------------------------------------------------
\* What each instruction does, written with the four, on either lifted stack.

LEMMA Operands ==
  ASSUME NEW x \in Fpu!FpuInstructions
  PROVE  /\ x.i \in 0 .. Slots - 1
         /\ x.op \in {"fld", "fst", "fstp"} => x.form \in {"mem", "st0"}
         /\ x.op \in {"fxch", "fcom", "fcomp", "fcomi", "fcomip", "fcmovb"} => x.form = "st0"
         /\ x.op \in Fpu!ArithmeticOps => x.form \in {"mem", "st0", "sti", "pop"}
         /\ x.op \in Fpu!Constants \cup Fpu!Functions \cup {"fcompp", "ftst", "fincstp_ffree"}
              => x.form = "none" /\ x.i = 0
         /\ x.form = "mem" => x.i = 0
         /\ \/ x.op \in Fpu!Loads \cup Fpu!Stores \cup Fpu!ArithmeticOps \cup Fpu!Functions \cup Fpu!Comparing
            \/ x.op \in {"fincstp_ffree", "fxch", "fcomi", "fcomip", "fcmovb"}
  <1>1. 0 \in 0 .. Slots - 1
    BY BenchAssumption
  <1>2. QED
    BY <1>1 DEF Fpu!FpuInstructions, Fpu!ArithmeticOps, Fpu!Loads, Fpu!Stores, Fpu!Functions,
                Fpu!Comparing, Fpu!Constants, Fpu!Unary

\* The registers an instruction needs are below the depth of the stack.
LEMMA Reaches ==
  ASSUME IsSequence(st), NEW x \in Fpu!FpuInstructions, Fpu!Fits(x)
  PROVE  /\ x.op \notin Fpu!Constants \cup {"fyl2x", "fpatan", "fprem", "fcompp"}
              => (x.op = "fld" /\ x.form = "mem") \/ x.i \in 0 .. Len(st) - 1
         /\ x.op \in {"fyl2x", "fpatan", "fprem", "fcompp"} => 1 \in 0 .. Len(st) - 1
         /\ x.op \in Fpu!Pushing => Len(st) < Slots
  <1>1. Len(st) \in Nat /\ x.i \in 0 .. Slots - 1 /\ Slots \in Nat
    BY Lengths, Operands, BenchAssumption
  <1>2. Fpu!Needs(x) <= Len(st) /\ (x.op \in Fpu!Pushing => Len(st) < Slots)
    BY DEF Fpu!Fits
  <1>3. x.op \in {"fyl2x", "fpatan", "fprem", "fcompp"} => Fpu!Needs(x) = 2
    BY DEF Fpu!Needs, Fpu!Constants
  <1>4. x.op \notin Fpu!Constants \cup {"fyl2x", "fpatan", "fprem", "fcompp"}
          => (x.op = "fld" /\ x.form = "mem") \/ Fpu!Needs(x) = x.i + 1
    BY DEF Fpu!Needs
  <1>5. QED
    BY <1>1, <1>2, <1>3, <1>4

LEMMA KeepsLength ==
  ASSUME NEW s, IsSequence(s), NEW i \in 0 .. Len(s) - 1, NEW x
  PROVE  Len([s EXCEPT ![i + 1] = x]) = Len(s)
  <1>1. PICK j \in 1 .. Len(s) : j = i + 1
    BY Lengths
  <1>2. With(s, j, x) = [s EXCEPT ![i + 1] = x]
    BY <1>1 DEF With
  <1>3. Len(With(s, j, x)) = Len(s)
    BY Changed
  <1>4. QED
    BY <1>2, <1>3

\* A register written and the top discarded.
LEMMA WritesPops ==
  ASSUME NEW w, NEW s, Stacked(w, s), NEW i \in 0 .. Len(s) - 1, NEW x
  PROVE  Stacked(PopReg(SetReg(w, i, x)), Tail([s EXCEPT ![i + 1] = x]))
  <1>1. PICK y, t : y = SetReg(w, i, x) /\ t = [s EXCEPT ![i + 1] = x]
    OBVIOUS
  <1>2. Stacked(y, t)
    BY <1>1, WritesSt
  <1>3. IsSequence(s) /\ Len(s) \in Nat
    BY Lengths DEF Stacked
  <1>4. Len(t) = Len(s)
    BY <1>1, <1>3, KeepsLength
  <1>5. Len(t) > 0
    BY <1>3, <1>4
  <1>6. QED
    BY <1>1, <1>2, <1>5, PopsSt

LEMMA LoadOp ==
  ASSUME Stacked(fpu, st), NEW x \in Fpu!FpuInstructions, Fpu!Fits(x), ~Fpu!Dropped(x),
         model \in {"window", "ring"},
         cell.lifted = cell.real, x.op \in Fpu!Loads
  PROVE  Stacked(Fpu!Lifted(x), Fpu!FpuRun(x, st, cell.real))
  <1> USE DEF Fpu!Loads, Fpu!Stores, Fpu!Comparing, Fpu!Functions, Fpu!Constants, Fpu!Unary, Fpu!ArithmeticOps
  <1>1. IsSequence(st)
    BY DEF Stacked
  <1>2. Len(st) < Slots
    BY <1>1, Reaches DEF Fpu!Pushing
  <1>3. CASE x.op \in Fpu!Constants
    <2>1. Fpu!Lifted(x) = PushReg(fpu, Fpu!Constant(x.op))
      BY <1>3, Operands DEF Fpu!Lifted, Fpu!window_load, Fpu!ring_move, PushReg
    <2>2. Fpu!FpuRun(x, st, cell.real) = Fpu!Push(st, Fpu!Constant(x.op))
      BY <1>3, Operands DEF Fpu!FpuRun
    <2>3. QED
      BY <1>2, <2>1, <2>2, PushesSt
  <1>4. CASE x.op = "fld" /\ x.form = "mem"
    <2>1. Fpu!Lifted(x) = PushReg(fpu, cell.real)
      BY <1>4 DEF Fpu!Lifted, Fpu!window_load, Fpu!_fmt_fpu_src, Fpu!ring_move, PushReg
    <2>2. Fpu!FpuRun(x, st, cell.real) = Fpu!Push(st, cell.real)
      BY <1>4 DEF Fpu!FpuRun
    <2>3. QED
      BY <1>2, <2>1, <2>2, PushesSt
  <1>5. CASE x.op = "fld" /\ x.form # "mem"
    <2>1. x.form = "st0" /\ x.i \in 0 .. Len(st) - 1
      BY <1>1, <1>5, Operands, Reaches
    <2>2. Fpu!Lifted(x) = PushReg(fpu, RegAt(fpu, x.i))
      BY <1>5, <2>1 DEF Fpu!Lifted, Fpu!window_load, Fpu!_fmt_fpu_src, Fpu!ring_move, PushReg, RegAt
    <2>3. RegAt(fpu, x.i) = st[x.i + 1]
      BY <2>1, ReadsSt
    <2>4. Fpu!FpuRun(x, st, cell.real) = Fpu!Push(st, st[x.i + 1])
      BY <1>5 DEF Fpu!FpuRun
    <2>5. QED
      BY <1>2, <2>2, <2>3, <2>4, PushesSt
  <1>6. QED
    BY <1>3, <1>4, <1>5

LEMMA StoreOp ==
  ASSUME Stacked(fpu, st), NEW x \in Fpu!FpuInstructions, Fpu!Fits(x), ~Fpu!Dropped(x),
         model \in {"window", "ring"},
         x.op \in Fpu!Stores
  PROVE  Stacked(Fpu!Lifted(x), Fpu!FpuRun(x, st, cell.real))
  <1> USE DEF Fpu!Loads, Fpu!Stores, Fpu!Comparing, Fpu!Functions, Fpu!Constants, Fpu!Unary, Fpu!ArithmeticOps
  <1>1. IsSequence(st) /\ Len(st) \in Nat
    BY Lengths DEF Stacked
  <1>2. x.i \in 0 .. Len(st) - 1 /\ x.form \in {"mem", "st0"}
    BY <1>1, Reaches, Operands
  <1>3. 0 \in 0 .. Len(st) - 1
    BY <1>1, <1>2
  <1>4. RegAt(fpu, 0) = st[1]
    BY <1>3, ReadsSt
  <1>5. PICK w, s : /\ w = IF x.form = "mem" THEN fpu ELSE SetReg(fpu, x.i, RegAt(fpu, 0))
                    /\ s = IF x.form = "mem" THEN st ELSE [st EXCEPT ![x.i + 1] = st[1]]
    OBVIOUS
  <1>6. Stacked(w, s)
    BY <1>2, <1>4, <1>5, WritesSt
  <1>7. CASE x.op = "fst"
    <2>1. Fpu!Lifted(x) = w
      BY <1>2, <1>5, <1>7 DEF Fpu!Lifted, Fpu!window_store, Fpu!ring_move, SetReg, RegAt, Fpu!Dropped
    <2>2. Fpu!FpuRun(x, st, cell.real) = s
      BY <1>5, <1>7 DEF Fpu!FpuRun
    <2>3. QED
      BY <1>6, <2>1, <2>2
  <1>8. CASE x.op = "fstp"
    <2>1. Fpu!Lifted(x) = PopReg(w)
      BY <1>2, <1>5, <1>8 DEF Fpu!Lifted, Fpu!window_store, Fpu!ring_move, SetReg, RegAt, PopReg
    <2>2. Fpu!FpuRun(x, st, cell.real) = Tail(s)
      BY <1>5, <1>8 DEF Fpu!FpuRun
    <2>3. Len(s) > 0
      <3>1. CASE x.form = "mem"
        BY <1>1, <1>2, <1>5, <3>1
      <3>2. CASE x.form # "mem"
        BY <1>1, <1>2, <1>5, <3>2, KeepsLength
      <3>3. QED
        BY <3>1, <3>2
    <2>4. QED
      BY <1>6, <2>1, <2>2, <2>3, PopsSt
  <1>9. QED
    BY <1>7, <1>8

LEMMA CompareOp ==
  ASSUME Stacked(fpu, st), NEW x \in Fpu!FpuInstructions, Fpu!Fits(x), ~Fpu!Dropped(x),
         model \in {"window", "ring"},
         x.op \in Fpu!Comparing \cup {"fcomi", "fcomip", "fincstp_ffree"}
  PROVE  Stacked(Fpu!Lifted(x), Fpu!FpuRun(x, st, cell.real))
  <1> USE DEF Fpu!Loads, Fpu!Stores, Fpu!Comparing, Fpu!Functions, Fpu!Constants, Fpu!Unary, Fpu!ArithmeticOps
  <1>1. IsSequence(st) /\ Len(st) \in Nat
    BY Lengths DEF Stacked
  <1>2. CASE x.op \in {"fcomp", "fcomip", "fincstp_ffree"}
    <2>1. Fpu!Lifted(x) = PopReg(fpu)
      BY <1>2, Operands DEF Fpu!Lifted, Fpu!window_compare, Fpu!window_stack, Fpu!ring_compare, PopReg, Fpu!Dropped
    <2>2. Fpu!FpuRun(x, st, cell.real) = Tail(st)
      BY <1>2, Operands DEF Fpu!FpuRun
    <2>3. x.i \in 0 .. Len(st) - 1
      BY <1>1, <1>2, Reaches
    <2>4. Len(st) > 0
      BY <1>1, <2>3
    <2>5. QED
      BY <2>1, <2>2, <2>4, PopsSt
  <1>3. CASE x.op = "fcompp"
    <2>1. Fpu!Lifted(x) = PopReg(PopReg(fpu))
      BY <1>3, Operands DEF Fpu!Lifted, Fpu!window_compare, Fpu!ring_compare, PopReg
    <2>2. Fpu!FpuRun(x, st, cell.real) = Tail(Tail(st))
      BY <1>3, Operands DEF Fpu!FpuRun
    <2>3. 1 \in 0 .. Len(st) - 1
      BY <1>1, <1>3, Reaches
    <2>4. Len(st) > 0 /\ Len(Tail(st)) > 0
      BY <1>1, <2>3, Shorter
    <2>5. Stacked(PopReg(fpu), Tail(st))
      BY <2>4, PopsSt
    <2>6. QED
      BY <2>1, <2>2, <2>4, <2>5, PopsSt
  <1>4. CASE x.op \in {"fcom", "ftst", "fcomi"}
    <2>1. Fpu!Lifted(x) = fpu
      BY <1>4, Operands DEF Fpu!Lifted, Fpu!window_compare, Fpu!window_stack, Fpu!ring_compare, Fpu!Dropped
    <2>2. Fpu!FpuRun(x, st, cell.real) = st
      BY <1>4, Operands DEF Fpu!FpuRun
    <2>3. QED
      BY <2>1, <2>2
  <1>5. QED
    BY <1>2, <1>3, <1>4

LEMMA MoveOp ==
  ASSUME Stacked(fpu, st), NEW x \in Fpu!FpuInstructions, Fpu!Fits(x), ~Fpu!Dropped(x),
         model \in {"window", "ring"}, eflags.lifted = eflags.real,
         x.op \in {"fxch", "fcmovb"}
  PROVE  Stacked(Fpu!Lifted(x), Fpu!FpuRun(x, st, cell.real))
  <1> USE DEF Fpu!Loads, Fpu!Stores, Fpu!Comparing, Fpu!Functions, Fpu!Constants, Fpu!Unary, Fpu!ArithmeticOps
  <1>1. IsSequence(st) /\ Len(st) \in Nat
    BY Lengths DEF Stacked
  <1>2. x.i \in 0 .. Len(st) - 1
    BY <1>1, Reaches
  <1>3. 0 \in 0 .. Len(st) - 1
    BY <1>1, <1>2
  <1>4. RegAt(fpu, 0) = st[1] /\ RegAt(fpu, x.i) = st[x.i + 1]
    BY <1>2, <1>3, ReadsSt
  <1>5. PICK w, s : w = SetReg(fpu, 0, RegAt(fpu, x.i)) /\ s = [st EXCEPT ![0 + 1] = st[x.i + 1]]
    OBVIOUS
  <1>6. Stacked(w, s)
    BY <1>3, <1>4, <1>5, WritesSt
  <1>7. CASE x.op = "fxch"
    <2>1. Fpu!Lifted(x) = SetReg(w, x.i, RegAt(fpu, 0))
      BY <1>5, <1>7, Operands DEF Fpu!Lifted, Fpu!window_stack, Fpu!ring_fxch, SetReg, RegAt
    <2>2. Fpu!FpuRun(x, st, cell.real) = [s EXCEPT ![x.i + 1] = st[1]]
      BY <1>5, <1>7, Operands DEF Fpu!FpuRun
    <2>3. Len(s) = Len(st)
      BY <1>1, <1>3, <1>5, KeepsLength
    <2>4. x.i \in 0 .. Len(s) - 1
      BY <1>2, <2>3
    <2>5. Stacked(SetReg(w, x.i, st[1]), [s EXCEPT ![x.i + 1] = st[1]])
      BY <1>6, <2>4, WritesSt
    <2>6. QED
      BY <1>4, <2>1, <2>2, <2>5
  <1>8. CASE x.op = "fcmovb"
    <2>1. Fpu!Lifted(x) = IF eflags.real < 0 THEN w ELSE fpu
      BY <1>5, <1>8, Operands DEF Fpu!Lifted, Fpu!ring_fcmov, SetReg, RegAt, Fpu!Dropped
    <2>2. Fpu!FpuRun(x, st, cell.real) = IF eflags.real < 0 THEN s ELSE st
      BY <1>5, <1>8, Operands DEF Fpu!FpuRun
    <2>3. QED
      BY <1>6, <2>1, <2>2
  <1>9. QED
    BY <1>7, <1>8

LEMMA FunctionOp ==
  ASSUME Stacked(fpu, st), NEW x \in Fpu!FpuInstructions, Fpu!Fits(x), ~Fpu!Dropped(x),
         model \in {"window", "ring"}, x.op \in Fpu!Functions
  PROVE  Stacked(Fpu!Lifted(x), Fpu!FpuRun(x, st, cell.real))
  <1> USE DEF Fpu!Loads, Fpu!Stores, Fpu!Comparing, Fpu!Functions, Fpu!Constants, Fpu!Unary, Fpu!ArithmeticOps
  <1>1. IsSequence(st) /\ Len(st) \in Nat
    BY Lengths DEF Stacked
  <1>2. 0 \in 0 .. Len(st) - 1
    <2>1. 1 \in 0 .. Len(st) - 1 \/ x.i \in 0 .. Len(st) - 1
      BY <1>1, Reaches
    <2>2. QED
      BY <1>1, <2>1
  <1>3. RegAt(fpu, 0) = st[1]
    BY <1>2, ReadsSt
  <1>4. CASE x.op \in Fpu!Unary
    <2>1. PICK r : r = Fpu!UnaryOf(x.op, st[1])
      OBVIOUS
    <2>2. Fpu!Lifted(x) = SetReg(fpu, 0, r)
      <3>1. CASE model = "window"
        BY <1>3, <1>4, <2>1, <3>1, Operands DEF Fpu!Lifted, Fpu!window_function, SetReg, RegAt
      <3>2. CASE model = "ring"
        BY <1>3, <1>4, <2>1, <3>2, Operands DEF Fpu!Lifted, Fpu!ring_function, SetReg, RegAt
      <3>3. QED
        BY <3>1, <3>2
    <2>3. Fpu!FpuRun(x, st, cell.real) = [st EXCEPT ![0 + 1] = r]
      BY <1>4, <2>1, Operands DEF Fpu!FpuRun
    <2>4. QED
      BY <1>2, <2>2, <2>3, WritesSt
  <1>5. CASE x.op = "fptan"
    <2>1. PICK r : r = Fpu!Transcendental(st[1])
      OBVIOUS
    <2>2. PICK w, s : w = SetReg(fpu, 0, r) /\ s = [st EXCEPT ![0 + 1] = r]
      OBVIOUS
    <2>3. Fpu!Lifted(x) = PushReg(w, 1)
      BY <1>3, <1>5, <2>1, <2>2, Operands DEF Fpu!Lifted, Fpu!window_function, Fpu!ring_function, SetReg, RegAt, PushReg
    <2>4. Fpu!FpuRun(x, st, cell.real) = Fpu!Push(s, 1)
      BY <1>5, <2>1, <2>2, Operands DEF Fpu!FpuRun
    <2>5. Stacked(w, s)
      BY <1>2, <2>2, WritesSt
    <2>6. Len(s) = Len(st) /\ Len(st) < Slots
      <3>1. Len(st) < Slots
        BY <1>1, <1>5, Reaches DEF Fpu!Pushing
      <3>2. QED
        BY <1>1, <1>2, <2>2, <3>1, KeepsLength
    <2>7. QED
      BY <2>3, <2>4, <2>5, <2>6, PushesSt
  <1>6. CASE x.op \in {"fyl2x", "fpatan"}
    <2>1. 1 \in 0 .. Len(st) - 1
      BY <1>1, <1>6, Reaches
    <2>2. RegAt(fpu, 1) = st[2]
      BY <2>1, ReadsSt
    <2>3. PICK r : r = Fpu!Popping(x.op, st[1], st[2])
      OBVIOUS
    <2>4. Fpu!FpuRun(x, st, cell.real) = Tail([st EXCEPT ![1 + 1] = r])
      BY <1>6, <2>3, Operands DEF Fpu!FpuRun
    <2>5. CASE model = "window"
      <3>1. PICK y, t : y = PopReg(fpu) /\ t = Tail(st)
        OBVIOUS
      <3>2. Stacked(y, t)
        <4>1. Len(st) > 0
          BY <1>1, <2>1
        <4>2. QED
          BY <3>1, <4>1, PopsSt
      <3>3. Len(t) = Len(st) - 1 /\ t[1] = st[2]
        BY <1>1, <2>1, <3>1, Shorter
      <3>4. 0 \in 0 .. Len(t) - 1
        BY <1>1, <2>1, <3>3
      <3>5. RegAt(y, 0) = st[2]
        BY <3>2, <3>3, <3>4, ReadsSt
      <3>6. Fpu!Lifted(x) = SetReg(y, 0, r)
        BY <1>3, <1>6, <2>3, <2>5, <3>1, <3>5, Operands
        DEF Fpu!Lifted, Fpu!window_function, SetReg, RegAt, PopReg
      <3>7. Stacked(SetReg(y, 0, r), [t EXCEPT ![0 + 1] = r])
        BY <3>2, <3>4, WritesSt
      <3>8. Tail([st EXCEPT ![1 + 1] = r]) = [t EXCEPT ![1] = r]
        <4>1. PICK k \in 1 .. Len(st) - 1 : k = 1
          BY <1>1, <2>1
        <4>2. Tail([st EXCEPT ![k + 1] = r]) = [Tail(st) EXCEPT ![k] = r]
          BY <1>1, PopsBehind
        <4>3. QED
          BY <3>1, <4>1, <4>2
      <3>9. PICK k : k = 0 + 1 /\ k = 1
        OBVIOUS
      <3>10. Stacked(SetReg(y, 0, r), [t EXCEPT ![k] = r])
        BY <3>7, <3>9, Zenon
      <3>11. QED
        BY <2>4, <3>6, <3>8, <3>9, <3>10
    <2>6. CASE model = "ring"
      <3>1. Fpu!Lifted(x) = PopReg(SetReg(fpu, 1, r))
        BY <1>3, <1>6, <2>2, <2>3, <2>6, Operands DEF Fpu!Lifted, Fpu!ring_function, SetReg, RegAt, PopReg, Fpu!Dropped
      <3>2. QED
        BY <2>1, <2>4, <3>1, WritesPops
    <2>7. QED
      BY <2>5, <2>6
  <1>7. CASE x.op = "fprem"
    <2>1. 1 \in 0 .. Len(st) - 1
      BY <1>1, <1>7, Reaches
    <2>2. RegAt(fpu, 1) = st[2]
      BY <2>1, ReadsSt
    <2>3. PICK r : r = Fpu!Reduce(st[1], st[2])
      OBVIOUS
    <2>4. Fpu!Lifted(x) = SetReg(fpu, 0, r)
      BY <1>3, <1>7, <2>2, <2>3, Operands DEF Fpu!Lifted, Fpu!window_function, Fpu!ring_function, SetReg, RegAt
    <2>5. Fpu!FpuRun(x, st, cell.real) = [st EXCEPT ![0 + 1] = r]
      BY <1>7, <2>3, Operands DEF Fpu!FpuRun
    <2>6. QED
      BY <1>2, <2>4, <2>5, WritesSt
  <1>8. QED
    BY <1>4, <1>5, <1>6, <1>7

LEMMA ArithmeticOp ==
  ASSUME Stacked(fpu, st), NEW x \in Fpu!FpuInstructions, Fpu!Fits(x), ~Fpu!Dropped(x),
         model \in {"window", "ring"}, cell.lifted = cell.real, x.op \in Fpu!ArithmeticOps
  PROVE  Stacked(Fpu!Lifted(x), Fpu!FpuRun(x, st, cell.real))
  <1> USE DEF Fpu!Loads, Fpu!Stores, Fpu!Comparing, Fpu!Functions, Fpu!Constants, Fpu!Unary, Fpu!ArithmeticOps
  <1>1. IsSequence(st) /\ Len(st) \in Nat
    BY Lengths DEF Stacked
  <1>2. x.i \in 0 .. Len(st) - 1
    BY <1>1, Reaches
  <1>3. 0 \in 0 .. Len(st) - 1
    BY <1>1, <1>2
  <1>4. RegAt(fpu, 0) = st[1] /\ RegAt(fpu, x.i) = st[x.i + 1]
    BY <1>2, <1>3, ReadsSt
  <1>5. CASE x.form \in {"mem", "st0"}
    <2>1. PICK r : r = Fpu!Arithmetic(x.op, st[1], IF x.form = "mem" THEN cell.real ELSE st[x.i + 1])
      OBVIOUS
    <2>2. CASE x.form = "mem"
      <3>1. Fpu!Lifted(x) = SetReg(fpu, 0, r)
        BY <1>4, <2>1, <2>2 DEF Fpu!Lifted, Fpu!window_arith, Fpu!ring_arith, Fpu!_fpu_dst, Fpu!_fmt_fpu_src, SetReg, RegAt
      <3>2. Fpu!FpuRun(x, st, cell.real) = [st EXCEPT ![0 + 1] = r]
        BY <2>1, <2>2 DEF Fpu!FpuRun
      <3>3. QED
        BY <1>3, <3>1, <3>2, WritesSt
    <2>3. CASE x.form = "st0"
      <3>1. Fpu!Lifted(x) = SetReg(fpu, 0, r)
        BY <1>4, <2>1, <2>3 DEF Fpu!Lifted, Fpu!window_arith, Fpu!ring_arith, Fpu!_fpu_dst, Fpu!_fmt_fpu_src, SetReg, RegAt
      <3>2. Fpu!FpuRun(x, st, cell.real) = [st EXCEPT ![0 + 1] = r]
        BY <2>1, <2>3 DEF Fpu!FpuRun
      <3>3. QED
        BY <1>3, <3>1, <3>2, WritesSt
    <2>4. QED
      BY <1>5, <2>2, <2>3
  <1>6. PICK r : r = Fpu!Arithmetic(x.op, st[x.i + 1], st[1])
    OBVIOUS
  <1>7. CASE x.form = "sti"
    <2>1. Fpu!Lifted(x) = SetReg(fpu, x.i, r)
      BY <1>4, <1>6, <1>7 DEF Fpu!Lifted, Fpu!window_arith, Fpu!ring_arith, Fpu!_fpu_dst, Fpu!_fmt_fpu_src, SetReg, RegAt
    <2>2. Fpu!FpuRun(x, st, cell.real) = [st EXCEPT ![x.i + 1] = r]
      BY <1>6, <1>7 DEF Fpu!FpuRun
    <2>3. QED
      BY <1>2, <2>1, <2>2, WritesSt
  <1>8. CASE x.form = "pop"
    <2>1. Fpu!FpuRun(x, st, cell.real) = Tail([st EXCEPT ![x.i + 1] = r])
      BY <1>6, <1>8 DEF Fpu!FpuRun
    <2>2. CASE model = "window"
      <3>1. PICK k \in 1 .. Len(st) - 1 : k = x.i
        BY <1>1, <1>2, <1>8, <2>2 DEF Fpu!Dropped
      <3>2. PICK y, t : y = PopReg(fpu) /\ t = Tail(st)
        OBVIOUS
      <3>3. Stacked(y, t)
        <4>1. Len(st) > 0
          BY <1>1, <1>2
        <4>2. QED
          BY <3>2, <4>1, PopsSt
      <3>4. Len(t) = Len(st) - 1 /\ t[k] = st[k + 1]
        BY <1>1, <3>1, <3>2, Shorter
      <3>5. PICK n \in 0 .. Len(t) - 1 : n = k - 1 /\ n + 1 = k
        BY <1>1, <3>1, <3>4
      <3>6. RegAt(y, n) = st[k + 1]
        BY <3>3, <3>4, <3>5, ReadsSt
      <3>7. Fpu!_fpu_popdst(x.i) = n
        BY <1>1, <3>1, <3>5 DEF Fpu!_fpu_popdst
      <3>8. Fpu!Lifted(x) = SetReg(y, n, r)
        BY <1>4, <1>6, <1>8, <2>2, <3>1, <3>2, <3>6, <3>7 DEF Fpu!Lifted, Fpu!window_arith, SetReg, RegAt, PopReg
      <3>9. Stacked(SetReg(y, n, r), [t EXCEPT ![n + 1] = r])
        BY <3>3, <3>5, WritesSt
      <3>10. Tail([st EXCEPT ![k + 1] = r]) = [t EXCEPT ![k] = r]
        BY <1>1, <3>1, <3>2, PopsBehind
      <3>11. Stacked(SetReg(y, n, r), [t EXCEPT ![k] = r])
        BY <3>5, <3>9, Zenon
      <3>12. QED
        BY <2>1, <3>1, <3>8, <3>10, <3>11
    <2>3. CASE model = "ring"
      <3>1. Fpu!Lifted(x) = PopReg(SetReg(fpu, x.i, r))
        BY <1>4, <1>6, <1>8, <2>3 DEF Fpu!Lifted, Fpu!ring_arith, SetReg, RegAt, PopReg
      <3>2. Stacked(PopReg(SetReg(fpu, x.i, r)), Tail([st EXCEPT ![x.i + 1] = r]))
        BY <1>2, WritesPops, Zenon
      <3>3. QED
        BY <2>1, <3>1, <3>2, Zenon
    <2>4. QED
      BY <2>2, <2>3
  <1>9. QED
    BY <1>5, <1>7, <1>8, Operands

\* Any instruction that both emitters translate.
LEMMA FpuStep ==
  ASSUME Stacked(fpu, st), NEW x \in Fpu!FpuInstructions, Fpu!Fits(x), ~Fpu!Dropped(x),
         model \in {"window", "ring"}, cell.lifted = cell.real, eflags.lifted = eflags.real
  PROVE  Stacked(Fpu!Lifted(x), Fpu!FpuRun(x, st, cell.real))
  <1>1. CASE x.op \in Fpu!Loads
    BY <1>1, LoadOp
  <1>2. CASE x.op \in Fpu!Stores
    BY <1>2, StoreOp
  <1>3. CASE x.op \in Fpu!Comparing \cup {"fcomi", "fcomip", "fincstp_ffree"}
    BY <1>3, CompareOp
  <1>4. CASE x.op \in {"fxch", "fcmovb"}
    BY <1>4, MoveOp
  <1>5. CASE x.op \in Fpu!Functions
    BY <1>5, FunctionOp
  <1>6. CASE x.op \in Fpu!ArithmeticOps
    BY <1>6, ArithmeticOp
  <1>7. QED
    BY <1>1, <1>2, <1>3, <1>4, <1>5, <1>6, Operands

----------------------------------------------------------------------------
\* The whole state of an x87 program.

FpuInv ==
  /\ model \in {"window", "ring"}
  /\ Stacked(fpu, st)
  /\ cell.lifted = cell.real
  /\ eflags.lifted = eflags.real
  /\ cmp.lifted = cmp.real /\ cmp.real \in {-1, 0, 1}

LEMMA LiftedReads ==
  ASSUME FpuInv, NEW i
  PROVE  Fpu!LiftedSt(i) = RegAt(fpu, i)
  BY DEF FpuInv, Fpu!LiftedSt, RegAt

LEMMA FpuStarts ==
  ASSUME NEW m \in {"window", "ring"}, Fpu!FpuStart(m)
  PROVE  FpuInv
  <1>1. IsSequence(st) /\ Len(st) = 0
    BY DEF Fpu!FpuStart, IsSequence
  <1>2. DOMAIN fpu = {"top", "slot"} /\ DOMAIN fpu.slot = 0 .. Slots - 1 /\ fpu.top = 0
    BY DEF Fpu!FpuStart, Fpu!Empty
  <1>3. Stacked(fpu, st)
    BY <1>1, <1>2, BenchAssumption DEF Stacked, TopAt
  <1>4. QED
    BY <1>3 DEF FpuInv, Fpu!FpuStart

LEMMA FpuKept ==
  ASSUME FpuInv, Fpu!FpuNext
  PROVE  FpuInv'
  <1>1. PICK x \in Fpu!FpuInstructions : Fpu!FpuExecute(x)
    BY DEF Fpu!FpuNext
  <1>2. /\ Fpu!Fits(x) /\ ~Fpu!Dropped(x)
        /\ st' = Fpu!FpuRun(x, st, cell.real)
        /\ fpu' = Fpu!Lifted(x)
        /\ cell' = IF x.op \in Fpu!Stores /\ x.form = "mem"
                   THEN [real |-> st[1], lifted |-> Fpu!LiftedSt(0)] ELSE cell
        /\ cmp' = IF x.op \in Fpu!Comparing THEN Fpu!Outcomes(x) ELSE cmp
        /\ eflags' = IF x.op \in {"fcomi", "fcomip"} THEN Fpu!Outcomes(x) ELSE eflags
        /\ model' = model
    BY <1>1 DEF Fpu!FpuExecute
  <1>3. PICK w, s : w = Fpu!Lifted(x) /\ s = Fpu!FpuRun(x, st, cell.real)
    OBVIOUS
  <1>4. Stacked(w, s)
    BY <1>2, <1>3, FpuStep DEF FpuInv
  <1>5. Stacked(fpu, st)'
    <2>1. fpu' = w /\ st' = s
      BY <1>2, <1>3
    <2>2. QED
      BY <1>2, <1>4, <2>1 DEF Stacked, TopAt, Place
  <1>6. IsSequence(st) /\ Len(st) \in Nat /\ Stacked(fpu, st)
    BY Lengths DEF FpuInv, Stacked
  <1>7. ASSUME x.op \in Fpu!Stores \cup Fpu!Comparing \cup {"fcomi", "fcomip"}
        PROVE  0 \in 0 .. Len(st) - 1
    <2>1. x.i \in 0 .. Len(st) - 1 \/ 1 \in 0 .. Len(st) - 1
      BY <1>2, <1>6, <1>7, Reaches DEF Fpu!Stores, Fpu!Comparing, Fpu!Constants
    <2>2. QED
      BY <1>6, <2>1
  <1>8. ASSUME x.op \in Fpu!Comparing \cup {"fcomi", "fcomip"}
        PROVE  Fpu!Other(x) \in 0 .. Len(st) - 1
    BY <1>2, <1>6, <1>8, Reaches DEF Fpu!Comparing, Fpu!Constants, Fpu!Other
  <1>9. ASSUME x.op \in Fpu!Comparing \cup {"fcomi", "fcomip"}
        PROVE  Fpu!Outcomes(x).lifted = Fpu!Outcomes(x).real
    <2>1. RegAt(fpu, 0) = st[0 + 1] /\ RegAt(fpu, Fpu!Other(x)) = st[Fpu!Other(x) + 1]
      BY <1>6, <1>7, <1>8, <1>9, ReadsSt
    <2>2. Fpu!LiftedSt(0) = RegAt(fpu, 0) /\ Fpu!LiftedSt(Fpu!Other(x)) = RegAt(fpu, Fpu!Other(x))
      BY LiftedReads
    <2>3. QED
      BY <2>1, <2>2 DEF Fpu!Outcomes
  <1>10. ASSUME x.op \in Fpu!Stores
         PROVE  Fpu!LiftedSt(0) = st[1]
    <2>1. RegAt(fpu, 0) = st[0 + 1]
      BY <1>6, <1>7, <1>10, ReadsSt
    <2>2. Fpu!LiftedSt(0) = RegAt(fpu, 0)
      BY LiftedReads
    <2>3. QED
      BY <2>1, <2>2
  <1>11. cell'.lifted = cell'.real
    BY <1>2, <1>10 DEF FpuInv
  <1>12. cmp'.lifted = cmp'.real /\ eflags'.lifted = eflags'.real
    BY <1>2, <1>9 DEF FpuInv
  <1>13. Fpu!Outcomes(x).real \in {-1, 0, 1}
    BY DEF Fpu!Outcomes, Fpu!Outcome, Fpu!Compare
  <1>14. cmp'.real \in {-1, 0, 1}
    BY <1>2, <1>13 DEF FpuInv
  <1>15. QED
    BY <1>2, <1>5, <1>11, <1>12, <1>14 DEF FpuInv

LEMMA FpuSame ==
  ASSUME FpuInv
  PROVE  Fpu!FpuAgrees
  <1>1. Len(st) \in Nat /\ Len(st) <= Slots /\ Stacked(fpu, st) /\ fpu.top = TopAt(Len(st))
    BY Lengths DEF FpuInv, Stacked
  <1>2. IF model = "window" THEN fpu.top = Len(st) ELSE (Slots - fpu.top) % Slots = Len(st) % Slots
    <2>1. CASE model = "window"
      BY <1>1, <2>1 DEF TopAt
    <2>2. CASE model # "window" /\ Len(st) = 0
      <3>1. fpu.top = 0 /\ Slots - 0 = Slots /\ 0 \in 0 .. Slots - 1
        BY <1>1, <2>2, BenchAssumption DEF TopAt
      <3>2. Slots % Slots = 0 /\ 0 % Slots = 0
        BY <3>1, Wraps
      <3>3. QED
        BY <2>2, <3>1, <3>2
    <2>3. CASE model # "window" /\ Len(st) # 0
      BY <1>1, <2>3, BenchAssumption DEF TopAt
    <2>4. QED
      BY <2>1, <2>2, <2>3
  <1>3. ASSUME NEW i \in 0 .. Len(st) - 1
        PROVE  Fpu!LiftedSt(i) = st[i + 1]
    BY <1>1, ReadsSt, LiftedReads
  <1>4. Fpu!StatusWord(cmp.real) = IF model = "window" THEN Fpu!window_fnstsw(cmp.lifted)
                                                       ELSE Fpu!ring_fnstsw(cmp.lifted)
    <2>1. PICK c \in {-1, 0, 1} : c = cmp.real /\ c = cmp.lifted
      BY DEF FpuInv
    <2>2. Fpu!StatusWord(c) = Fpu!ring_fnstsw(c)
      BY DEF Fpu!StatusWord, Fpu!ring_fnstsw
    <2>3. Fpu!StatusWord(c) = Fpu!window_fnstsw(c)
      <3>1. CASE c = -1
        <4>1. (c < 0) = TRUE /\ (c = 0) = FALSE
          BY <3>1
        <4>2. Fpu!window_fnstsw(c) = [c0 |-> TRUE, c3 |-> FALSE]
          BY <4>1 DEF Fpu!window_fnstsw
        <4>3. QED
          BY <4>1, <4>2, Zenon DEF Fpu!StatusWord
      <3>2. CASE c = 0
        <4>1. (c < 0) = FALSE /\ (c = 0) = TRUE
          BY <3>2
        <4>2. Fpu!window_fnstsw(c) = [c0 |-> FALSE, c3 |-> TRUE]
          BY <4>1 DEF Fpu!window_fnstsw
        <4>3. QED
          BY <4>1, <4>2, Zenon DEF Fpu!StatusWord
      <3>3. CASE c = 1
        <4>1. (c < 0) = FALSE /\ (c = 0) = FALSE
          BY <3>3
        <4>2. Fpu!window_fnstsw(c) = [c0 |-> FALSE, c3 |-> FALSE]
          BY <4>1 DEF Fpu!window_fnstsw
        <4>3. QED
          BY <4>1, <4>2, Zenon DEF Fpu!StatusWord
      <3>4. QED
        BY <2>1, <3>1, <3>2, <3>3
    <2>4. QED
      BY <2>1, <2>2, <2>3
  <1>5. QED
    BY <1>2, <1>3, <1>4 DEF Fpu!FpuAgrees, FpuInv

\* However a program of x87 instructions goes on, as long as it uses none of the
\* forms Dropped lists for its lifter, both lifted stacks hold what the
\* processor's does, register by register, and so do the stored values and the
\* comparisons (difftest.py:122-128); for every number of registers.
THEOREM FpuAgreesAlways == BenchSpec => []FpuAgrees
<1>1. BenchInit => FpuInv
  BY FpuStarts DEF BenchInit, FpuIdle, Fpu!FpuInit
<1>2. FpuInv /\ [BenchNext]_<<bench, vars, fvars, svars, kvars, wvars, lvars, mvars>> => FpuInv'
  <2>1. ASSUME FpuInv, UNCHANGED fvars  PROVE FpuInv'
    BY <2>1 DEF fvars, FpuInv, Stacked, TopAt, Place
  <2>2. QED
    BY <2>1, FpuKept DEF BenchNext
<1>3. FpuInv => FpuAgrees
  BY FpuSame DEF FpuAgrees
<1>4. QED
  BY <1>1, <1>2, <1>3, PTL DEF BenchSpec
=============================================================================
