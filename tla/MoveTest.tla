------------------------------ MODULE MoveTest ------------------------------
(* Operands: which register bits an instruction reads and replaces, and the  *)
(* address a memory operand names.  Each lifter forms addresses its own way: *)
(* lift32 flat with thread-relative fs, lift32_cpu for an image that may be  *)
(* loaded away from its base, lift16 as segment and 16-bit offset.           *)
(*                                                                           *)
(* A byte is one bit, so a full register has four and addresses are 0 .. 15. *)
EXTENDS Integers, FiniteSets

CONSTANTS RegisterValues, \* start values of a and b
          Memories        \* start contents of memory, as numbers

VARIABLES mover,          \* "lift32", "lift32_cpu" or "lift16"
          delta,          \* how far from its base the program is loaded
          mach,           \* the processor: [a, b, ds, es, ss, cs, fs, zf, mem]
          twin,           \* the same as the lifted C has it
          moved
mvars == <<mover, delta, mach, twin, moved>>

Places == 0 .. 15
Flat == mover # "lift16"
Cut(v, size) == v % 2 ^ size
Minus(v, size) == IF v >= 2 ^ (size - 1) THEN v - 2 ^ size ELSE v
Swapped(v) == 8 * (v % 2) + 4 * ((v \div 2) % 2) + 2 * ((v \div 4) % 2) + v \div 8
Fetch(mem, p, n) ==
    LET byte(k) == IF k < n THEN mem[(p + k) % 16] * 2 ^ k ELSE 0
    IN byte(0) + byte(1) + byte(2) + byte(3)
Stored(mem, p, n, v) ==
    [q \in Places |-> IF (q - p) % 16 < n THEN (v \div 2 ^ ((q - p) % 16)) % 2 ELSE mem[q]]

----------------------------------------------------------------------------
(* Operands and instructions.                                                *)

\* t is "reg", "sreg", "imm" or "mem"; rel says what the loader does to the
\* constant: nothing, relocate it, or the program itself overwrites it.
O(t, r, idx, disp, rel, seg, size, hi) ==
    [t |-> t, r |-> r, idx |-> idx, disp |-> disp, rel |-> rel, seg |-> seg, size |-> size, hi |-> hi]
RegOperands == {O("reg", r, "none", 0, "const", "ds", p[1], p[2]) :
                   r \in {"a", "b"}, p \in {<<4, FALSE>>, <<2, FALSE>>, <<1, FALSE>>, <<1, TRUE>>}}
SegOperands == {O("sreg", r, "none", 0, "const", "ds", 2, FALSE) : r \in {"ds", "cs"}}
Site == 10                \* where the program patches its own immediate
Immediates ==
    {O("imm", "none", "none", 5, "const", "ds", n, FALSE) : n \in {1, 2, 4}}
    \cup (IF mover = "lift32" THEN {O("imm", "none", "none", 5, "patched", "ds", 4, FALSE)} ELSE {})
    \cup (IF mover = "lift32_cpu" THEN {O("imm", "none", "none", 5, "reloc", "ds", 4, FALSE)} ELSE {})
    \cup (IF mover = "lift16" THEN {O("imm", "none", "none", 5, "reloc", "ds", 2, FALSE)} ELSE {})
\* [b], [b+5], [a+b*2+5], an absolute table, and a segment override.
Shapes ==
    {<<"b", "none", 0, "const", "ds">>, <<"b", "none", 5, "const", "ds">>, <<"a", "b", 5, "const", "ds">>}
    \cup (IF Flat THEN {<<"none", "none", 3, "const", "fs">>, <<"b", "none", 0, "const", "fs">>}
          ELSE {<<"b", "none", 1, "const", s>> : s \in {"es", "ss", "cs"}} \cup {<<"none", "none", 2, "const", "ds">>})
    \cup (IF mover = "lift32_cpu" THEN {<<"none", "none", 5, "reloc", "ds">>, <<"b", "none", 5, "reloc", "ds">>} ELSE {})
MemOperands == {O("mem", s[1], s[2], s[3], s[4], s[5], n, FALSE) : s \in Shapes, n \in {1, 2, 4}}

X(ops, ds, ss) == [op : ops, d : ds, s : ss]
SameSize(x) == x.d.size = x.s.size
Wider(x) == x.d.size > x.s.size
Fulls(set) == {o \in set : o.size = 4}
Words2(set) == {o \in set : o.size = 2}
MoveInstructions ==
    {x \in X({"mov"}, RegOperands \cup MemOperands, RegOperands \cup Immediates)
           \cup X({"mov"}, RegOperands, MemOperands) \cup X({"xchg"}, RegOperands \cup MemOperands, RegOperands) :
        SameSize(x)}
    \cup {x \in X({"movzx", "movsx"}, RegOperands, RegOperands \cup MemOperands) : Wider(x) /\ x.s.size < 4}
    \cup {x \in X({"lea"}, RegOperands, MemOperands) : SameSize(x) /\ x.d.size > 1 /\ x.s.seg = "ds"}
    \cup X({"lds"}, IF Flat THEN Fulls(RegOperands) ELSE Words2(RegOperands),
                    IF Flat THEN Fulls(MemOperands) ELSE Words2(MemOperands))
    \cup (IF Flat THEN X({"bswap"}, Fulls(RegOperands), Fulls(RegOperands)) ELSE {})
    \cup (IF mover = "lift32_cpu" THEN X({"xadd", "cmpxchg"}, Fulls(MemOperands), Fulls(RegOperands)) ELSE {})
    \cup (IF mover = "lift16" THEN X({"mov"}, Words2(RegOperands), SegOperands) ELSE {})

----------------------------------------------------------------------------
(* The processor.                                                            *)

Reg(m, r) == IF r = "none" THEN 0 ELSE m[r]
\* The constant as the loader, or the program, left it in the code.
Constant(o, m) == CASE o.rel = "reloc" -> o.disp + delta
                    [] o.rel = "patched" -> Fetch(m.mem, Site, 4)
                    [] OTHER -> o.disp
Offset(o, m) == IF Flat THEN (Reg(m, o.r) + 2 * Reg(m, o.idx) + Constant(o, m)) % 16
                ELSE Cut(Cut(Reg(m, o.r), 2) + Cut(Reg(m, o.idx), 2) + o.disp, 2)
Linear(o, m) == CASE Flat -> (Offset(o, m) + (IF o.seg = "fs" THEN m.fs ELSE 0)) % 16
                  [] OTHER -> m[o.seg] * 2 + Offset(o, m)
InPart(v, o) == IF o.hi THEN (v \div 2) % 2 ELSE Cut(v, o.size)
IntoPart(old, o, v) == IF o.hi THEN old - 2 * InPart(old, o) + 2 * (v % 2)
                       ELSE old - InPart(old, o) + Cut(v, o.size)
ReadReal(o, m) == CASE o.t = "reg" -> InPart(m[o.r], o)
                    [] o.t = "sreg" -> m[o.r]
                    [] o.t = "imm" -> Cut(Constant(o, m), o.size)
                    [] o.t = "mem" -> Fetch(m.mem, Linear(o, m), o.size)
WriteReal(o, m, v) == IF o.t = "mem" THEN [m EXCEPT !.mem = Stored(@, Linear(o, m), o.size, v)]
                      ELSE [m EXCEPT ![o.r] = IntoPart(@, o, v)]
Equal(a, b) == IF a = b THEN 1 ELSE 0

MoveRun(x, m) ==
    LET s == IF x.op \in {"lea", "bswap"} THEN 0 ELSE ReadReal(x.s, m)
        d == IF x.op \in {"xchg", "xadd", "cmpxchg"} THEN ReadReal(x.d, m) ELSE 0
    IN CASE x.op \in {"mov", "movzx"} -> WriteReal(x.d, m, s)
         [] x.op = "movsx" -> WriteReal(x.d, m, Cut(Minus(s, x.s.size), 4))
         [] x.op = "lea" -> WriteReal(x.d, m, Offset(x.s, m))
         [] x.op = "xchg" -> WriteReal(x.s, WriteReal(x.d, m, s), d)
         [] x.op = "bswap" -> WriteReal(x.d, m, Swapped(m[x.d.r]))
         [] x.op = "xadd" -> [WriteReal(x.s, WriteReal(x.d, m, s + d), d) EXCEPT !.zf = Equal(Cut(s + d, 4), 0)]
         [] x.op = "cmpxchg" -> [(IF m.a = d THEN WriteReal(x.d, m, s) ELSE [m EXCEPT !.a = d])
                                    EXCEPT !.zf = Equal(m.a, d)]
         [] x.op = "lds" -> [WriteReal(x.d, m, s) EXCEPT !.ds = Fetch(m.mem, Linear(x.s, m) + x.s.size, 2)]

----------------------------------------------------------------------------
(* lift32.                                                                   *)

SET_LO(r, v, size) == (r \div 2 ^ size) * 2 ^ size + Cut(v, size)
SET_HI8(r, v) == (r \div 4) * 4 + 2 * (v % 2) + (r % 2)
_fmt_mem_addr(o, m) ==
    LET addr == Reg(m, o.r) + 2 * Reg(m, o.idx) + o.disp
    IN IF o.seg = "fs" THEN (m.fs + addr) % 16 ELSE addr % 16
_patched_imm(o, m) == IF o.rel = "patched" THEN Fetch(m.mem, Site, 4) ELSE o.disp
_fmt_read(o, m) ==
    CASE o.t = "reg" -> IF o.hi THEN (m[o.r] \div 2) % 2 ELSE Cut(m[o.r], o.size)
      [] o.t = "imm" -> Cut(_patched_imm(o, m), o.size)
      [] o.t = "mem" -> Fetch(m.mem, _fmt_mem_addr(o, m), o.size)
_fmt_write(o, m, v) ==
    CASE o.t = "mem" -> [m EXCEPT !.mem = Stored(@, _fmt_mem_addr(o, m), o.size, v)]
      [] o.hi -> [m EXCEPT ![o.r] = SET_HI8(@, v)]
      [] OTHER -> [m EXCEPT ![o.r] = SET_LO(@, v, o.size)]
lift32_move(x, m) ==
    LET tmp == _fmt_read(x.d, m) IN
    CASE x.op \in {"mov", "movzx"} -> _fmt_write(x.d, m, _fmt_read(x.s, m))
      [] x.op = "movsx" -> _fmt_write(x.d, m, Minus(_fmt_read(x.s, m), x.s.size) % 16)
      [] x.op = "lea" -> _fmt_write(x.d, m, _fmt_mem_addr(x.s, m))
      [] x.op = "xchg" -> _fmt_write(x.s, _fmt_write(x.d, m, _fmt_read(x.s, m)), tmp)
      [] x.op = "bswap" -> _fmt_write(x.d, m, Swapped(tmp))
      \* the selector is read with the register already replaced
      [] x.op = "lds" -> LET n == _fmt_write(x.d, m, _fmt_read(x.s, m)) IN
            [n EXCEPT !.ds = Fetch(n.mem, _fmt_mem_addr(x.s, n) + 4, 2)]

----------------------------------------------------------------------------
(* lift32_cpu: absolute addresses are moved with the image.                  *)

GVA(v) == v + delta
in_image(v) == v \in 4 .. 11
\* Mutant: whatever looks like an address of the image is one.
disp_is_addr_bug(o) == in_image(o.disp)
\* With a relocation table it alone says so.
disp_is_addr(o) == o.rel = "reloc"
addr_expr(o, m) ==
    (Reg(m, o.r) + 2 * Reg(m, o.idx) + (IF disp_is_addr(o) THEN GVA(o.disp) ELSE o.disp)) % 16
seg_off(o, m) == (Reg(m, o.r) + 2 * Reg(m, o.idx) + o.disp) % 16
rd(o, m) == Fetch(m.mem, IF o.seg = "fs" THEN (m.fs + seg_off(o, m)) % 16 ELSE addr_expr(o, m), o.size)
wr(o, m, v) ==
    [m EXCEPT !.mem = Stored(@, IF o.seg = "fs" THEN (m.fs + seg_off(o, m)) % 16 ELSE addr_expr(o, m), o.size, v)]
reg_read(o, m) == IF o.hi THEN (m[o.r] \div 2) % 2 ELSE Cut(m[o.r], o.size)
reg_write(o, m, v) ==
    [m EXCEPT ![o.r] = CASE o.size = 4 -> Cut(v, 4) [] o.hi -> SET_HI8(@, v) [] OTHER -> SET_LO(@, v, o.size)]
src(o, m) == CASE o.t = "reg" -> reg_read(o, m)
               [] o.t = "imm" -> Cut(IF o.size = 4 /\ o.rel = "reloc" THEN GVA(o.disp) ELSE o.disp, o.size)
               [] o.t = "mem" -> rd(o, m)
dst_write(o, m, v) == IF o.t = "mem" THEN wr(o, m, v) ELSE reg_write(o, m, v)
cpu_move(x, m) ==
    CASE x.op \in {"mov", "movzx"} -> dst_write(x.d, m, src(x.s, m))
      [] x.op = "movsx" -> dst_write(x.d, m, Minus(src(x.s, m), x.s.size) % 16)
      [] x.op = "lea" -> reg_write(x.d, m, addr_expr(x.s, m))
      [] x.op = "xchg" -> dst_write(x.s, dst_write(x.d, m, src(x.s, m)), src(x.d, m))
      [] x.op = "bswap" -> dst_write(x.d, m, Swapped(src(x.d, m)))
      [] x.op = "lds" -> LET a == addr_expr(x.s, m) IN
            [dst_write(x.d, m, Fetch(m.mem, a, 4)) EXCEPT !.ds = Fetch(m.mem, a + 4, 2)]
interlocked(x, m) ==
    LET a == addr_expr(x.d, m)
        v == src(x.s, m)
        old == Fetch(m.mem, a, 4)
    IN IF x.op = "xadd"
       THEN [dst_write(x.s, [m EXCEPT !.mem = Stored(@, a, 4, old + v)], old) EXCEPT !.zf = Equal((old + v) % 16, 0)]
       ELSE [m EXCEPT !.mem = IF old = m.a THEN Stored(@, a, 4, v) ELSE @,
                      !.zf = Equal(m.a, old), !.a = IF old # @ THEN old ELSE @]

----------------------------------------------------------------------------
(* lift16: cs is the constant segment of the function, whatever cpu->cs says.*)

CodeSegment == 4
_cseg(s, m) == IF s = "cs" THEN CodeSegment ELSE m[s]
mem_off(o, m) == Cut(Cut(Reg(m, o.r), 2) + Cut(Reg(m, o.idx), 2) + o.disp, 2)
seg_addr(o, m) == _cseg(o.seg, m) * 2 + mem_off(o, m)
\* A segment value that the DOS loader would rebase is rebased in the text.
rebased(o) == IF o.rel = "reloc" THEN o.disp + delta ELSE o.disp
_read16(o, m) ==
    CASE o.t = "reg" -> IF o.hi THEN (m[o.r] \div 2) % 2 ELSE Cut(m[o.r], o.size)
      [] o.t = "sreg" -> _cseg(o.r, m)
      [] o.t = "imm" -> Cut(rebased(o), o.size)
      [] o.t = "mem" -> Fetch(m.mem, seg_addr(o, m), o.size)
_write16(o, m, v) ==
    CASE o.t = "mem" -> [m EXCEPT !.mem = Stored(@, seg_addr(o, m), o.size, v)]
      [] o.hi -> [m EXCEPT ![o.r] = SET_HI8(@, v)]
      [] OTHER -> [m EXCEPT ![o.r] = SET_LO(@, v, o.size)]
lift16_move(x, m) ==
    CASE x.op \in {"mov", "movzx"} -> _write16(x.d, m, _read16(x.s, m))
      [] x.op = "movsx" -> _write16(x.d, m, Minus(_read16(x.s, m), x.s.size) % 16)
      [] x.op = "lea" -> _write16(x.d, m, mem_off(x.s, m))
      \* through a uint16_t
      [] x.op = "xchg" -> _write16(x.s, _write16(x.d, m, _read16(x.s, m)), Cut(_read16(x.d, m), 2))
      \* both words before either register
      [] x.op = "lds" -> LET s == Fetch(m.mem, _cseg(x.s.seg, m) * 2 + Cut(mem_off(x.s, m) + 2, 2), 2) IN
            [_write16(x.d, m, _read16(x.s, m)) EXCEPT !.ds = s]

----------------------------------------------------------------------------
\* lds of lift32 through the register it loads, and a 32-bit xchg of lift16;
\* the far pointer of lift32_cpu is read without its segment.
MoveKnown(x) ==
    \/ mover = "lift32" /\ x.op = "lds" /\ x.d.r \in {x.s.r, x.s.idx}
    \/ mover = "lift32_cpu" /\ x.op \in {"lds", "xadd", "cmpxchg"}
       /\ "fs" \in {x.d.seg, x.s.seg}
    \/ mover = "lift16" /\ x.op = "xchg" /\ x.d.size = 4

\* A 16-bit access does not run past the end of its segment.
InSegment(x) ==
    IF Flat THEN TRUE
    ELSE \A o \in {x.d, x.s} : o.t = "mem" /\ x.op # "lea" =>
            Offset(o, mach) + (IF x.op = "lds" THEN 4 ELSE o.size) <= 4

MoveStart(l, d, a, b, n) ==
    /\ mover = l
    /\ delta = d
    /\ mach = [a |-> a, b |-> b, ds |-> 1, es |-> 3, ss |-> 2, cs |-> CodeSegment, fs |-> 6, zf |-> 0,
               mem |-> [p \in Places |-> (n \div 2 ^ p) % 2]]
    \* cpu->cs is not maintained across calls
    /\ twin = [mach EXCEPT !.cs = 0]
    /\ moved = FALSE

\* lift32's images are always at their base.
Deltas(l) == IF l = "lift32" THEN {0} ELSE {0, 2}
MoveExecute(x) ==
    /\ ~moved /\ ~MoveKnown(x) /\ InSegment(x)
    /\ mach' = MoveRun(x, mach)
    /\ twin' = CASE mover = "lift32" -> lift32_move(x, twin)
                 [] mover = "lift16" -> lift16_move(x, twin)
                 [] x.op \in {"xadd", "cmpxchg"} -> interlocked(x, twin)
                 [] OTHER -> cpu_move(x, twin)
    /\ moved' = TRUE
    /\ UNCHANGED <<mover, delta>>

MoveInit == \E l \in {"lift32", "lift32_cpu", "lift16"}, a, b \in RegisterValues, n \in Memories :
                \E d \in Deltas(l) : MoveStart(l, d, a, b, n)
MoveNext == \E x \in MoveInstructions : MoveExecute(x)
MoveSpec == MoveInit /\ [][MoveNext]_mvars

\* From any registers and memory, an operand names the bits and the bytes it
\* names on the processor: narrow writes keep the rest of their register, fs is
\* thread-relative, an address moves with its image and a constant that looks
\* like one does not, cs is the code's own segment, and an instruction that
\* overwrites its own base has formed its address first (lift32_cpu.py:205-210,
\* lift16.py:50-57 and 285-291).
MovesAgree == [twin EXCEPT !.cs = mach.cs] = mach
=============================================================================
