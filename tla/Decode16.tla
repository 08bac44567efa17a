------------------------------ MODULE Decode16 ------------------------------
(* The 16-bit instruction decoder, tools/disasm/decode16.py.  Every operator *)
(* is a pure function of the bytes d (positions count from 0) and, once the  *)
(* prefixes are read, of the context x = [d, p, op32, seg]: p is the position*)
(* after the opcode, op32 and seg what the prefixes said.  A read past the   *)
(* end yields 0 and moves past the end all the same, which is where          *)
(* EndOfSegment is told from the result.  An immediate is the sequence of its*)
(* 16-bit halves, low half first.                                            *)
EXTENDS Integers, Sequences, SequencesExt

CONSTANT WRAP_NEAR_TARGETS
ASSUME WrapAssumption == WRAP_NEAR_TARGETS \in BOOLEAN

Register(size, r) ==
    [type |-> CASE size = 1 -> "REG8" [] size = 2 -> "REG16" [] size = 4 -> "REG32",
     reg |-> r, size |-> size]
Sreg(r) == [type |-> "SREG", reg |-> r, size |-> 2]
Imm(type, halves, size) == [type |-> type, val |-> halves, size |-> size]
EA_BASES == << <<"bx", "si">>, <<"bx", "di">>, <<"bp", "si">>, <<"bp", "di">>,
               <<"si", "">>, <<"di", "">>, <<"bp", "">>, <<"bx", "">> >>
EA_DEFAULT_SEG == <<"ds", "ds", "ss", "ss", "ds", "ds", "ss", "ds">>

_near(target) == IF WRAP_NEAR_TARGETS THEN target % 65536 ELSE target

_u8(x, p) == IF p < Len(x.d) THEN x.d[p + 1] ELSE 0
_s8(x, p) == IF _u8(x, p) < 128 THEN _u8(x, p) ELSE _u8(x, p) - 256
_u16(x, p) == _u8(x, p) + 256 * _u8(x, p + 1)
_s16(x, p) == IF _u16(x, p) < 32768 THEN _u16(x, p) ELSE _u16(x, p) - 65536

_wbytes(x) == IF x.op32 THEN 4 ELSE 2
_wreg(x, r) == Register(_wbytes(x), r)
_wimm(x, p) == IF x.op32 THEN Imm("IMM32", <<_u16(x, p), _u16(x, p + 2)>>, 4)
                         ELSE Imm("IMM16", <<_u16(x, p)>>, 2)
Byte(x, p) == Imm("IMM8", <<_u8(x, p)>>, 1)
\* A byte sign-extended to the operand size.
Extended(x, p) ==
    LET lo == _s8(x, p) % 65536
    IN IF x.op32 THEN Imm("IMM32", <<lo, IF lo < 32768 THEN 0 ELSE 65535>>, 4)
                 ELSE Imm("IMM8", <<lo>>, 2)
Cl == Register(1, 1)

_decode_modrm(x, wide) ==
    LET b == _u8(x, x.p)
        mod == b \div 64
        rm == b % 8
        size == IF wide THEN _wbytes(x) ELSE 1
        direct == mod = 0 /\ rm = 6
        q == x.p + 1
        disp == CASE direct -> _u16(x, q)
                  [] mod = 1 -> _s8(x, q)
                  [] mod = 2 -> _s16(x, q)
                  [] OTHER -> 0
    IN [reg |-> Register(size, (b \div 8) % 8),
        n |-> (b \div 8) % 8,
        rm |-> IF mod = 3 THEN Register(size, rm)
               ELSE [type |-> "MEM", size |-> size, disp |-> disp,
                     base |-> IF direct THEN "" ELSE EA_BASES[rm + 1][1],
                     index |-> IF direct THEN "" ELSE EA_BASES[rm + 1][2],
                     seg |-> IF x.seg # "" THEN x.seg ELSE IF direct THEN "ds" ELSE EA_DEFAULT_SEG[rm + 1]],
        next |-> q + (CASE direct \/ mod = 2 -> 2 [] mod = 1 -> 1 [] OTHER -> 0)]

\* What one opcode decodes to: a mnemonic, operands and where it ends.
Insn(mnemonic, ops, next) == [mnemonic |-> mnemonic, ops |-> ops, next |-> next, overlay |-> <<>>]
RmReg(x, mnemonic, wide) == LET m == _decode_modrm(x, wide) IN Insn(mnemonic, <<m.rm, m.reg>>, m.next)
RegRm(x, mnemonic, wide) == LET m == _decode_modrm(x, wide) IN Insn(mnemonic, <<m.reg, m.rm>>, m.next)
RmOnly(x, mnemonic, wide) == LET m == _decode_modrm(x, wide) IN Insn(mnemonic, <<m.rm>>, m.next)
RmByte(x, m, mnemonic) == Insn(mnemonic, <<m.rm, Byte(x, m.next)>>, m.next + 1)
RmWord(x, m, mnemonic) == Insn(mnemonic, <<m.rm, _wimm(x, m.next)>>, m.next + _wbytes(x))
Short(x, mnemonic) ==
    Insn(mnemonic, <<[type |-> "REL8", size |-> 2, disp |-> _near(x.p + 1 + _s8(x, x.p))]>>, x.p + 1)
Near(x, mnemonic) ==
    Insn(mnemonic, <<[type |-> "REL16", size |-> 2, disp |-> _near(x.p + 2 + _s16(x, x.p))]>>, x.p + 2)
Far(x, mnemonic) ==
    Insn(mnemonic, <<[type |-> "FAR", size |-> 4, disp |-> _u16(x, x.p), far_seg |-> _u16(x, x.p + 2)]>>,
         x.p + 4)
Moffs(x, size) == [type |-> "MOFFS", size |-> size, disp |-> _u16(x, x.p),
                   seg |-> IF x.seg = "" THEN "ds" ELSE x.seg]

ALU_NAMES == <<"add", "or", "adc", "sbb", "and", "sub", "xor", "cmp">>
SHIFT_NAMES == <<"rol", "ror", "rcl", "rcr", "shl", "shr", "sal", "sar">>
CC_NAMES == <<"o", "no", "b", "ae", "e", "ne", "be", "a", "s", "ns", "p", "np", "l", "ge", "le", "g">>

Alu(x, b) ==
    LET m == ALU_NAMES[b \div 8 + 1]
    IN CASE b % 8 = 0 -> RmReg(x, m, FALSE)
         [] b % 8 = 1 -> RmReg(x, m, TRUE)
         [] b % 8 = 2 -> RegRm(x, m, FALSE)
         [] b % 8 = 3 -> RegRm(x, m, TRUE)
         [] b % 8 = 4 -> Insn(m, <<Register(1, 0), Byte(x, x.p)>>, x.p + 1)
         [] b % 8 = 5 -> Insn(m, <<_wreg(x, 0), _wimm(x, x.p)>>, x.p + _wbytes(x))

\* Opcodes of one byte: with 0x66 some have another name.
Sized(x, b) ==
    CASE b = \h60 -> IF x.op32 THEN "pushad" ELSE "pusha"
      [] b = \h61 -> IF x.op32 THEN "popad" ELSE "popa"
      [] b = \h98 -> IF x.op32 THEN "cwde" ELSE "cbw"
      [] b = \h99 -> IF x.op32 THEN "cdq" ELSE "cwd"
      [] b = \h9C -> IF x.op32 THEN "pushfd" ELSE "pushf"
      [] b = \h9D -> IF x.op32 THEN "popfd" ELSE "popf"
SizedOps == {\h60, \h61, \h98, \h99, \h9C, \h9D}
Fixed(b) ==
    CASE b = \h27 -> "daa" [] b = \h2F -> "das" [] b = \h37 -> "aaa" [] b = \h3F -> "aas"
      [] b = \h90 -> "nop" [] b = \h9B -> "wait" [] b = \h9E -> "sahf" [] b = \h9F -> "lahf"
      [] b = \hC3 -> "ret" [] b = \hC9 -> "leave" [] b = \hCB -> "retf" [] b = \hCE -> "into"
      [] b = \hCF -> "iret" [] b = \hD7 -> "xlat" [] b = \hF4 -> "hlt" [] b = \hF5 -> "cmc"
      [] b = \hF8 -> "clc" [] b = \hF9 -> "stc" [] b = \hFA -> "cli" [] b = \hFB -> "sti"
      [] b = \hFC -> "cld" [] b = \hFD -> "std"
FixedOps == {\h27, \h2F, \h37, \h3F, \h90, \h9B, \h9E, \h9F, \hC3, \hC9, \hCB, \hCE, \hCF,
             \hD7, \hF4, \hF5, \hF8, \hF9, \hFA, \hFB, \hFC, \hFD}
\* Port and memory string operations, <<byte form, word form, form with 0x66>>.
StringForms(b) ==
    CASE b \div 2 = \h36 -> <<"insb", "insw", "insd">>
      [] b \div 2 = \h37 -> <<"outsb", "outsw", "outsd">>
      [] b \div 2 = \h52 -> <<"movsb", "movsw", "movsd">>
      [] b \div 2 = \h53 -> <<"cmpsb", "cmpsw", "cmpsd">>
      [] b \div 2 = \h55 -> <<"stosb", "stosw", "stosd">>
      [] b \div 2 = \h56 -> <<"lodsb", "lodsw", "lodsd">>
      [] b \div 2 = \h57 -> <<"scasb", "scasw", "scasd">>
StringOps == (\h6C .. \h6F) \cup (\hA4 .. \hA7) \cup (\hAA .. \hAF)
String(x, b) == StringForms(b)[IF b % 2 = 0 THEN 1 ELSE IF x.op32 THEN 3 ELSE 2]

PushImul(x, b) ==
    LET m == _decode_modrm(x, TRUE)
    IN CASE b = \h68 -> Insn("push", <<_wimm(x, x.p)>>, x.p + _wbytes(x))
         [] b = \h69 -> Insn("imul", <<m.reg, _wimm(x, m.next), m.rm>>, m.next + _wbytes(x))
         [] b = \h6A -> Insn("push", <<Extended(x, x.p)>>, x.p + 1)
         [] b = \h6B -> Insn("imul", <<m.reg, Imm("IMM8", <<_s8(x, m.next) % 65536>>, 2), m.rm>>, m.next + 1)

\* Group 1, 0x80 .. 0x83.
Group1(x, b) ==
    LET m == _decode_modrm(x, b % 2 = 1)
        name == ALU_NAMES[m.n + 1]
    IN CASE b = \h83 -> Insn(name, <<m.rm, Extended(x, m.next)>>, m.next + 1)
         [] b = \h81 -> RmWord(x, m, name)
         [] OTHER -> RmByte(x, m, name)

\* 0x84 .. 0x8F.
MovTest(x, b) ==
    LET m == _decode_modrm(x, TRUE)
    IN CASE b \in {\h84, \h85} -> RmReg(x, "test", b = \h85)
         [] b \in {\h86, \h87} -> RmReg(x, "xchg", b = \h87)
         [] b \in {\h88, \h89} -> RmReg(x, "mov", b = \h89)
         [] b \in {\h8A, \h8B} -> RegRm(x, "mov", b = \h8B)
         [] b = \h8C -> Insn("mov", <<m.rm, Sreg(m.n % 4)>>, m.next)
         [] b = \h8D -> RegRm(x, "lea", TRUE)
         [] b = \h8E -> Insn("mov", <<Sreg(m.n % 4), m.rm>>, m.next)
         [] b = \h8F -> RmOnly(x, "pop", TRUE)

\* 0xA0 .. 0xA3, and test of the accumulator.
Accumulator(x, b) ==
    CASE b = \hA0 -> Insn("mov", <<Register(1, 0), Moffs(x, 1)>>, x.p + 2)
      [] b = \hA1 -> Insn("mov", <<_wreg(x, 0), Moffs(x, _wbytes(x))>>, x.p + 2)
      [] b = \hA2 -> Insn("mov", <<Moffs(x, 1), Register(1, 0)>>, x.p + 2)
      [] b = \hA3 -> Insn("mov", <<Moffs(x, _wbytes(x)), _wreg(x, 0)>>, x.p + 2)
      [] b = \hA8 -> Insn("test", <<Register(1, 0), Byte(x, x.p)>>, x.p + 1)
      [] b = \hA9 -> Insn("test", <<_wreg(x, 0), _wimm(x, x.p)>>, x.p + _wbytes(x))

\* INT imm8; 3Fh is the overlay manager's call, with three bytes after it.
Interrupt(x) ==
    LET n == _u8(x, x.p)
        q == x.p + 1
        far == n = \h3F /\ q + 2 < Len(x.d)
    IN [Insn("int", <<Byte(x, x.p)>>, IF far THEN q + 3 ELSE q)
           EXCEPT !.overlay = IF far THEN <<_u8(x, q), _u16(x, q + 1)>> ELSE <<>>]

\* 0xC0 .. 0xCD without the opcodes of one byte.
RowC(x, b) ==
    LET m == _decode_modrm(x, b % 2 = 1)
        imm16 == Imm("IMM16", <<_u16(x, x.p)>>, 2)
    IN CASE b \in {\hC0, \hC1} -> RmByte(x, m, SHIFT_NAMES[m.n + 1])
         [] b = \hC2 -> Insn("ret", <<imm16>>, x.p + 2)
         [] b = \hC4 -> RegRm(x, "les", TRUE)
         [] b = \hC5 -> RegRm(x, "lds", TRUE)
         [] b = \hC6 -> RmByte(x, m, "mov")
         [] b = \hC7 -> RmWord(x, m, "mov")
         [] b = \hC8 -> Insn("enter", <<imm16, Byte(x, x.p + 2)>>, x.p + 3)
         [] b = \hCA -> Insn("retf", <<imm16>>, x.p + 2)
         [] b = \hCC -> Insn("int", <<Imm("IMM8", <<3>>, 1)>>, x.p)
         [] b = \hCD -> Interrupt(x)

RowD(x, b) ==
    LET m == _decode_modrm(x, b % 2 = 1)
    IN CASE b \in \hD0 .. \hD3 ->
              Insn(SHIFT_NAMES[m.n + 1],
                   <<m.rm, IF b >= \hD2 THEN Cl ELSE Imm("IMM8", <<1>>, 1)>>, m.next)
         [] b \in {\hD4, \hD5} -> Insn(IF b = \hD4 THEN "aam" ELSE "aad", <<Byte(x, x.p)>>, x.p + 1)
         [] b \in \hD8 .. \hDF -> Insn("esc", <<>>, _decode_modrm(x, FALSE).next)

\* Loops, ports, calls and jumps, 0xE0 .. 0xEF.
RowE(x, b) ==
    LET a == Register(IF b % 2 = 0 THEN 1 ELSE 2, 0)
        dx == Register(2, 2)
    IN CASE b \in \hE0 .. \hE3 -> Short(x, <<"loopnz", "loopz", "loop", "jcxz">>[b - \hDF])
         [] b \in {\hE4, \hE5} -> Insn("in", <<a, Byte(x, x.p)>>, x.p + 1)
         [] b \in {\hE6, \hE7} -> Insn("out", <<Byte(x, x.p), a>>, x.p + 1)
         [] b = \hE8 -> Near(x, "call")
         [] b = \hE9 -> Near(x, "jmp")
         [] b = \hEA -> Far(x, "jmp")
         [] b = \hEB -> Short(x, "jmp")
         [] b \in {\hEC, \hED} -> Insn("in", <<a, dx>>, x.p)
         [] b \in {\hEE, \hEF} -> Insn("out", <<dx, a>>, x.p)

\* Mutant: the test of group 3 forgets its immediate.
Group3_bug(x, b) ==
    LET m == _decode_modrm(x, b % 2 = 1)
    IN Insn(<<"test", "test", "not", "neg", "mul", "imul", "div", "idiv">>[m.n + 1], <<m.rm>>, m.next)
Group3(x, b) ==
    LET m == _decode_modrm(x, b % 2 = 1)
        name == <<"test", "test", "not", "neg", "mul", "imul", "div", "idiv">>[m.n + 1]
    IN CASE m.n > 1 -> Insn(name, <<m.rm>>, m.next)
         [] m.n <= 1 /\ b = \hF7 -> RmWord(x, m, name)
         [] m.n <= 1 /\ b = \hF6 -> RmByte(x, m, name)
Group45(x, b) ==
    LET m == _decode_modrm(x, b % 2 = 1)
        name == IF b = \hFE THEN IF m.n <= 1 THEN <<"inc", "dec">>[m.n + 1] ELSE "grp4"
                ELSE <<"inc", "dec", "call", "call far", "jmp", "jmp far", "push", "?">>[m.n + 1]
    IN Insn(name, <<m.rm>>, m.next)

\* 0x0F: an opcode it does not know is a data byte and the sweep goes on at
\* the second one.
TwoByte(x0) ==
    LET b == _u8(x0, x0.p)
        x == [x0 EXCEPT !.p = @ + 1]
        m == _decode_modrm(x, TRUE)
        narrow == IF b % 2 = 1 THEN 2 ELSE 1
        bit == <<"bt", "bts", "btr", "btc">>
    IN CASE b \in \h80 .. \h8F -> Near(x, "j" \o CC_NAMES[b - \h7F])
         [] b \in \h90 .. \h9F -> RmOnly(x, "set" \o CC_NAMES[b - \h8F], FALSE)
         [] b = \hAF -> RegRm(x, "imul", TRUE)
         [] b \in {\hB6, \hB7, \hBE, \hBF} ->
              Insn(IF b >= \hBE THEN "movsx" ELSE "movzx",
                   <<m.reg, IF m.rm.type = "MEM" THEN [m.rm EXCEPT !.size = narrow]
                            ELSE Register(narrow, m.rm.reg)>>, m.next)
         [] b \in {\hA3, \hAB, \hB3, \hBB} -> RmReg(x, bit[(b - \h9B) \div 8], TRUE)
         [] b = \hBA -> RmByte(x, m, IF m.n < 4 THEN "?" ELSE bit[m.n - 3])
         [] b \in {\hA4, \hA5, \hAC, \hAD} ->
              Insn(IF b < \hA8 THEN "shld" ELSE "shrd",
                   <<m.rm, m.reg, IF b % 2 = 0 THEN Byte(x, m.next) ELSE Cl>>, m.next + 1 - (b % 2))
         [] b \in {2, 3} -> RegRm(x, IF b = 2 THEN "lar" ELSE "lsl", TRUE)
         [] b \in {\hB2, \hB4, \hB5} ->
              RegRm(x, CASE b = \hB2 -> "lss" [] b = \hB4 -> "lfs" [] b = \hB5 -> "lgs", TRUE)
         [] b \in {\hA0, \hA1, \hA8, \hA9} ->
              Insn(IF b % 2 = 0 THEN "push" ELSE "pop", <<Sreg(IF b < \hA8 THEN 4 ELSE 5)>>, x.p)
         [] b = \h1F -> Insn("nop", <<>>, m.next)
         [] OTHER -> Insn("db", <<Imm("IMM8", <<\h0F>>, 1)>>, IF x0.p < Len(x.d) THEN x0.p ELSE x.p)

Opcode(x, b) ==
    CASE b < \h40 /\ b % 8 < 6 -> Alu(x, b)
      [] b \in {\h06, \h0E, \h16, \h1E} -> Insn("push", <<Sreg(b \div 8)>>, x.p)
      [] b \in {\h07, \h17, \h1F} -> Insn("pop", <<Sreg(b \div 8)>>, x.p)
      [] b \in \h40 .. \h5F ->
           Insn(<<"inc", "dec", "push", "pop">>[b \div 8 - 7], <<_wreg(x, b % 8)>>, x.p)
      [] b \in SizedOps -> Insn(Sized(x, b), <<>>, x.p)
      [] b \in FixedOps -> Insn(Fixed(b), <<>>, x.p)
      [] b \in StringOps -> Insn(String(x, b), <<>>, x.p)
      [] b \in \h68 .. \h6B -> PushImul(x, b)
      [] b \in \h70 .. \h7F -> Short(x, "j" \o CC_NAMES[b - \h6F])
      [] b \in \h80 .. \h83 -> Group1(x, b)
      [] b \in \h84 .. \h8F -> MovTest(x, b)
      [] b \in \h91 .. \h97 -> Insn("xchg", <<_wreg(x, 0), _wreg(x, b - \h90)>>, x.p)
      [] b = \h9A -> Far(x, "call")
      [] b \in (\hA0 .. \hA3) \cup {\hA8, \hA9} -> Accumulator(x, b)
      [] b \in \hB0 .. \hB7 -> Insn("mov", <<Register(1, b - \hB0), Byte(x, x.p)>>, x.p + 1)
      [] b \in \hB8 .. \hBF -> Insn("mov", <<_wreg(x, b - \hB8), _wimm(x, x.p)>>, x.p + _wbytes(x))
      [] b \in {\hC0, \hC1, \hC2, \hC4, \hC5, \hC6, \hC7, \hC8, \hCA, \hCC, \hCD} -> RowC(x, b)
      [] b \in (\hD0 .. \hD5) \cup (\hD8 .. \hDF) -> RowD(x, b)
      [] b \in \hE0 .. \hEF -> RowE(x, b)
      [] b \in {\hF6, \hF7} -> Group3(x, b)
      [] b \in {\hFE, \hFF} -> Group45(x, b)
      [] b = \h0F -> TwoByte(x)
      [] OTHER -> Insn("db", <<Imm("IMM8", <<b>>, 1)>>, x.p)

\* The prefix loop: the last segment and repeat prefix win, a wait counts as a
\* prefix only in front of an ESC opcode.
SEGMENT == [b \in {\h26, \h2E, \h36, \h3E, \h64, \h65} |->
              CASE b = \h26 -> "es" [] b = \h2E -> "cs" [] b = \h36 -> "ss"
                [] b = \h3E -> "ds" [] b = \h64 -> "fs" [] b = \h65 -> "gs"]
REPEAT == [b \in {\hF2, \hF3} |-> IF b = \hF2 THEN "repnz" ELSE "rep"]
IsPrefixAt(d, p) ==
    \/ d[p + 1] \in DOMAIN SEGMENT \cup DOMAIN REPEAT \cup {\h66, \h67, \hF0}
    \/ d[p + 1] = \h9B /\ p + 1 < Len(d) /\ d[p + 2] \in \hD8 .. \hDF
LastOf(d, from, to, names) ==
    LET at == {q \in from .. to - 1 : d[q + 1] \in DOMAIN names}
    IN IF at = {} THEN "" ELSE names[d[Max(at) + 1]]

NoInsn == <<>>
\* decode_one at position p: NoInsn where it answers None.
Decoded(x, p, opcode, rep) ==
    [address |-> p, prefix |-> rep, seg |-> x.seg, insn |-> Opcode(x, opcode)]
DecodeFrom(d, p, q) ==
    Decoded([d |-> d, p |-> q + 1, seg |-> LastOf(d, p, q, SEGMENT),
             op32 |-> \E k \in p .. q - 1 : d[k + 1] = \h66], p, d[q + 1], LastOf(d, p, q, REPEAT))
OpcodesFrom(d, p) == {q \in p .. Len(d) - 1 : ~IsPrefixAt(d, q)}
decode_one(d, p) == IF OpcodesFrom(d, p) = {} THEN NoInsn ELSE <<DecodeFrom(d, p, Min(OpcodesFrom(d, p)))>>

\* decode_all: an instruction cut off by the end of the segment becomes a data
\* byte and the sweep goes on one byte further.
Kept(d, p, i) ==
    IF i[1].insn.next <= Len(d) THEN i
    ELSE <<[address |-> p, prefix |-> "", seg |-> "",
            insn |-> Insn("db", <<Imm("IMM8", <<d[p + 1]>>, 1)>>, p + 1)]>>
Listing(d, p, i) == IF i = NoInsn THEN <<>> ELSE Kept(d, p, i)
AndOn(i, f) == IF i = <<>> THEN <<>> ELSE i \o f[i[1].insn.next]
decode_all(d) ==
    LET f[p \in 0 .. Len(d)] == IF p >= Len(d) THEN <<>> ELSE AndOn(Listing(d, p, decode_one(d, p)), f)
    IN f[0]
=============================================================================
