---------------------------- MODULE OpcodeMap16 ----------------------------
(* The processor's own opcode map for 16-bit code, written the way the       *)
(* manual writes it: one entry per opcode, a mnemonic and the operand codes  *)
(* E (the r/m of ModRM), G (its register), S (its segment register), M (its  *)
(* memory), I (immediate), J (relative), A (far pointer), O (offset), Z (the *)
(* register in the opcode), with b byte, w word, v the operand size, s a byte*)
(* sign-extended to it; other names are fixed operands.  <<"-">> ends what   *)
(* is compared: an opcode the map or the decoder does not define.            *)
EXTENDS Decode16

AluRow(m) == << <<m, "Eb", "Gb">>, <<m, "Ev", "Gv">>, <<m, "Gb", "Eb">>, <<m, "Gv", "Ev">>,
                <<m, "AL", "Ib">>, <<m, "eAX", "Iv">> >>
Eight(entry) == [k \in 1 .. 8 |-> entry]
Conditions == <<"o", "no", "b", "ae", "e", "ne", "be", "a", "s", "ns", "p", "np", "l", "ge", "le", "g">>
Both(m) == << <<m, "Eb", "Gb">>, <<m, "Ev", "Gv">> >>
None == <<"-">>

OneByte ==
    AluRow("add") \o << <<"push", "es">>, <<"pop", "es">> >> \o
    AluRow("or")  \o << <<"push", "cs">>, <<"two">> >> \o
    AluRow("adc") \o << <<"push", "ss">>, <<"pop", "ss">> >> \o
    AluRow("sbb") \o << <<"push", "ds">>, <<"pop", "ds">> >> \o
    AluRow("and") \o << None, <<"daa">> >> \o AluRow("sub") \o << None, <<"das">> >> \o
    AluRow("xor") \o << None, <<"aaa">> >> \o AluRow("cmp") \o << None, <<"aas">> >> \o
    Eight(<<"inc", "Zv">>) \o Eight(<<"dec", "Zv">>) \o Eight(<<"push", "Zv">>) \o Eight(<<"pop", "Zv">>) \o
    << <<"pusha">>, <<"popa">>, None, None, None, None, None, None,
       <<"push", "Iv">>, <<"imul", "Gv", "Iv", "Ev">>, <<"push", "Is">>, <<"imul", "Gv", "Is", "Ev">>,
       <<"insb">>, <<"insw">>, <<"outsb">>, <<"outsw">> >> \o
    [k \in 1 .. 16 |-> <<"j" \o Conditions[k], "Jb">>] \o
    << <<"grp1", "Eb", "Ib">>, <<"grp1", "Ev", "Iv">>, <<"grp1", "Eb", "Ib">>, <<"grp1", "Ev", "Is">> >> \o
    Both("test") \o Both("xchg") \o SubSeq(AluRow("mov"), 1, 4) \o
    << <<"mov", "Ev", "Sw">>, <<"lea", "Gv", "M">>, <<"mov", "Sw", "Ev">>, <<"pop1", "Ev">> >> \o
    << <<"nop">> >> \o [k \in 1 .. 7 |-> <<"xchg", "eAX", "Zv">>] \o
    << <<"cbw">>, <<"cwd">>, <<"call", "Ap">>, <<"wait">>, <<"pushf">>, <<"popf">>, <<"sahf">>, <<"lahf">> >> \o
    << <<"mov", "AL", "Ob">>, <<"mov", "eAX", "Ov">>, <<"mov", "Ob", "AL">>, <<"mov", "Ov", "eAX">>,
       <<"movsb">>, <<"movsw">>, <<"cmpsb">>, <<"cmpsw">>, <<"test", "AL", "Ib">>, <<"test", "eAX", "Iv">>,
       <<"stosb">>, <<"stosw">>, <<"lodsb">>, <<"lodsw">>, <<"scasb">>, <<"scasw">> >> \o
    Eight(<<"mov", "Zb", "Ib">>) \o Eight(<<"mov", "Zv", "Iv">>) \o
    << <<"grp2", "Eb", "Ib">>, <<"grp2", "Ev", "Ib">>, <<"ret", "Iw">>, <<"ret">>,
       <<"les", "Gv", "Mp">>, <<"lds", "Gv", "Mp">>, <<"mov0", "Eb", "Ib">>, <<"mov0", "Ev", "Iv">>,
       <<"enter", "Iw", "Ib">>, <<"leave">>, <<"retf", "Iw">>, <<"retf">>,
       <<"int", "3">>, <<"int", "Ib">>, <<"into">>, <<"iret">>,
       <<"grp2", "Eb", "1">>, <<"grp2", "Ev", "1">>, <<"grp2", "Eb", "CL">>, <<"grp2", "Ev", "CL">>,
       <<"aam", "Ib">>, <<"aad", "Ib">>, None, <<"xlat">> >> \o Eight(<<"esc", "ModRM">>) \o
    << <<"loopnz", "Jb">>, <<"loopz", "Jb">>, <<"loop", "Jb">>, <<"jcxz", "Jb">>,
       <<"in", "AL", "Ib">>, <<"in", "AX", "Ib">>, <<"out", "Ib", "AL">>, <<"out", "Ib", "AX">>,
       <<"call", "Jv">>, <<"jmp", "Jv">>, <<"jmp", "Ap">>, <<"jmp", "Jb">>,
       <<"in", "AL", "DX">>, <<"in", "AX", "DX">>, <<"out", "DX", "AL">>, <<"out", "DX", "AX">>,
       None, None, None, None, <<"hlt">>, <<"cmc">>, <<"grp3", "Eb">>, <<"grp3", "Ev">>,
       <<"clc">>, <<"stc">>, <<"cli">>, <<"sti">>, <<"cld">>, <<"std">>, <<"grp4", "Eb">>, <<"grp5", "Ev">> >>

TwoBytes(b) ==
    CASE b \in {2, 3} -> <<IF b = 2 THEN "lar" ELSE "lsl", "Gv", "Ev">>
      [] b = \h1F -> <<"nop", "ModRM">>
      [] b \in \h80 .. \h8F -> <<"j" \o Conditions[(b % 16) + 1], "Jv">>
      [] b \in \h90 .. \h9F -> <<"set" \o Conditions[(b % 16) + 1], "Eb">>
      [] b \in {\hA0, \hA8} -> <<"push", IF b = \hA0 THEN "fs" ELSE "gs">>
      [] b \in {\hA1, \hA9} -> <<"pop", IF b = \hA1 THEN "fs" ELSE "gs">>
      [] b = \hA3 -> <<"bt", "Ev", "Gv">>  [] b = \hAB -> <<"bts", "Ev", "Gv">>
      [] b = \hB3 -> <<"btr", "Ev", "Gv">> [] b = \hBB -> <<"btc", "Ev", "Gv">>
      [] b = \hA4 -> <<"shld", "Ev", "Gv", "Ib">> [] b = \hA5 -> <<"shld", "Ev", "Gv", "CL">>
      [] b = \hAC -> <<"shrd", "Ev", "Gv", "Ib">> [] b = \hAD -> <<"shrd", "Ev", "Gv", "CL">>
      [] b = \hAF -> <<"imul", "Gv", "Ev">>
      [] b = \hB2 -> <<"lss", "Gv", "Mp">> [] b = \hB4 -> <<"lfs", "Gv", "Mp">>
      [] b = \hB5 -> <<"lgs", "Gv", "Mp">>
      [] b \in {\hB6, \hB7} -> <<"movzx", "Gv", IF b = \hB6 THEN "Eb" ELSE "Ew">>
      [] b \in {\hBE, \hBF} -> <<"movsx", "Gv", IF b = \hBE THEN "Eb" ELSE "Ew">>
      [] b = \hBA -> <<"grp8", "Ev", "Ib">>
      [] OTHER -> None
SecondBytes == {2, 3, \h1F, \hA0, \hA1, \hA3, \hA4, \hA5, \hA8, \hA9, \hAB, \hAC, \hAD, \hAF, \hB2, \hB3,
                \hB4, \hB5, \hB6, \hB7, \hBA, \hBB, \hBE, \hBF} \cup (\h80 .. \h9F)

\* What ModRM's register field says in a group, and which members carry a test's immediate.
GroupEntry(e, n) ==
    CASE e[1] = "grp1" -> [e EXCEPT ![1] = <<"add", "or", "adc", "sbb", "and", "sub", "xor", "cmp">>[n + 1]]
      [] e[1] = "grp2" -> [e EXCEPT ![1] = <<"rol", "ror", "rcl", "rcr", "shl", "shr", "sal", "sar">>[n + 1]]
      [] e[1] = "grp3" -> IF n \in {0, 1} THEN <<"test", e[2], IF e[2] = "Eb" THEN "Ib" ELSE "Iv">>
                          ELSE <<<<"not", "neg", "mul", "imul", "div", "idiv">>[n - 1], e[2]>>
      [] e[1] = "grp4" -> <<<<"inc", "dec", "-", "-", "-", "-", "-", "-">>[n + 1], e[2]>>
      [] e[1] = "grp5" -> <<<<"inc", "dec", "call", "call far", "jmp", "jmp far", "push", "-">>[n + 1], e[2]>>
      [] e[1] = "grp8" -> [e EXCEPT ![1] = IF n < 4 THEN "-" ELSE <<"bt", "bts", "btr", "btc">>[n - 3]]
      [] e[1] \in {"pop1", "mov0"} ->
           [e EXCEPT ![1] = IF n # 0 THEN "-" ELSE IF @ = "pop1" THEN "pop" ELSE "mov"]
      [] OTHER -> e

\* Names that change with the operand size, and what has another form under 0x66
\* than the one the decoder gives.
WideName == [pusha |-> "pushad", popa |-> "popad", cbw |-> "cwde", cwd |-> "cdq", pushf |-> "pushfd",
             popf |-> "popfd", insw |-> "insd", outsw |-> "outsd", movsw |-> "movsd", cmpsw |-> "cmpsd",
             stosw |-> "stosd", lodsw |-> "lodsd", scasw |-> "scasd"]
NotUnder66(e) ==
    \/ e[1] \in {"in", "out", "ret", "retf", "iret", "enter", "leave", "lar", "lsl", "call", "call far",
                 "jmp", "jmp far"}
    \/ e[1] = "imul" /\ Len(e) = 4 /\ e[3] = "Is"
    \/ \E k \in 2 .. Len(e) : e[k] \in {"Jb", "Jv", "Ap", "Mp", "Sw", "es", "cs", "ss", "ds", "fs", "gs"}

\* The meaning of an operand: which address registers, which displacement.
Meaning(o) ==
    IF o.type = "MEM"
    THEN [type |-> "MEM", size |-> o.size, seg |-> o.seg, disp |-> o.disp % 65536,
          regs |-> {o.base, o.index} \ {""}]
    ELSE o
Address(y, size) ==
    LET regs == IF y.mod = 0 /\ y.rm = 6 THEN {}
                ELSE (IF y.rm \in {0, 1, 7} THEN {"bx"} ELSE IF y.rm \in {2, 3, 6} THEN {"bp"} ELSE {})
                     \cup (IF y.rm \in {0, 2, 4} THEN {"si"} ELSE IF y.rm \in {1, 3, 5} THEN {"di"} ELSE {})
        lo == _u8(y, y.p + 1)
    IN [type |-> "MEM", size |-> size, regs |-> regs,
        seg |-> IF y.seg # "" THEN y.seg ELSE IF "bp" \in regs THEN "ss" ELSE "ds",
        disp |-> IF y.mod = 2 \/ regs = {} THEN lo + 256 * _u8(y, y.p + 2)
                 ELSE IF y.mod = 1 THEN (IF lo < 128 THEN lo ELSE lo + 65280) ELSE 0]

Wide(y) == IF y.op32 THEN 4 ELSE 2
ModRMCodes == {"Eb", "Ew", "Ev", "Gb", "Gv", "Sw", "M", "Mp", "ModRM"}
ImmediateSize(y, code) ==
    CASE code \in {"Ib", "Is", "Jb"} -> 1
      [] code \in {"Iw", "Jv", "Ob", "Ov"} -> 2
      [] code = "Iv" -> Wide(y)
      [] code = "Ap" -> 4
      [] OTHER -> 0
\* The immediates follow ModRM and its displacement in the order of the entry.
ImmediatesTo(y, e, k) == FoldLeft(LAMBDA s, code : s + ImmediateSize(y, code), 0, SubSeq(e, 2, k))
Modrm(y, e) ==
    IF \A k \in 2 .. Len(e) : e[k] \notin ModRMCodes THEN 0
    ELSE 1 + (IF y.mod = 3 THEN 0 ELSE IF y.mod = 1 THEN 1
              ELSE IF y.mod = 2 \/ y.rm = 6 THEN 2 ELSE 0)

OperandAt(y, code, p, end) ==
    LET lo == _u8(y, p)
        word == lo + 256 * _u8(y, p + 1)
        size == CASE code \in {"Eb", "Gb", "Zb", "Ob"} -> 1 [] code = "Ew" -> 2 [] OTHER -> Wide(y)
    IN CASE code \in {"Eb", "Ew", "Ev", "M", "Mp"} ->
              IF y.mod = 3 THEN Register(size, y.rm) ELSE Address(y, size)
         [] code \in {"Gb", "Gv"} -> Register(size, y.n)
         [] code \in {"Zb", "Zv"} -> Register(size, y.op % 8)
         [] code = "AL" -> Register(1, 0)
         [] code = "CL" -> Register(1, 1)
         [] code = "AX" -> Register(2, 0)
         [] code = "DX" -> Register(2, 2)
         [] code = "eAX" -> Register(Wide(y), 0)
         [] code \in {"1", "3"} -> Imm("IMM8", <<IF code = "1" THEN 1 ELSE 3>>, 1)
         [] code = "Ib" -> Imm("IMM8", <<lo>>, 1)
         [] code = "Iw" -> Imm("IMM16", <<word>>, 2)
         [] code = "Is" -> LET v == IF lo < 128 THEN lo ELSE lo + 65280
                           IN IF y.op32 THEN Imm("IMM32", <<v, IF lo < 128 THEN 0 ELSE 65535>>, 4)
                                        ELSE Imm("IMM8", <<v>>, 2)
         [] code = "Iv" -> IF y.op32 THEN Imm("IMM32", <<word, _u8(y, p + 2) + 256 * _u8(y, p + 3)>>, 4)
                                     ELSE Imm("IMM16", <<word>>, 2)
         [] code = "Jb" -> [type |-> "REL8", size |-> 2,
                            disp |-> _near(IF lo < 128 THEN end + lo ELSE end + lo - 256)]
         [] code = "Jv" -> [type |-> "REL16", size |-> 2,
                            disp |-> _near(IF word < 32768 THEN end + word ELSE end + word - 65536)]
         [] code = "Ap" -> [type |-> "FAR", size |-> 4, disp |-> word,
                            far_seg |-> _u8(y, p + 2) + 256 * _u8(y, p + 3)]
         [] code \in {"Ob", "Ov"} -> [type |-> "MOFFS", size |-> size, disp |-> word,
                                      seg |-> IF y.seg = "" THEN "ds" ELSE y.seg]
         [] code = "Sw" -> Sreg(y.n)
         [] OTHER -> Sreg([es |-> 0, cs |-> 1, ss |-> 2, ds |-> 3, fs |-> 4, gs |-> 5][code])

\* The instruction at p, or NoInsn where the comparison ends.
Prefixed(y, b) ==
    CASE b = \h66 -> [y EXCEPT !.op32 = TRUE]
      [] b = \h67 -> [y EXCEPT !.addr32 = TRUE]
      [] b \in DOMAIN SEGMENT -> [y EXCEPT !.seg = SEGMENT[b]]
      [] b = \hF2 -> [y EXCEPT !.rep = "repnz"]
      [] b = \hF3 -> [y EXCEPT !.rep = "rep"]
      [] OTHER -> y
Place(y, e, code, base) == base + ImmediatesTo(y, e, Min({k \in 2 .. Len(e) : e[k] = code}) - 1)
Ends(y, e, end) ==
    \/ e[1] = "-" \/ end > Len(y.d) \/ y.addr32
    \/ y.op32 /\ NotUnder66(e)
    \/ \E k \in 2 .. Len(e) : (e[k] = "Sw" /\ y.n > 3) \/ (e[k] \in {"M", "Mp"} /\ y.mod = 3)
\* INT 3Fh and the three bytes of an overlay call.
IsOverlayCall(y, e, end) == e = <<"int", "Ib">> /\ _u8(y, end - 1) = \h3F /\ end + 3 <= Len(y.d)
Read(y, e, base, end, codes, overlay) ==
    IF Ends(y, e, end) THEN NoInsn
    ELSE <<[address |-> y.start, prefix |-> y.rep, seg |-> y.seg,
            mnemonic |-> IF y.op32 /\ e[1] \in DOMAIN WideName THEN WideName[e[1]] ELSE e[1],
            ops |-> [k \in 1 .. Len(codes) |-> OperandAt(y, codes[k], Place(y, e, codes[k], base), end)],
            overlay |-> IF overlay THEN <<_u8(y, end), _u8(y, end + 1) + 256 * _u8(y, end + 2)>> ELSE <<>>,
            end |-> IF overlay THEN end + 3 ELSE end]>>
ReadEntry(y, e, base, end) ==
    Read(y, e, base, end, SelectSeq(Tail(e), LAMBDA code : code # "ModRM"), IsOverlayCall(y, e, end))
WithBase(y, e, base) == ReadEntry(y, e, base, base + ImmediatesTo(y, e, Len(e)))
WithEntry(y, e) == WithBase(y, e, y.p + Modrm(y, e))
AtOpcode(z, at, b, two) ==
    LET y == [mod |-> b \div 64, n |-> (b \div 8) % 8, rm |-> b % 8, p |-> at, op |-> _u8(z, at - 1)] @@ z
    IN IF at > Len(z.d) THEN NoInsn
       ELSE WithEntry(y, GroupEntry(IF two THEN TwoBytes(_u8(z, at - 1)) ELSE OneByte[_u8(z, at - 1) + 1],
                                    (b \div 8) % 8))
AfterPrefixes(z, q) == LET two == _u8(z, q) = \h0F
                           at == IF two THEN q + 2 ELSE q + 1
                       IN AtOpcode(z, at, _u8(z, at), two)
NoPrefix(d, p) == [d |-> d, start |-> p, op32 |-> FALSE, addr32 |-> FALSE, seg |-> "", rep |-> ""]
MapFrom(d, p, q) == AfterPrefixes(FoldLeft(Prefixed, NoPrefix(d, p), SubSeq(d, p + 1, q)), q)
MapAt(d, p) == MapFrom(d, p, Min({k \in p .. Len(d) - 1 : ~IsPrefixAt(d, k)} \cup {Len(d)}))

MapOn(i, f) == IF i = NoInsn THEN <<>> ELSE i \o f[i[1].end]
MapAll(d) == LET f[p \in 0 .. Len(d)] == MapOn(MapAt(d, p), f) IN f[0]
=============================================================================
