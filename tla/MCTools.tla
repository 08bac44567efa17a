------------------------------ MODULE MCTools ------------------------------
(* Small inputs for every tool: see the README for what they leave out.      *)
EXTENDS ToolBench

MCPrefixes == {<<>>, <<\h66>>, <<\h26, \hF3>>, <<\h2E, \h66>>, <<\h9B>>}
MCModRMs == {\h06, \h0C, \h11, \h1B, \h22, \h2D, \h36, \h3F, \h40, \h49, \h52, \h5E, \h67, \h68, \h75, \h7A,
   \h86, \h8F, \h90, \h9A, \hA3, \hAC, \hB5, \hBE, \hC1, \hCA, \hD3, \hDC, \hE5, \hEE, \hF7, \hF8}
MCTails == {<<\h91, \hE2, \h13, \h94, \h25, \hC3>>, <<\h91, \hE2, \h13>>, <<>>}

----------------------------------------------------------------------------
MCCodeEnd == 8
Code(k, n, t) == [k |-> k, n |-> n, t |-> t]
PlainOp == Code("op", 1, 0)
OneRet == Code("ret", 1, 0)

\* What the instruction at one address may be, for each address.
LiftKinds == <<
    {Code("cmp", 1, 0), Code("call", 2, 4)},
    {Code("jcc", 1, 4), Code("test", 1, 0), PlainOp},
    {Code("jcc", 1, 0), Code("jmp", 2, 4), Code("test", 1, 0), OneRet, Code("call", 2, 4)},
    {Code("jcc", 1, 5), OneRet, Code("jt", 1, 0), Code("op", 2, 0)},
    {Code("jcc", 1, 3), Code("jcc", 1, 7), OneRet, Code("test", 1, 0)},
    {OneRet, Code("op", 2, 0), Code("ijmp", 1, 0)},
    {OneRet, Code("push", 2, 4)},
    {OneRet}>>
JumpTables == {<<3, 5, 99>>, <<99, 3, 99, 5>>}
JumpSlots == {3, 5}

CodePlaces == 0 .. MCCodeEnd - 1
CodeSucc(c, x) ==
    IF x \notin CodePlaces THEN {}
    ELSE LET i == c[x] IN
         CASE i.k = "ret" -> {} [] i.k = "jmp" -> {i.t} [] i.k = "jt" -> JumpSlots [] i.k = "ijmp" -> {6}
           [] i.k \in {"jcc", "call"} -> {i.t, x + i.n} [] OTHER -> {x + i.n}
CodeNext(c, x) == IF x \in CodePlaces THEN {x + c[x].n} \cap CodePlaces ELSE {}
CodeReach(c) ==
    LET r[k \in 0 .. MCCodeEnd] == IF k = 0 THEN {0} ELSE UNION {{x} \cup CodeSucc(c, x) : x \in r[k - 1]}
    IN r[MCCodeEnd]
CodeLine(c, s) ==
    LET r[k \in 0 .. MCCodeEnd] == IF k = 0 THEN s ELSE UNION {{x} \cup CodeNext(c, x) : x \in r[k - 1]}
    IN r[MCCodeEnd]
\* A program: it stays in its section and executes no byte in two ways, nor do
\* the bytes between its blocks decode over one it executes.  One with a jump
\* table has no other function that could cut the arms off from it.
LiftProgram(c) ==
    \A s \in {CodeReach(c)} :
        /\ s \subseteq CodePlaces
        /\ c[3].k = "jt" => \A x \in s : c[x].k # "call"
        /\ \A x \in CodeLine(c, s) : (x + 1 .. x + c[x].n - 1) \cap s = {}
LiftCodes == {[p \in CodePlaces |-> s[p + 1]] :
             s \in {<<a, b, c, d, e, f, g, h>> :
                       a \in LiftKinds[1], b \in LiftKinds[2], c \in LiftKinds[3], d \in LiftKinds[4],
                       e \in LiftKinds[5], f \in LiftKinds[6], g \in LiftKinds[7], h \in LiftKinds[8]}}
\* A word that may look like code at 4, and the pointer the program uses.
LiftWords(c) == IF c[3].k = "jt" THEN {6} ELSE {4, 6}
LiftPrograms == {c \in LiftCodes : LiftProgram(c)}
MCImages32 ==
    UNION {{[code |-> c, table |-> t, words |-> LiftWords(c), pointers |-> {6}, entry |-> 0] :
                t \in IF c[3].k = "jt" THEN JumpTables ELSE {<<3, 5, 99>>}} : c \in LiftPrograms}


----------------------------------------------------------------------------
RecKinds == <<
    {Code("call", 2, 5), Code("call", 2, 4), Code("push", 1, 6)},
    {Code("ijmp", 1, 0), PlainOp},
    {Code("jcc", 1, 6), Code("jmp", 2, 5), PlainOp},
    {Code("ret", 1, 0), Code("int3", 1, 0)},
    {Code("jcc", 1, 7), Code("ret", 1, 0), Code("int3", 1, 0), PlainOp},
    {Code("jcc", 1, 3), Code("call", 1, 2), Code("jmp", 1, 7), PlainOp},
    {Code("ret", 1, 0), Code("int3", 1, 0), Code("op", 2, 0), Code("jmp", 1, 2)},
    {Code("ret", 1, 0)}>>
RecProgram(c) ==
    \A s \in {CodeReach(c)} :
        /\ s \subseteq CodePlaces
        /\ \A x \in s : c[x].k # "int3"
        /\ c[1].k = "ijmp" => c[0].k = "push"
        /\ c[4].k = "int3" => c[2].k = "jmp"
        /\ \A x \in CodeLine(c, s) : (x + 1 .. x + c[x].n - 1) \cap s = {}
RecCodes == {[p \in CodePlaces |-> s[p + 1]] :
             s \in {<<a, b, c, d, e, f, g, h>> :
                       a \in RecKinds[1], b \in RecKinds[2], c \in RecKinds[3], d \in RecKinds[4],
                       e \in RecKinds[5], f \in RecKinds[6], g \in RecKinds[7], h \in RecKinds[8]}}
RecLists == {{<<0, 2>>}, {<<0, 4>>}, {<<0, 4>>, <<4, 6>>}, {<<0, 8>>}}
RecListed(k) == UNION {f[1] .. f[2] - 1 : f \in k}
RecFits(c, k) == /\ c[1].k = "ijmp" => k # {<<0, 8>>}
              /\ \A x \in CodePlaces \ RecListed(k) : c[x].k = "jcc" => c[x].t \in RecListed(k) \cup (x .. MCCodeEnd)
MCPrograms == {p \in {[code |-> c, known |-> k, forced |-> {}, pointers |-> {6}] : c \in {c \in RecCodes : RecProgram(c)}, k \in RecLists} :
                  RecFits(p.code, p.known)}

----------------------------------------------------------------------------
ArgKinds == <<
    {Code("op", 2, 0), Code("jcc", 1, 4), Code("jmp", 2, 3)},
    {Code("ret", 1, 4), Code("op", 1, 0), Code("int3", 1, 0)},
    {Code("op", 2, 0), Code("ijmp", 1, 0), Code("jmp", 1, 5), Code("hlt", 1, 0)},
    {Code("ret", 1, 4), Code("ret", 1, 0), Code("op", 1, 0)},
    {Code("jmp", 1, 1), Code("ret", 1, 8), Code("jmp", 1, 4), Code("op", 2, 0)},
    {Code("ret", 1, 8), Code("ret", 1, 0), Code("bad", 1, 0)},
    {Code("ret", 1, 8), Code("op", 2, 0)}>>
ArgPlaces == 0 .. 6
ArgCodes == {[p \in ArgPlaces |-> s[p + 1]] :
                s \in {<<a, b, c, d, e, f, g>> :
                        a \in ArgKinds[1], b \in ArgKinds[2], c \in ArgKinds[3], d \in ArgKinds[4],
                        e \in ArgKinds[5], f \in ArgKinds[6], g \in ArgKinds[7]}}
ArgSucc(c, x) ==
    IF x \notin ArgPlaces THEN {}
    ELSE LET i == c[x] IN
         CASE i.k \in {"ret", "ijmp", "int3", "hlt", "bad"} -> {}
           [] i.k = "jmp" -> {i.t} [] i.k = "jcc" -> {i.t, x + i.n} [] OTHER -> {x + i.n}
ArgReach(c) ==
    LET r[k \in ArgPlaces] == IF k = 0 THEN {0} ELSE UNION {{x} \cup ArgSucc(c, x) : x \in r[k - 1]}
    IN r[6]
PopsOf(c) == {c[x].t : x \in {y \in ArgReach(c) \cap ArgPlaces : c[y].k = "ret"}}
\* Every path out of the function pops the same.
OneCount(c) == PopsOf(c) \subseteq {4} \/ PopsOf(c) \subseteq {8} \/ PopsOf(c) \subseteq {0}
Letter == "cdecl" :> "A" @@ "stdcall" :> "G" @@ "thiscall" :> "E"
Pops(c) == IF PopsOf(c) = {} THEN 1 ELSE (CHOOSE n \in PopsOf(c) : TRUE) \div 4
Sym(form, conv, pops, tails, local) ==
    [form |-> form, conv |-> conv, pops |-> pops, bytes |-> pops * 4, tails |-> tails, local |-> local]
Templates == {<<>>, <<<<"V", "?", "$">>, <<"s", "t", "d">>>>}
SymsOf(p) ==
    {Sym("decorated", "stdcall", p, <<>>, FALSE)}
    \cup {Sym(f, conv, p, <<>>, FALSE) : f \in {"plain", "noname"}, conv \in IF p = 0 THEN {"cdecl", "stdcall"} ELSE {"stdcall"}}
    \cup {Sym("mangled", conv, p, q \o <<a \o <<Letter[conv]>>>>, FALSE) :
             conv \in IF p = 0 THEN {"cdecl", "stdcall", "thiscall"} ELSE {"stdcall", "thiscall"}, q \in Templates,
             a \in {<<"Y">>, <<"S">>, <<"Q", "A">>}}
    \cup {Sym("mangled", "data", 0, q \o t, t = <<>>) :
             q \in Templates \ {<<>>}, t \in {<<<<"2", "I", "B">>>>, <<>>}}
Copies == {"absent", "forwarder", "body"}
OneCountCodes == {c \in ArgCodes : OneCount(c)}
\* Every name with a few callees, and every callee behind a plain export.
Named == {c \in OneCountCodes : /\ c[2].k = "hlt" /\ c[3] = Code("ret", 1, 4) /\ c[4].k = "ret" /\ c[5].k = "bad" /\ c[6].k = "ret"}
NamedImports ==
    UNION {{m \in [dll : {"crt", "other"}, sym : SymsOf(Pops(c)), byOrdinal : BOOLEAN, inLib : BOOLEAN,
                   game : Copies, system : Copies, code : {c}] :
               /\ m.dll = "crt" /\ m.sym.form = "plain" => m.sym.conv = "cdecl"
               /\ m.inLib => m.sym.form = "plain" /\ m.sym.conv = "stdcall"
               /\ m.sym.conv = "data" /\ m.byOrdinal => m.system # "absent"
               /\ m.sym.form = "noname" => m.byOrdinal} : c \in Named}
CodedImports ==
    {[dll |-> "other", sym |-> Sym("plain", "stdcall", Pops(c), <<>>, FALSE), byOrdinal |-> FALSE, inLib |-> FALSE,
      game |-> "body", system |-> "absent", code |-> c] : c \in OneCountCodes}
MCImports == NamedImports \cup CodedImports

----------------------------------------------------------------------------
Region(b, e, c, o) == [begin |-> b, end |-> e, chained |-> c, of |-> o]
MCRegions == {
    {}, {Region(0, 2, FALSE, 0), Region(2, 4, TRUE, 0), Region(4, 6, FALSE, 4)},
    {Region(1, 3, FALSE, 1), Region(3, 4, TRUE, 1), Region(4, 5, TRUE, 1)},
    {Region(2, 4, FALSE, 2), Region(5, 6, FALSE, 5)}, {Region(3, 3, FALSE, 3), Region(4, 6, FALSE, 4)}}
MCBounds == {<<-1, 2>>, <<0, 1>>, <<0, 5>>, <<1, 6>>, <<2, 2>>, <<2, 3>>, <<6, 7>>}
MCImages == [regions : MCRegions, code : {0 .. 5}, exports : SUBSET {0, 2, 7}, entry : {0, 3, 6}, bounds : SUBSET MCBounds]

----------------------------------------------------------------------------
ImageFn(entry, start, ends, second, seg) ==
    [entry |-> entry, start |-> start, entry_addr |-> second, seg |-> seg,
     code |-> [a \in start .. ends - 1 |-> 1]]
MCLayouts ==
  {[bias |-> 0, far_base |-> 0, arms |-> {1, 5, 9},
    funcs |-> {[ImageFn(0, 0, 3, -1, 0) EXCEPT !.code = (0 :> 1) @@ (1 :> 2)],
               ImageFn(4, 3, 6, 1, 0), ImageFn(7, 7, 8, -1, 0), ImageFn(8, 8, 10, -1, 2)}],
   [bias |-> -1, far_base |-> -1, arms |-> {4},
    funcs |-> {ImageFn(3, 3, 5, -1, 1), ImageFn(6, 6, 7, -1, 1), ImageFn(8, 8, 10, -1, 2)}],
   [bias |-> 2, far_base |-> -1, arms |-> {3},
    funcs |-> {ImageFn(2, 2, 4, -1, 0), ImageFn(4, 4, 6, -1, 0), ImageFn(8, 8, 9, -1, 1)}]}

----------------------------------------------------------------------------
NameLine(sec, va, name, tail) == [sec |-> sec, va |-> va, name |-> name, tail |-> tail]
Spelt(w, t) == [word |-> w, tail |-> t]
MCIdents == "_memcpy" :> Spelt("memcpy", <<>>) @@ "memcpy" :> Spelt("memcpy", <<>>)
            @@ "_main" :> Spelt("main", <<>>) @@ "@@" :> Spelt("", <<>>)
            @@ "memcpy_12" :> Spelt("memcpy", <<12>>) @@ "sub_13" :> Spelt("sub", <<13>>)
\* Four functions behind a header of two bytes; the last one is not in the file.
NameImage(entry, b) == [base |-> 8, entry |-> entry, bytes |-> b,
                        sections |-> <<[va |-> 2, vsize |-> 4, rsize |-> 3]>>]
NameBytes == [{10, 11, 12, 13} -> {1, 2}]
MCDonors == {NameImage(3, b) : b \in {c \in NameBytes : c[12] = 1 /\ c[13] = 1}}
MapOf(b, e, h, x, y) ==
    [base |-> b, entry |-> e, lines |-> <<NameLine(0, 0, "_main", <<"f">>), NameLine(1, h, "@@", <<"f", "crt">>), x, y,
                                          NameLine(1, 13, "_main", <<"f", "crt">>)>>]
FirstLines == {NameLine(1, 10, "_memcpy", <<"f", "crt">>), NameLine(1, 10, "memcpy", <<"f", "i", "own">>), NameLine(1, 10, "@@", <<"crt">>)}
SecondLines == {NameLine(1, 11, "_memcpy", <<"f", "crt">>), NameLine(1, 11, "memcpy", <<"f", "crt">>), NameLine(1, 10, "_main", <<"f", "own">>)}
MCMaps == {MapOf(b, e, h, x, y) : b \in {8, 0}, e \in {<<>>, <<1, 1>>, <<1, 0>>, <<2, 0>>}, h \in {8, 9},
                                  x \in FirstLines, y \in SecondLines}
MCDonorMaps == {MapOf(8, <<1, 1>>, 9, x, y) : x \in FirstLines, y \in SecondLines}
               \cup {MapOf(8, <<1, 0>>, 9, x, y) : x \in FirstLines, y \in {NameLine(1, 11, "_memcpy", <<"f", "crt">>)}}
MCTargets == {NameImage(2, b) @@ [functions |-> f] :
                 b \in {c \in NameBytes : c[13] = 1},
                 f \in {g \in [{10, 11, 12} -> {"_memcpy", "memcpy", "own", "alias"}] : g[12] = "own"}}
MCLibs == {"crt", "none"}
MCTables == {10 :> "memcpy" @@ 12 :> "_memcpy", 11 :> "@@" @@ 12 :> "_main",
             11 :> "memcpy_12" @@ 12 :> "_memcpy", 12 :> "sub_13"}
MCFiles == {12, 13}
=============================================================================
