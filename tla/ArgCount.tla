------------------------------ MODULE ArgCount ------------------------------
(* tools/pe/stdcall_argc.py: how many argument slots an import pops, read    *)
(* off its name, an import library, an export table or the callee's own ret. *)
(*                                                                           *)
(* An import is a record: the DLL's family; the symbol behind it (form, and  *)
(* what the callee really does: conv, slots); whether the binary asks for it *)
(* by ordinal; whether the SDK's import library lists it; the copies of the  *)
(* DLL found in dll_dirs and in system_dir; and the callee's code.           *)
EXTENDS Integers, Sequences, SequencesExt, TLC

CONSTANTS Imports,
          Window,      \* bytes fetched at a time (256)
          Limit        \* instructions before the walk gives up (2048)

VARIABLES import, answer
argvars == <<import, answer>>

None == "none"
NoCount == -1

----------------------------------------------------------------------------
(* purge_from_binary.  code[a] is what decoding at a yields, [k, n, t].      *)

StopsWalk == {"int3", "hlt", "ud2"}
Fits(code, a, cut) == a \in DOMAIN code /\ code[a].k # "bad" /\ a + code[a].n <= cut

\* Mutant: the next window starts a fixed distance on.
NextWindow_bug(w) == w.cut
\* Where the next window starts: after the last whole instruction.
NextWindow(w) == w.rva
\* The window is used up: none of it decoded, or fetch the next one.
Refill(w) ==
    IF ~w.advanced \/ w.n >= Limit THEN [w EXCEPT !.done = TRUE]
    ELSE [w EXCEPT !.rva = NextWindow(w), !.cut = NextWindow(w) + Window, !.advanced = FALSE]
Follow(w, t) ==
    IF t \in w.seen THEN [w EXCEPT !.done = TRUE]
    ELSE [w EXCEPT !.seen = @ \cup {t}, !.rva = t, !.cut = t + Window, !.advanced = FALSE, !.done = w.n >= Limit]
Read(w, i) ==
    CASE i.k = "ret" -> [w EXCEPT !.found = i.t \div 4, !.done = TRUE]
      [] i.k = "jmp" -> Follow(w, i.t)
      [] i.k \in StopsWalk \cup {"ijmp"} -> [w EXCEPT !.done = TRUE]
      [] OTHER -> w
WalkStep(code, w) ==
    IF w.done THEN w
    ELSE IF ~Fits(code, w.rva, w.cut) THEN Refill(w)
    ELSE Read([w EXCEPT !.rva = @ + code[w.rva].n, !.n = @ + 1, !.advanced = TRUE], code[w.rva])
purge_from_binary(code) ==
    LET w[k \in 0 .. 3 * Limit] ==
            IF k = 0 THEN [rva |-> 0, cut |-> Window, seen |-> {}, n |-> 0, advanced |-> FALSE, found |-> NoCount, done |-> FALSE]
            ELSE WalkStep(code, w[k - 1])
    IN w[3 * Limit].found

----------------------------------------------------------------------------
(* mangled_convention.  tails are the first letters after every @@ of a      *)
(* mangled name; local says that @, a digit and a type letter occur in it.   *)

CONVENTION ==
    "A" :> "cdecl" @@ "B" :> "cdecl" @@ "C" :> "pascal" @@ "D" :> "pascal" @@ "E" :> "thiscall"
    @@ "F" :> "thiscall" @@ "G" :> "stdcall" @@ "H" :> "stdcall" @@ "I" :> "fastcall" @@ "J" :> "fastcall"
MEMBER_ACCESS == {"Q", "R", "S", "T", "U", "V", "W", "A", "B", "C", "D", "E", "F", "G", "H", "I", "J",
                  "K", "L", "M", "N", "O", "P"}
FREE_ACCESS == {"Y", "Z"}
DataCodes == {"2", "3", "4", "5", "6", "7", "8", "9"}

\* The convention letter follows the access letter, or the cv letter of a member.
ConventionOf(tail) ==
    LET at(i, access) == IF tail[1] \in access /\ Len(tail) >= i /\ tail[i] \in DOMAIN CONVENTION
                         THEN CONVENTION[tail[i]] ELSE None
        free == at(2, FREE_ACCESS \cup {"S", "T"})
    IN IF free # None THEN free ELSE at(3, MEMBER_ACCESS)
NamesData(name) == (\E i \in DOMAIN name.tails : name.tails[i][1] \in DataCodes) \/ name.local
mangled_convention(name) ==
    IF name.form # "mangled" THEN None
    ELSE IF NamesData(name) THEN "data"
    ELSE LET stated == {i \in DOMAIN name.tails : ConventionOf(name.tails[i]) # None}
         IN IF stated = {} THEN None
            ELSE ConventionOf(name.tails[CHOOSE i \in stated : \A j \in stated : i <= j])

----------------------------------------------------------------------------
(* ArgcResolver.                                                             *)

\* ordinal -> name comes from the system's copy; without it the ordinal stays.
real_name(m) ==
    IF m.byOrdinal /\ (m.system = "absent" \/ m.sym.form = "noname") THEN [form |-> "ordinal"] ELSE m.sym
InLib(m, real) == m.inLib /\ real.form = "plain"
InExports(m, real) == m.system # "absent" /\ real.form \in {"plain", "mangled"}

\* A C runtime exports cdecl, unless the name says otherwise.
FamilyRule(m, real, conv) == conv = None /\ m.dll = "crt" /\ InExports(m, real)

\* The callee's own ret, from the first copy whose walk finds one.
CalleeRet(m) ==
    LET found == {i \in {1, 2} : <<m.game, m.system>>[i] = "body"}
    IN IF found = {} THEN NoCount ELSE purge_from_binary(m.code)
Answer(argc, conv, source) == [argc |-> argc, conv |-> conv, source |-> source]
FromCallee(argc, conv) ==
    IF argc = NoCount THEN Answer(NoCount, conv, IF conv = None THEN "unresolved" ELSE "mangled-convention")
    ELSE Answer(argc, IF conv # None THEN conv ELSE IF argc = 0 THEN "cdecl" ELSE "stdcall", "callee-ret")
Strategies(m, real, conv) ==
    CASE real.form = "decorated" -> Answer(real.bytes \div 4, "stdcall", "decorated-name")
      [] conv = "data" -> Answer(0, "data", "mangled-data-symbol")
      [] conv = "cdecl" -> Answer(0, "cdecl", "mangled-convention")
      [] InLib(m, real) /\ conv \notin {"data", "cdecl"} -> Answer(real.bytes \div 4, "stdcall", "sdk-import-lib")
      [] OTHER -> IF FamilyRule(m, real, conv) THEN Answer(0, "cdecl", "crt-undecorated-export")
                  ELSE FromCallee(CalleeRet(m), conv)
lookup_ex(m) == Strategies(m, real_name(m), mangled_convention(real_name(m)))

ArgInit == import \in Imports /\ answer = Answer(NoCount, None, "not asked")
\* resolve_iat: a row when the count is known, unresolved otherwise.
ResolveIat ==
    /\ answer.source = "not asked"
    /\ answer' = lookup_ex(import)
    /\ UNCHANGED import
ArgNext == ResolveIat
ArgSpec == ArgInit /\ [][ArgNext]_argvars

----------------------------------------------------------------------------
\* A resolved import has the count its callee really pops (cdecl pops nothing),
\* and nothing that is called is taken for data, nor data for something that is
\* called (stdcall_argc.py:70-74): None is an answer, a wrong count is not.
ArgcAgrees ==
    answer.argc # NoCount =>
        /\ answer.argc = import.sym.pops
        /\ answer.conv = "data" <=> import.sym.conv = "data"
=============================================================================
