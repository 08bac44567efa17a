----------------------------- MODULE StringTest -----------------------------
(* The string instructions of tools/lift/difftest.py: movs, stos, lods, cmps *)
(* and scas, repeated or not, in both directions, on the processor and as    *)
(* the three lifters write them.  An element is one byte of H bits or a word *)
(* of two.                                                                   *)
EXTENDS Lift32, Lift32Cpu, Lift16, Sequences, SequencesExt

CONSTANTS Size,           \* bytes of memory
          Bytes           \* the values a byte starts with

VARIABLES target,         \* "lift32", "lift32_cpu" or "lift16"
          df,             \* direction: 1 or -1
          str,            \* the processor: [mem, si, di, cx, ax]
          lstr,           \* the same registers and memory as lifted
          sflags,         \* the processor's flags after a compare
          lflags,         \* the lifted operands or flags after a compare
          ran             \* the instruction that has run
svars == <<target, df, str, lstr, sflags, lflags, ran>>

NotRun == [op |-> "none", size |-> 1, rep |-> "none"]
Repeats == {"none", "rep", "repne"}
StringInstructions ==
    [op : {"movs", "stos", "lods"}, size : {1, 2}, rep : {"none", "rep"}]
    \cup [op : {"cmps", "scas"}, size : {1, 2}, rep : Repeats]

Width(x) == x.size * H
Elem(mem, p, size) == mem[p] + (IF size = 2 THEN mem[p + 1] * 2 ^ H ELSE 0)
Poke(mem, p, size, v) ==
    IF size = 2 THEN [mem EXCEPT ![p] = Trunc(v, H), ![p + 1] = v \div 2 ^ H]
                ELSE [mem EXCEPT ![p] = Trunc(v, H)]
Acc(ax, size) == Trunc(ax, size * H)

\* The operands of a compare, at the pointers.
Left(x, s) == IF x.op = "cmps" THEN Elem(s.mem, s.si, x.size) ELSE Acc(s.ax, x.size)
Right(x, s) == Elem(s.mem, s.di, x.size)

UsesSi(x) == x.op \in {"movs", "lods", "cmps"}
UsesDi(x) == x.op \in {"movs", "stos", "cmps", "scas"}
Advance(x, s, d) == [s EXCEPT !.si = IF UsesSi(x) THEN @ + d * x.size ELSE @,
                              !.di = IF UsesDi(x) THEN @ + d * x.size ELSE @]

\* One element, in the order the processor takes them.
Element(x, s, d) ==
    Advance(x, CASE x.op = "movs" -> [s EXCEPT !.mem = Poke(@, s.di, x.size, Elem(@, s.si, x.size))]
                 [] x.op = "stos" -> [s EXCEPT !.mem = Poke(@, s.di, x.size, Acc(s.ax, x.size))]
                 [] x.op = "lods" -> [s EXCEPT !.ax = (@ - Acc(@, x.size)) + Elem(s.mem, s.si, x.size)]
                 [] OTHER -> s, d)

Comparing == {"cmps", "scas"}
Ends(x, s) == /\ x.op \in Comparing
              /\ IF x.rep = "rep" THEN Left(x, s) # Right(x, s) ELSE Left(x, s) = Right(x, s)

\* The states a repeated instruction goes through: s[1] before, then one after
\* each element; the last compare that was made is the one before the last.
Repeat(x, s0, d) ==
    LET s[k \in 1 .. s0.cx + 1] ==
            IF k = 1 THEN <<s0>>
            ELSE IF Len(s[k - 1]) = k - 1 /\ ~(k > 2 /\ Ends(x, s[k - 1][k - 2]))
                 THEN Append(s[k - 1], [Element(x, Last(s[k - 1]), d) EXCEPT !.cx = @ - 1])
                 ELSE s[k - 1]
    IN s[s0.cx + 1]
Trace(x, s, d) == IF x.rep = "none" THEN <<s, Element(x, s, d)>> ELSE Repeat(x, s, d)

\* Every element lies in memory.
InMemory(x) ==
    LET n == IF x.rep = "none" THEN 1 ELSE str.cx
        within(p) == n = 0 \/ {p, p + df * (n - 1) * x.size, p + x.size - 1,
                              p + df * (n - 1) * x.size + x.size - 1} \subseteq 0 .. Size - 1
    IN (UsesSi(x) => within(str.si)) /\ (UsesDi(x) => within(str.di))

----------------------------------------------------------------------------
(* lift32: a repeated movs or stos is one memmove or memset of the span.     *)

\* Mutant: the span is copied forwards whatever the direction flag says.
Lowest_bug(p, b, size, d) == p
Lowest(p, b, size, d) == IF d > 0 THEN p ELSE (p - b) + size

rep_movs(x, s, d) ==
    LET b == s.cx * x.size
        from == Lowest(s.si, b, x.size, d)
        to == Lowest(s.di, b, x.size, d)
    IN [s EXCEPT !.mem = [p \in DOMAIN @ |-> IF p \in to .. to + b - 1 THEN @[from + p - to] ELSE @[p]],
                 !.si = @ + d * b, !.di = @ + d * b, !.cx = 0]
rep_stos(x, s, d) ==
    LET b == s.cx * x.size
        to == Lowest(s.di, b, x.size, d)
        byte(p) == IF x.size = 2 /\ (p - to) % 2 = 1 THEN s.ax \div 2 ^ H ELSE Trunc(s.ax, H)
    IN [s EXCEPT !.mem = [p \in DOMAIN @ |-> IF p \in to .. to + b - 1 THEN byte(p) ELSE @[p]],
                 !.di = @ + d * b, !.cx = 0]

\* The C loops: while (ecx) { load; advance; ecx--; if (stop) break; }, the
\* operands of the last round kept in a and b.
Stops(x, a, b) == IF x.rep = "rep" THEN a # b ELSE a = b
Loop(x, s0, d) ==
    LET f[k \in 0 .. s0.cx] ==
            IF k = 0 THEN [s |-> s0, a |-> 0, b |-> 0, broke |-> FALSE]
            ELSE IF f[k - 1].broke THEN f[k - 1]
            ELSE LET u == f[k - 1].s
                     a == IF x.op \in Comparing THEN Left(x, u) ELSE 0
                     b == IF x.op \in Comparing THEN Right(x, u) ELSE 0
                 IN [s |-> [Element(x, u, d) EXCEPT !.cx = @ - 1], a |-> a, b |-> b,
                     broke |-> x.op \in Comparing /\ Stops(x, a, b)]
    IN f[s0.cx]
Once(x, s, d) == [s |-> Element(x, s, d), broke |-> FALSE,
                  a |-> IF x.op \in Comparing THEN Left(x, s) ELSE 0,
                  b |-> IF x.op \in Comparing THEN Right(x, s) ELSE 0]
Emitted(x, s, d) == IF x.rep = "none" THEN Once(x, s, d) ELSE Loop(x, s, d)

Lift32String(x, s, d) ==
    CASE x.op = "movs" /\ x.rep = "rep" -> rep_movs(x, s, d)
      [] x.op = "stos" /\ x.rep = "rep" -> rep_stos(x, s, d)
      [] OTHER -> Emitted(x, s, d).s
\* The operands stay as they were read, unaligned.
Lift32Operands(x, s, d) == LET e == Emitted(x, s, d) IN [a |-> e.a, b |-> e.b]

\* lift32_cpu: the same loop, always forwards; flags at the operand's width.
CpuString(x, s) == Emitted(x, s, 1).s
CpuFlags(x, s, fl) ==
    LET e == Emitted(x, s, 1) IN
    IF x.rep # "none" /\ s.cx = 0 THEN fl ELSE flags_sub(fl, e.a, e.b, Width(x)).fl

\* lift16: one element, the pointers going by df(cpu); a compare keeps the
\* operands its flags are of.
Lift16Element(x, s, d) ==
    LET n == IF d = -1 THEN -x.size ELSE x.size IN
    CASE x.op = "movs" -> [s EXCEPT !.mem = Poke(@, s.di, x.size, Elem(@, s.si, x.size)), !.si = @ + n, !.di = @ + n]
      [] x.op = "stos" -> [s EXCEPT !.mem = Poke(@, s.di, x.size, Acc(s.ax, x.size)), !.di = @ + n]
      [] x.op = "lods" -> [s EXCEPT !.ax = (@ - Acc(@, x.size)) + Elem(s.mem, s.si, x.size), !.si = @ + n]
      [] x.op = "cmps" -> [s EXCEPT !.si = @ + n, !.di = @ + n]
      [] x.op = "scas" -> [s EXCEPT !.di = @ + n]
Lift16Compared(x, s, fl) == flags_subn(fl, Left(x, s), Right(x, s), Width(x)).fl
Lift16Round(x, e, d) ==
    [s |-> Lift16Element(x, e.s, d),
     fl |-> IF x.op \in Comparing THEN Lift16Compared(x, e.s, e.fl) ELSE e.fl]
\* while (cx != 0) { cx--; <element>; if (!zf) break; }; rep lods is not one
\* of the instructions that loop.
Breaks(x, e) == x.op \in Comparing /\ (x.rep = "rep" <=> ~_cond("e", e.fl))
Lift16While(x, e0, d) ==
    LET f[k \in 0 .. e0.s.cx] ==
            IF k = 0 THEN [e |-> e0, broke |-> FALSE]
            ELSE IF f[k - 1].broke THEN f[k - 1]
            ELSE LET e == Lift16Round(x, [f[k - 1].e EXCEPT !.s.cx = @ - 1], d)
                 IN [e |-> e, broke |-> Breaks(x, e)]
    IN f[e0.s.cx].e
Lift16Run(x, s, fl, d) ==
    LET e == [s |-> s, fl |-> fl] IN
    IF x.rep = "none" \/ x.op = "lods" THEN Lift16Round(x, e, d) ELSE Lift16While(x, e, d)
Lift16String(x, s, d) == Lift16Run(x, s, [n \in FlagNames |-> 0], d).s
Lift16Flags(x, s, fl, d) == Lift16Run(x, s, fl, d).fl

----------------------------------------------------------------------------
\* What the processor's flags are after the last compare that was made.
RealFlags(x, s, fl) ==
    LET t == Trace(x, s, df) IN
    IF Len(t) = 1 THEN fl
    ELSE LET u == t[Len(t) - 1] IN Difference(fl, Left(x, u), Right(x, u), 0, Width(x))

\* The differences that are kept or listed: lift32 copies a span that overlaps
\* its source as a whole, runs rep lods once as lift16 does, and compares
\* nothing as equal; lift32_cpu knows no direction flag.
Overlaps(x) ==
    LET gap == df * (str.di - str.si) IN
    x.op = "movs" /\ x.rep = "rep" /\ 0 < gap /\ gap < str.cx * x.size
StringKnown(x) ==
    \/ target = "lift32" /\ Overlaps(x)
    \/ target \in {"lift32", "lift16"} /\ x.op = "lods" /\ x.rep = "rep"
    \/ target = "lift32" /\ x.op \in Comparing /\ x.rep # "none" /\ str.cx = 0
    \/ target = "lift32_cpu" /\ df = -1

Clear == [n \in FlagNames |-> 0]
StringStart(t, d, s) ==
    /\ target = t
    /\ df = d
    /\ str = s
    /\ lstr = s
    /\ sflags = Clear
    /\ lflags = IF t = "lift32" THEN [a |-> 0, b |-> 0] ELSE Clear
    /\ ran = NotRun
StringStates == [mem : [0 .. Size - 1 -> Bytes], si : 0 .. Size - 1, di : 0 .. Size - 1,
                 cx : 0 .. 2, ax : {1, 6}]

RunString(x) ==
    /\ ran = NotRun
    /\ InMemory(x)
    /\ ~StringKnown(x)
    /\ str' = Last(Trace(x, str, df))
    /\ lstr' = CASE target = "lift32" -> Lift32String(x, lstr, df)
                 [] target = "lift32_cpu" -> CpuString(x, lstr)
                 [] target = "lift16" -> Lift16String(x, lstr, df)
    /\ sflags' = IF x.op \in Comparing THEN RealFlags(x, str, sflags) ELSE sflags
    /\ lflags' = IF x.op \notin Comparing THEN lflags
                 ELSE CASE target = "lift32" -> Lift32Operands(x, lstr, df)
                        [] target = "lift32_cpu" -> CpuFlags(x, lstr, lflags)
                        [] target = "lift16" -> Lift16Flags(x, lstr, lflags, df)
    /\ ran' = x
    /\ UNCHANGED <<target, df>>

StringInit == \E t \in {"lift32", "lift32_cpu", "lift16"}, d \in {1, -1}, s \in StringStates :
                  StringStart(t, d, s)
StringNext == \E x \in StringInstructions : RunString(x)
StringSpec == StringInit /\ [][StringNext]_svars

\* A narrow compare is kept unaligned, so only equality and the unsigned orders
\* can be asked of it; no compare of lift32 answers an overflow question.
Askable(cc) == IF ran.size = 1 THEN cc \in {"e", "ne", "a", "ae", "b", "be"} ELSE cc \notin {"o", "no"}

\* Memory, pointers and count are the processor's after every string
\* instruction, in both directions, and the condition that follows a compare
\* asks about the last pair compared (lift32.py:1192-1207).
StringsAgree ==
    /\ lstr = str
    /\ ran.op \in Comparing =>
          \A cc \in Conditions :
              IF target # "lift32" THEN _cond(cc, lflags) <=> Holds(cc, sflags)
              ELSE Askable(cc) => (Cmp(cc, lflags.a, lflags.b) <=> Holds(cc, sflags))
=============================================================================
