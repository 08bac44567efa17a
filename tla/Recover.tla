------------------------------- MODULE Recover -------------------------------
(* From a list of functions to C that runs: tools/lift/recover.py finds the  *)
(* entries the list lacks, and for every function and every recovered body   *)
(* tools/lift/generate.py decodes the extent and writes one C function, whose*)
(* branches are gotos to its own labels and dispatches by address elsewhere. *)
(*                                                                           *)
(* A program gives, for every address, the instruction that decoding there   *)
(* yields, [k, n, t]: its kind, size and direct target or immediate.         *)
EXTENDS Integers, FiniteSets, Sequences, FiniteSetsExt, TLC

CONSTANTS CodeEnd,        \* the code section is 0 .. CodeEnd - 1
          IntraSpan,      \* _INTRA_SPAN
          MaxResumes,     \* MAX_RESUMES
          Programs,       \* records [code, known, forced, pointers]
          RunLength,      \* bound: instructions executed
          MaxDepth        \* bound: calls in progress

VARIABLES prog, phase,
          work, queued,   \* entries to decode; ever queued
          forced,         \* entries that may lie in a listed body
          recovered,      \* start -> end
          guest,          \* the processor: [pc, ret]
          lifted,         \* the C program: [f, x, ret, state]
          steps
vars == <<prog, phase, work, queued, forced, recovered, guest, lifted, steps>>

in_code(a) == a \in 0 .. CodeEnd - 1
At(a) == prog.code[a]
EndAt(a) == a + At(a).n
Decodes(a, end) == in_code(a) /\ At(a).k # "bad" /\ EndAt(a) <= end
IsBranch(a) == At(a).k \in {"call", "jmp", "jcc"}
Stops(a) == At(a).k \in {"ret", "int3"}
Jumps(a) == At(a).k \in {"jmp", "ijmp"}

\* The listed functions, and whether the last one that starts at or before a holds it.
entries == {f[1] : f \in prog.known}
covered(a) ==
    LET before == {f \in prog.known : f[1] <= a}
    IN \E f \in before : a < f[2] /\ \A g \in before : g[1] <= f[1]

\* The instructions of a listed body, in one linear decode.
Body(f) ==
    LET w[x \in 0 .. CodeEnd + 1] == IF Decodes(x, f[2]) THEN {x} \cup w[EndAt(x)] ELSE {}
    IN w[f[1]]
New(t) == in_code(t) /\ t \notin entries /\ ~covered(t)

\* Mutant: a conditional jump into another body is taken for ordinary control flow.
is_alt_entry_bug(ea, end, k, t) ==
    /\ in_code(t) /\ t \notin entries /\ covered(t)
    /\ k = "call" \/ (k = "jmp" /\ ~(ea <= t /\ t < end))
is_alt_entry(ea, end, k, t) ==
    /\ in_code(t) /\ t \notin entries /\ covered(t)
    /\ k = "call" \/ ~(ea <= t /\ t < end)
AltEntries(ea, end, insns) ==
    {At(x).t : x \in {y \in insns : IsBranch(y) /\ is_alt_entry(ea, end, At(y).k, At(y).t)}}

----------------------------------------------------------------------------
(* recover_functions.                                                        *)

\* A body that neither returns nor jumps runs into the address after it.
Continues(f) ==
    LET insns == Body(f)
        last == Max(insns)
    IN IF insns = {} THEN {} ELSE IF Stops(last) \/ Jumps(last) THEN {}
       ELSE {EndAt(last)} \cap {t \in 0 .. CodeEnd - 1 : t \notin entries}

\* Pass 1: targets outside every listed body, any code address that occurs as
\* an immediate, and targets inside a body that are not its entry.
Sweep ==
    /\ phase = "sweep"
    /\ LET named(f) == {At(x).t : x \in {y \in Body(f) : IsBranch(y) \/ At(y).k = "push"}}
           falls == UNION {Continues(f) : f \in prog.known}
           seeds == {t \in falls \cup UNION {named(f) : f \in prog.known} : New(t)}
           alts == UNION {AltEntries(f[1], f[2], Body(f)) : f \in prog.known} \cup {t \in falls : covered(t)}
       IN /\ forced' = {s \in alts \cup prog.forced : in_code(s) /\ s \notin entries}
          /\ work' = seeds \cup forced'
          /\ queued' = work'
    /\ phase' = "work"
    /\ UNCHANGED <<prog, recovered, guest, lifted, steps>>

\* What is reached from s without leaving for another function.
Intra(s, t) == s <= t /\ t < s + IntraSpan /\ ~covered(t)
Onward(s, x) ==
    (IF Stops(x) \/ Jumps(x) THEN {} ELSE {EndAt(x)})
    \cup (IF At(x).k \in {"jmp", "jcc"} /\ Intra(s, At(x).t) THEN {At(x).t} ELSE {})
Visited(s) ==
    LET r[k \in 0 .. CodeEnd] ==
            IF k = 0 THEN {s} ELSE r[k - 1] \cup {y \in UNION {Onward(s, x) : x \in r[k - 1]} : Decodes(y, CodeEnd)}
    IN IF Decodes(s, CodeEnd) THEN r[CodeEnd] ELSE {}
Reaches(s, insns) ==
    {At(x).t : x \in {y \in insns : /\ \/ At(y).k = "call"
                                       \/ At(y).k = "jmp" /\ ~Intra(s, At(y).t)
                                    /\ New(At(y).t)}}

\* Pass 2, one entry: its extent, and the entries found on the way.
TakeBody(s, insns, end) ==
    /\ recovered' = (s :> end) @@ recovered
    /\ LET fresh(set) == set \ (queued \cup DOMAIN recovered' \cup entries)
           alts == fresh(AltEntries(s, end, insns))
           found == fresh(Reaches(s, insns)) \cup alts
       IN /\ forced' = forced \cup alts
          /\ work' = (work \ {s}) \cup found
          /\ queued' = queued \cup found
Recover(s) ==
    /\ phase = "work"
    /\ IF s \in DOMAIN recovered \/ (covered(s) /\ s \notin forced)
       THEN work' = work \ {s} /\ UNCHANGED <<recovered, forced, queued>>
       ELSE TakeBody(s, Visited(s), Max({EndAt(x) : x \in Visited(s)} \cup {s}))
    /\ UNCHANGED <<prog, phase, guest, lifted, steps>>

----------------------------------------------------------------------------
(* linear_disassemble_function and lift_function_linear.                     *)

Bodies == entries \cup DOMAIN recovered
ExtentEnd(f) == IF f \in entries THEN (CHOOSE g \in prog.known : g[1] = f)[2] ELSE recovered[f]

NoTarget == -1
Inside(f, t) == f <= t /\ t < ExtentEnd(f)
LeadersAt(f, x) ==
    IF At(x).k \in {"jcc", "jmp"} THEN {EndAt(x)} \cup ({At(x).t} \cap {t \in 0 .. CodeEnd - 1 : Inside(f, t)})
    ELSE IF At(x).k = "ijmp" THEN {EndAt(x)} ELSE {}
Over(f, x, z) == IF At(x).k = "jmp" /\ Inside(f, At(x).t) THEN At(x).t ELSE z.over
\* An int3 ends the sweep unless the instruction after it is a leader.
Padding(x, leaders) == EndAt(x) \notin leaders
\* An int3 that ended the sweep: go on where the last jump of this pass went.
Resume(z) ==
    IF z.over # NoTarget /\ z.over \notin z.insns /\ z.resumes < MaxResumes
    THEN [z EXCEPT !.pc = z.over, !.over = NoTarget, !.resumes = @ + 1]
    ELSE [z EXCEPT !.done = TRUE]
Decoded(z, x, leaders, over) ==
    LET y == [z EXCEPT !.insns = @ \cup {x}, !.leaders = leaders, !.over = over, !.pc = EndAt(x)]
    IN IF At(x).k = "int3" /\ Padding(x, leaders) THEN Resume(y) ELSE y
LinearStep(f, z) ==
    IF z.done THEN z
    ELSE IF ~Decodes(z.pc, ExtentEnd(f)) \/ z.pc \in z.insns THEN [z EXCEPT !.done = TRUE]
    ELSE Decoded(z, z.pc, z.leaders \cup LeadersAt(f, z.pc), Over(f, z.pc, z))
linear_disassemble_function(f) ==
    LET it[k \in 0 .. 2 * CodeEnd] ==
            IF k = 0 THEN [pc |-> f, insns |-> {}, leaders |-> {f}, over |-> NoTarget, resumes |-> 0, done |-> FALSE]
            ELSE LinearStep(f, it[k - 1])
    IN it[2 * CodeEnd]

\* An indirect jump puts a label on every instruction.
LabelsOf(z) == IF \E x \in z.insns : At(x).k = "ijmp" THEN z.insns ELSE z.leaders \cap z.insns
Labels(f) == LabelsOf(linear_disassemble_function(f))
Text(f) == linear_disassemble_function(f).insns

\* A call, a stub for a label of another body, or the default of the switch.
Dispatch(l, t) == IF t \in Bodies THEN [l EXCEPT !.f = t, !.x = t] ELSE [l EXCEPT !.state = "missing"]
Goto(l, t) == IF t \in Labels(l.f) THEN [l EXCEPT !.x = t] ELSE Dispatch(l, t)
\* The next statement; after the last the function returns.
NextLine(l) ==
    LET down == {y \in Text(l.f) : y > l.x}
    IN IF down = {} THEN [l EXCEPT !.state = "fell"] ELSE [l EXCEPT !.x = Min(down)]

Run == phase = "run" /\ lifted.state = "run" /\ steps < RunLength /\ Decodes(guest.pc, CodeEnd)
Record(g, l) == /\ guest' = g /\ lifted' = l /\ steps' = steps + 1
                /\ UNCHANGED <<prog, phase, work, queued, forced, recovered>>
After == EndAt(guest.pc)
Straight == Run /\ At(guest.pc).k \in {"op", "push"} /\ Record([guest EXCEPT !.pc = After], NextLine(lifted))
CondJump(taken) ==
    /\ Run /\ At(guest.pc).k = "jcc"
    /\ IF taken THEN Record([guest EXCEPT !.pc = At(guest.pc).t], Goto(lifted, At(guest.pc).t))
                ELSE Record([guest EXCEPT !.pc = After], NextLine(lifted))
Jump == Run /\ At(guest.pc).k = "jmp" /\ Record([guest EXCEPT !.pc = At(guest.pc).t], Goto(lifted, At(guest.pc).t))
PointerJump(t) == Run /\ At(guest.pc).k = "ijmp" /\ Record([guest EXCEPT !.pc = t], Goto(lifted, t))
Call ==
    /\ Run /\ At(guest.pc).k = "call" /\ Len(guest.ret) < MaxDepth
    /\ Record([pc |-> At(guest.pc).t, ret |-> <<After>> \o guest.ret],
              Dispatch([lifted EXCEPT !.ret = <<[f |-> lifted.f, x |-> lifted.x]>> \o @], At(guest.pc).t))
Ret ==
    /\ Run /\ At(guest.pc).k = "ret"
    /\ IF guest.ret = <<>> THEN Record(guest, [lifted EXCEPT !.state = "done"])
       ELSE LET c == Head(lifted.ret)
            IN Record([pc |-> Head(guest.ret), ret |-> Tail(guest.ret)],
                      NextLine([lifted EXCEPT !.f = c.f, !.x = c.x, !.ret = Tail(@)]))

RecoverInit ==
    /\ prog \in Programs
    /\ phase = "sweep"
    /\ work = {} /\ queued = {} /\ forced = {}
    /\ recovered = <<>>
    /\ guest = [pc |-> 0, ret |-> <<>>]
    /\ lifted = [f |-> 0, x |-> 0, ret |-> <<>>, state |-> "run"]
    /\ steps = 0
Emit ==
    /\ phase = "work" /\ work = {}
    /\ phase' = "run"
    /\ UNCHANGED <<prog, work, queued, forced, recovered, guest, lifted, steps>>
RecoverNext ==
    \/ Sweep
    \/ \E s \in work : Recover(s)
    \/ Emit
    \/ Straight
    \/ \E taken \in BOOLEAN : CondJump(taken)
    \/ Jump
    \/ \E t \in prog.pointers : PointerJump(t)
    \/ Call
    \/ Ret
RecoverSpec == RecoverInit /\ [][RecoverNext]_vars

----------------------------------------------------------------------------
\* Whatever the program branches to, calls, falls into or stores as a pointer,
\* a listed or recovered body starts there, and its text goes where the
\* program goes (recover.py:3-21; generate.py:139-148).  A text that ends
\* without a return leaves for its caller; what it should have run into is
\* still an entry.
BodiesAgree ==
    /\ lifted.state # "missing"
    /\ lifted.state = "run" => /\ lifted.x = guest.pc
                               /\ \A k \in 1 .. Len(guest.ret) : EndAt(lifted.ret[k].x) = guest.ret[k]
    /\ lifted.state = "fell" => guest.pc \in Bodies
=============================================================================
