------------------------------ MODULE Disasm32 ------------------------------
(* tools/disasm/disasm32.py: which functions a code section holds.  The      *)
(* bytes are read from many places at once (a raw scan for E8 and E9, data   *)
(* words, descent), so the same byte may be taken for the start of an        *)
(* instruction and for the middle of another; the catalog has to end up with *)
(* entries the program really enters, each with an extent of its own.        *)
(*                                                                           *)
(* An image gives, for every address, the instruction that decoding there    *)
(* yields: [k, n, t], its kind, size and direct target.                      *)
EXTENDS Integers, FiniteSets, Sequences, FiniteSetsExt

CONSTANTS CodeEnd,        \* the code section is 0 .. CodeEnd - 1
          Images          \* records [code, table, words, entry]

VARIABLES image,
          stage,          \* "scan", "rounds", "drop", "clamp", "close" or "built"
          functions,      \* the catalog: address -> [size, kind, blocks]
          owner,          \* instruction address -> the function that decoded it first
          queue, queued,  \* candidates of the next round; ever taken
          aliases,        \* entries inside another function's body
          scanned,        \* the data words have been looked at
          rounds          \* of dropping or closing
dvars == <<image, stage, functions, owner, queue, queued, aliases, scanned, rounds>>

Code == 0 .. CodeEnd - 1
JumpSize == 2             \* E8 and E9 with their rel32
is_code_address(a) == a \in Code
At(a) == image.code[a]
end_address(a) == a + At(a).n
Decodes(a) == a \in Code /\ At(a).k # "bad" /\ end_address(a) <= CodeEnd
is_ret(a) == At(a).k = "ret"
is_cond_jump(a) == At(a).k = "jcc"
is_uncond_jump(a) == At(a).k \in {"jmp", "ijmp", "jt"}
is_call(a) == At(a).k = "call"
Terminates(a) == is_ret(a) \/ is_cond_jump(a) \/ is_uncond_jump(a) \/ At(a).k = "int3"

\* The instructions from a on, as their addresses, up to one that stops.
Linear(a, Stops(_)) ==
    LET w[x \in Code \cup {CodeEnd, CodeEnd + 1}] ==
            IF ~Decodes(x) THEN {} ELSE IF Stops(x) THEN {x} ELSE {x} \cup w[end_address(x)]
    IN IF a \in Code THEN w[a] ELSE {}

\* Where the decode that starts at a stopped being one.
ProbeStops(x) == is_ret(x) \/ is_uncond_jump(x)
probes_as_function_body(a) ==
    \E x \in Linear(a, ProbeStops) : ProbeStops(x)

\* The slots of the jump table that are code, padding in front and a hole in
\* the middle passed over.
jump_table_targets ==
    LET slots == image.table
        read[k \in 0 .. Len(slots)] ==
            IF k = 0 THEN [out |-> {}, misses |-> 0, done |-> FALSE]
            ELSE LET r == read[k - 1] IN
                 IF r.done THEN r
                 ELSE IF is_code_address(slots[k])
                      THEN [r EXCEPT !.out = @ \cup {slots[k]}, !.misses = 0]
                      ELSE [r EXCEPT !.misses = @ + 1,
                                     !.done = IF r.out = {} THEN r.misses >= 3 ELSE r.misses >= 1]
    IN read[Len(slots)].out

----------------------------------------------------------------------------
(* disassemble_function: descent from one address.                           *)

\* The leaders that the scan from one leader adds.
Leading(x) == IF is_cond_jump(x) THEN {At(x).t, end_address(x)}
              ELSE IF At(x).k = "jmp" THEN {At(x).t}
              ELSE IF At(x).k = "jt" THEN jump_table_targets ELSE {}
Leads(a) == UNION {Leading(x) : x \in Linear(a, Terminates)}
block_leaders(start) ==
    LET reach[k \in 0 .. CodeEnd] ==
            IF k = 0 THEN {start} ELSE UNION {{a} \cup Leads(a) : a \in reach[k - 1]}
    IN reach[CodeEnd]

\* The instructions of the block of one leader: up to a terminator or the next leader.
Block(leader, leaders) ==
    LET BlockStops(x) == Terminates(x) \/ end_address(x) \in leaders
    IN Linear(leader, BlockStops)
Cut(leaders) == {b \in {[start |-> l, insns |-> Block(l, leaders)] : l \in leaders} : b.insns # {}}
Blocks(start) == Cut(block_leaders(start))
InsnsOf(blocks) == UNION {b.insns : b \in blocks}
EndOf(insns) == Max({end_address(x) : x \in insns})
Function(a, blocks, kind) ==
    [size |-> IF blocks = {} THEN 0 ELSE EndOf(InsnsOf(blocks)) - a, kind |-> kind, blocks |-> blocks]
disassemble_function(a, kind) == Function(a, Blocks(a), kind)

\* Bytes after the first of any of these instructions.
InteriorOf(insns) == UNION {x + 1 .. end_address(x) - 1 : x \in insns}

----------------------------------------------------------------------------
(* find_functions.                                                           *)

\* Every E8 and E9 byte, five bytes passed over after a hit.
find_branch_targets ==
    LET scan[o \in 0 .. CodeEnd] ==
            IF o >= CodeEnd - JumpSize THEN {}
            ELSE IF At(o).k \in {"call", "jmp"}
                 THEN ({At(o).t} \cap Code) \cup scan[o + JumpSize]
                 ELSE scan[o + 1]
    IN scan[0]
prologue_targets == {a \in Code : At(a).k = "prolog"}

Scan ==
    /\ stage = "scan"
    /\ queue' = find_branch_targets \cup prologue_targets \cup {image.entry}
    /\ queued' = queue'
    /\ stage' = "rounds"
    /\ UNCHANGED <<image, functions, owner, aliases, scanned, rounds>>

\* The direct targets, and the pushed addresses, of a function's instructions.
Branches(insns) == {At(x).t : x \in {y \in insns : At(y).k \in {"call", "jmp"}}} \cap Code
Pushed(insns) == {At(x).t : x \in {y \in insns : At(y).k = "push"}} \cap Code

\* One discovery round: every candidate is disassembled, in address order, then
\* the new functions are harvested for targets nothing has decoded yet and for
\* targets inside somebody else's body.
_add_func(a) == disassemble_function(a, IF a \in aliases THEN "alias" ELSE "start")
\* The decode of each candidate, and what a whole round has then covered.
Decoded == {p \in {<<a, _add_func(a)>> : a \in queue \ DOMAIN functions} : p[2].blocks # {}}
Bodies(added) == {<<p[1], InsnsOf(p[2].blocks)>> : p \in added}
Owners(bodies) ==
    [x \in DOMAIN owner \cup UNION {p[2] : p \in bodies} |->
        IF x \in DOMAIN owner THEN owner[x] ELSE Min({p[1] : p \in {q \in bodies : x \in q[2]}})]
Taken(bodies, first) ==
    UNION {{t \in Branches(p[2]) \ queued :
               t \in DOMAIN first => /\ t \notin DOMAIN functions \cup {q[1] : q \in bodies}
                                    /\ first[t] # p[1]} : p \in bodies}
PushedBy(bodies) == UNION {Pushed(p[2]) : p \in bodies}
Discover ==
    /\ stage = "rounds" /\ queue # {}
    /\ \E added \in {Decoded} :
           /\ functions' = [a \in DOMAIN functions \cup {p[1] : p \in added} |->
                  IF a \in DOMAIN functions THEN functions[a]
                  ELSE (CHOOSE p \in added : p[1] = a)[2]]
           /\ owner' = Owners(Bodies(added))
           /\ \E taken \in {Taken(Bodies(added), owner')} :
                  /\ aliases' = aliases \cup (taken \cap DOMAIN owner')
                  /\ queue' = taken \cup (PushedBy(Bodies(added)) \ (queued \cup DOMAIN owner'))
    /\ queued' = queued \cup queue'
    /\ UNCHANGED <<image, stage, scanned, rounds>>

Corroborated(a) == probes_as_function_body(a)
find_data_code_pointers ==
    {a \in image.words \cap Code :
        /\ a \notin DOMAIN owner \cup queued \cup InteriorOf(DOMAIN owner)
        /\ Corroborated(a)}

\* Once, when the rounds have run dry; what it finds is a round of its own.
DataScan ==
    /\ stage = "rounds" /\ queue = {}
    /\ scanned' = TRUE
    /\ IF ~scanned /\ find_data_code_pointers # {}
       THEN /\ queue' = find_data_code_pointers
            /\ queued' = queued \cup queue'
            /\ UNCHANGED stage
       ELSE /\ stage' = "drop"
            /\ UNCHANGED <<queue, queued>>
    /\ UNCHANGED <<image, functions, owner, aliases, rounds>>

----------------------------------------------------------------------------
(* drop_mid_instruction_entries, clamp_extents, close_dispatch_targets.      *)

\* body_instructions: to the ret the function ends at, through direct jumps.
WalkStops(x) == is_ret(x) \/ is_uncond_jump(x)
body_instructions(f) ==
    LET jumps(a) == {At(x).t : x \in {y \in Linear(a, WalkStops) : At(y).k = "jmp"}} \cap Code
        walk[k \in 0 .. CodeEnd] ==
            IF k = 0 THEN {f} ELSE UNION {{a} \cup jumps(a) : a \in walk[k - 1]}
    IN UNION {Linear(a, WalkStops) : a \in walk[CodeEnd]}
Interior == InteriorOf(UNION {body_instructions(f) : f \in {g \in DOMAIN functions : functions[g].size > 0}})

Kept(set) == [a \in DOMAIN functions \ set |-> functions[a]]
MaxDrops == 4
Drop ==
    /\ stage = "drop"
    /\ LET bogus == DOMAIN functions \cap Interior IN
       IF bogus # {} /\ rounds < MaxDrops
       THEN /\ functions' = Kept(bogus)
            /\ rounds' = rounds + 1
            /\ UNCHANGED stage
       ELSE /\ stage' = "clamp"
            /\ rounds' = 0
            /\ UNCHANGED functions
    /\ UNCHANGED <<image, owner, queue, queued, aliases, scanned>>

\* The entry after a, among these, or the end of the section.
After(a, set) == Min({s \in set : s > a} \cup {CodeEnd})
\* The limits of a clamp: an alias cuts nothing.
Starts == {a \in DOMAIN functions : functions[a].kind = "start"}

clamp_extents ==
    /\ stage = "clamp"
    /\ functions' = [a \in DOMAIN functions |-> [functions[a] EXCEPT !.size =
            IF @ > 0 /\ a + @ > After(a, Starts) THEN After(a, Starts) - a ELSE @]]
    /\ stage' = "close"
    /\ UNCHANGED <<image, owner, queue, queued, aliases, scanned, rounds>>

\* The linear decode of an extent, and the direct targets that leave it.
NeverStops(x) == FALSE
Extent(f) == {x \in Linear(f, NeverStops) : end_address(x) <= f + functions[f].size}
Leaving(f) == {t \in {At(x).t : x \in {y \in Extent(f) : At(y).k \in {"jcc", "jmp", "call"}}} :
                  t \notin f .. f + functions[f].size - 1}
MaxCloses == 3
Close ==
    /\ stage = "close"
    /\ LET wanted == ((UNION {Leaving(f) : f \in DOMAIN functions}) \cap Code) \ DOMAIN functions IN
       IF wanted # {} /\ rounds < MaxCloses
       THEN /\ functions' = [a \in DOMAIN functions \cup wanted |->
                  IF a \in wanted
                  THEN [size |-> After(a, DOMAIN functions) - a, kind |-> "alias", blocks |-> {}]
                  ELSE functions[a]]
            /\ aliases' = aliases \cup wanted
            /\ rounds' = rounds + 1
            /\ UNCHANGED stage
       ELSE /\ stage' = "built"
            /\ UNCHANGED <<functions, aliases, rounds>>
    /\ UNCHANGED <<image, owner, queue, queued, scanned>>

DisasmInit ==
    /\ image \in Images
    /\ stage = "scan"
    /\ functions = <<>>
    /\ owner = <<>>
    /\ queue = {} /\ queued = {} /\ aliases = {}
    /\ scanned = FALSE
    /\ rounds = 0
Build == Scan \/ Discover \/ DataScan \/ Drop \/ clamp_extents \/ Close
=============================================================================
