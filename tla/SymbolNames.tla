---------------------------- MODULE SymbolNames ----------------------------
(* Names for the functions of an image: tools/pe/map_names.py carries the    *)
(* names of a donor's linker MAP to a target by the opening bytes of the     *)
(* library code both were linked with, and merge_names.py joins them with    *)
(* the other sources into one C identifier per address.  The opening bytes   *)
(* of a function are one value, Short where the file ends inside them; a     *)
(* name is a model string, and Idents says what identifier it becomes: a     *)
(* word and the addresses spelt behind it.                                   *)
EXTENDS Integers, Sequences, FiniteSets, SequencesExt, FiniteSetsExt, Functions

CONSTANTS Donors, Targets,  \* images: see Within and Opening; a target's
                          \* functions are [address -> its name, "own" or "alias"]
          Maps, DonorMaps,  \* the MAPs resolve is given, and port
          Libs,           \* the library trusted, None for all of them
          Tables, Files,  \* the other source, [address -> name]; files' functions
          Idents          \* [name -> identifier, Nothing where none is left]

Line == [sec : Nat, va : Nat, name : DOMAIN Idents, tail : Seq(STRING)]
NamesAssumption ==
    /\ \A n \in DOMAIN Idents : Idents[n] \in [word : STRING, tail : Seq(Int)]
    /\ \A m \in Maps \cup DonorMaps : m.lines \in Seq(Line)
    /\ \A t \in Tables : \A a \in DOMAIN t : t[a] \in DOMAIN Idents

VARIABLES world,          \* [mode, force, donor, map, lib, target, other, files]
          step,           \* the next thing done
          syms,           \* the symbols of the MAP
          sigs,           \* [opening bytes -> name]
          named,          \* [address -> name]
          merged,         \* [address -> [name, raw]], the identifiers
          todo            \* the addresses of a source merge has not come to
nvars == <<world, step, syms, sigs, named, merged, todo>>

None == "none"
Short == -1
NoNames == [a \in {} |-> None]

\* The columns behind a symbol's address: flags of one letter, then the
\* library.
Flags == {"f", "i"}
FlagsOf(tail) == {tail[k] : k \in {j \in DOMAIN tail : \A m \in 1 .. j : tail[m] \in Flags}}
LibOf(tail) == IF tail = <<>> \/ Last(tail) \in Flags THEN "" ELSE Last(tail)
Symbol(l) == [va |-> l.va, name |-> l.name, is_func |-> "f" \in FlagsOf(l.tail), lib |-> LibOf(l.tail)]

\* Absolute symbols, and records left at the image base, are no symbols.
Listed(map, l) == l.sec # 0 /\ l.va # 0 /\ l.va # map.base
\* The symbols in the order of their lines, [line -> symbol].
parse_map(map) == [k \in {j \in DOMAIN map.lines : Listed(map, map.lines[j])} |-> Symbol(map.lines[k])]

\* An image's sections lie at [va, vsize] from its base; rsize of them is in
\* the file.
Within(image, va, size) ==
    \E k \in DOMAIN image.sections :
       LET lo == image.base + image.sections[k].va
       IN lo <= va /\ va < lo + image.sections[k][size]
Placed(image, va) == Within(image, va, "vsize")
drop_unplaced(ss, image) == Restrict(ss, {k \in DOMAIN ss : Placed(image, ss[k].va)})

\* Does the MAP describe this build?  Where it cannot be told, it may.
check_identity(map, image) ==
    \/ map.entry = <<>>
    \/ map.entry[1] \notin DOMAIN image.sections
    \/ image.sections[map.entry[1]].va + map.entry[2] = image.entry

\* The opening bytes at an address, if the file holds them.
Opening(image, va) == IF Within(image, va, "rsize") THEN image.bytes[va] ELSE Short

Trusted(s) == s.is_func /\ world.lib \in {None, s.lib}
Claims(ss, image, b) == {s.name : s \in {x \in Range(ss) : Trusted(x) /\ Opening(image, x.va) = b}}
Openings(ss, image) == {Opening(image, s.va) : s \in {x \in Range(ss) : Trusted(x)}} \ {Short}

\* Mutant: of two names that claim the same bytes one stays.
signatures_bug(ss, image) ==
    [b \in Openings(ss, image) |-> CHOOSE n \in Claims(ss, image, b) : TRUE]
\* Bytes that two names claim stand for neither.
signatures(ss, image) ==
    [b \in {x \in Openings(ss, image) : \A n, m \in Claims(ss, image, x) : n = m} |->
        CHOOSE n \in Claims(ss, image, b) : TRUE]

_load_candidates(image) == {a \in DOMAIN image.functions : image.functions[a] # "alias"}

\* A signature that several functions of the target match names none.
Hits(image, b) == {a \in _load_candidates(image) : Opening(image, a) = b}
apply_signatures(image, ss) ==
    [a \in {x \in _load_candidates(image) : /\ Opening(image, x) \in DOMAIN ss
                                           /\ Hits(image, Opening(image, x)) = {x}} |->
        ss[Opening(image, a)]]

\* resolve: the MAP's own image; the last symbol at an address names it.
resolve(ss) ==
    [a \in {s.va : s \in Range(ss)} |-> ss[Max({k \in DOMAIN ss : ss[k].va = a})].name]

----------------------------------------------------------------------------
(* merge_names: an identifier that is taken is lengthened by the address,    *)
(* and nobody looks whether the longer one is taken too, nor whether sub_    *)
(* and an address is.                                                        *)

Nothing == [word |-> "", tail |-> <<>>]
Suffixed(ident, a) == [ident EXCEPT !.tail = Append(@, a)]
Unnamed(a) == [word |-> "sub", tail |-> <<a>>]
Taken == {merged[a].name : a \in DOMAIN merged}
Chosen(a, ident, raw) ==
    [c \in DOMAIN merged \cup {a} |-> IF c = a THEN [name |-> ident, raw |-> raw] ELSE merged[c]]

----------------------------------------------------------------------------
Ports == [mode : {"port"}, force : {FALSE}, donor : Donors, map : DonorMaps, lib : Libs,
          target : Targets, other : Tables, files : {Files}]
Resolves == [mode : {"resolve"}, force : BOOLEAN, donor : Donors, map : Maps, lib : {None},
             target : {None}, other : Tables, files : {Files}]
NamesInit == /\ world \in Ports \cup Resolves
             /\ step = "read" /\ syms = <<>> /\ sigs = NoNames /\ named = NoNames /\ merged = NoNames
             /\ todo = {}

\* A MAP of another build is refused; resolve can be told to go on.
ReadMap == /\ step = "read"
           /\ syms' = parse_map(world.map)
           /\ step' = IF check_identity(world.map, world.donor) \/ (world.mode = "resolve" /\ world.force)
                      THEN "place" ELSE "refused"
           /\ UNCHANGED <<world, sigs, named, merged, todo>>
Place == /\ step = "place"
         /\ syms' = drop_unplaced(syms, world.donor)
         /\ step' = world.mode
         /\ UNCHANGED <<world, sigs, named, merged, todo>>
Resolve == /\ step = "resolve"
           /\ named' = resolve(syms) /\ todo' = DOMAIN named' /\ step' = "merge"
           /\ UNCHANGED <<world, syms, sigs, merged>>
\* port: no signature at all ends the run.
Port == /\ step = "port"
        /\ sigs' = signatures(syms, world.donor)
        /\ step' = IF sigs' = NoNames THEN "refused" ELSE "apply"
        /\ UNCHANGED <<world, syms, named, merged, todo>>
Apply == /\ step = "apply"
         /\ named' = apply_signatures(world.target, sigs) /\ todo' = DOMAIN named' /\ step' = "merge"
         /\ UNCHANGED <<world, syms, sigs, merged>>
\* The next address of a source: a better source, or a name that leaves no
\* identifier, passes it by.
Claim(table) ==
    \E a \in todo :
       /\ \A c \in todo : a <= c
       /\ todo' = todo \ {a}
       /\ \/ /\ a \in DOMAIN merged \/ Idents[table[a]] = Nothing
             /\ UNCHANGED merged
          \/ /\ a \notin DOMAIN merged /\ Idents[table[a]] # Nothing
             /\ merged' = Chosen(a, IF Idents[table[a]] \in Taken THEN Suffixed(Idents[table[a]], a)
                                    ELSE Idents[table[a]], table[a])
       /\ UNCHANGED <<world, step, syms, sigs, named>>
Merge == step = "merge" /\ Claim(named)
MergeOther == step = "other" /\ Claim(world.other)
\* The next source, the best first.
NextSource == /\ step = "merge" /\ todo = {}
              /\ step' = "other" /\ todo' = DOMAIN world.other
              /\ UNCHANGED <<world, syms, sigs, named, merged>>
\* A file of a function nothing named keeps it.
KeepFiles == /\ step = "other" /\ todo = {}
             /\ merged' = [a \in DOMAIN merged \cup world.files |->
                             IF a \in DOMAIN merged THEN merged[a] ELSE [name |-> Unnamed(a), raw |-> None]]
             /\ step' = "done"
             /\ UNCHANGED <<world, syms, sigs, named, todo>>
NamesNext == ReadMap \/ Place \/ Resolve \/ Port \/ Apply \/ Merge \/ MergeOther \/ NextSource \/ KeepFiles
NamesSpec == NamesInit /\ [][NamesNext]_nvars

----------------------------------------------------------------------------
Donated(b) == {l \in Range(world.map.lines) :
                 /\ Listed(world.map, l) /\ Placed(world.donor, l.va)
                 /\ Trusted(Symbol(l)) /\ Opening(world.donor, l.va) = b}

\* The name of a became its identifier as it is, and ends in c's address.
EndsIn(a, c) == /\ merged[a].raw \in DOMAIN Idents
                /\ merged[a].name = Idents[merged[a].raw]
                /\ merged[a].name.tail # <<>> /\ Last(merged[a].name.tail) = c

\* A name ported to a function is that of every library function of the donor
\* that begins like it, and is the function's own name unless the target was
\* not linked with that function: never the name of another function of the
\* target that begins alike.  Nothing is named from the MAP of a build known
\* to be another one, unless forced, nor outside the sections.  When the
\* sources are merged two addresses share an identifier only where the name of
\* one ends in the other's address (merge_names.py:122-128), every address any
\* of them can name keeps the best one's name, and every function with a file
\* is kept.
NamesTrue ==
    /\ world.mode = "port" => \A a \in DOMAIN named :
          /\ \A l \in Donated(Opening(world.target, a)) : l.name = named[a]
          /\ \/ world.target.functions[a] = named[a]
             \/ \A u \in _load_candidates(world.target) :
                   world.target.functions[u] = named[a] => Opening(world.target, u) # Opening(world.target, a)
    /\ ~check_identity(world.map, world.donor) /\ ~(world.mode = "resolve" /\ world.force) =>
          named = NoNames
    /\ world.mode = "resolve" => \A a \in DOMAIN named : Placed(world.donor, a)
    /\ step = "done" =>
          /\ \A a, c \in DOMAIN merged :
                merged[a].name = merged[c].name => a = c \/ EndsIn(a, c) \/ EndsIn(c, a)
          /\ \A a \in DOMAIN named : Idents[named[a]] # Nothing => merged[a].raw = named[a]
          /\ \A a \in DOMAIN world.other : Idents[world.other[a]] # Nothing =>
                a \in DOMAIN merged /\ (a \notin DOMAIN named => merged[a].raw = world.other[a])
          /\ world.files \subseteq DOMAIN merged
=============================================================================
