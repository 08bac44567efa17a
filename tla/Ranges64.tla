------------------------------ MODULE Ranges64 ------------------------------
(* tools/linux64/functions.py: the function ranges of a PE32+ image, from    *)
(* the linker's unwind regions, an external analyser's bounds, the exports   *)
(* and the entry point, and the validator that looks at the result.  A loop  *)
(* over something sorted takes the least of what is left of it at each step. *)
(*                                                                           *)
(* An image is [regions, code, exports, entry, bounds]: regions are records  *)
(* [begin, end, chained, of], of being where the region's function really    *)
(* begins; code, exports and bounds are sets of addresses and pairs.         *)
EXTENDS Integers, Sequences, FiniteSets

CONSTANTS Images

Region == [begin : Nat, end : Nat, chained : BOOLEAN, of : Nat]
\* The linker's regions are disjoint, and one that continues a function begins
\* where the region before it in that function ends (functions.py:92-97); a
\* bound that ends before it starts is not read (functions.py:55-56).
ImagesAssumption ==
    \A img \in Images :
        /\ img.regions \subseteq Region
        /\ \A r \in img.regions : r.begin <= r.end
        /\ \A r, s \in img.regions : r # s => r.begin # s.begin /\ (r.end <= s.begin \/ s.end <= r.begin)
        /\ \A r \in img.regions :
              IF r.chained THEN \E p \in img.regions : p.begin < p.end /\ p.end = r.begin /\ p.of = r.of
                           ELSE r.of = r.begin
        /\ img.bounds \subseteq Int \X Int
        /\ \A b \in img.bounds : b[1] <= b[2]
        /\ img.exports \subseteq Nat
        /\ img.entry \in Nat

VARIABLES image, functions, notes, phase,
          left,         \* what the loop has not come to
          merged,       \* the regions merged so far, as pairs
          report        \* of the validator and summarize: [problems, covered_bytes, previous]
rvars == <<image, functions, notes, phase, left, merged, report>>

\* The end of a function whose extent is unknown.
NoEnd == -1
Function(start, end, source) == [start |-> start, end |-> end, source |-> source]
Holds(f, rva) == f.end # NoEnd /\ f.start <= rva /\ rva < f.end
covered_by(fs, rva) == \E f \in fs : Holds(f, rva)
at_start(fs, rva) == \E f \in fs : f.start = rva

\* A continuation of the region before it extends that region.
Continues(r) == merged # <<>> /\ r.chained /\ merged[Len(merged)][2] = r.begin
merge_unwind_regions ==
    /\ phase = "pdata"
    /\ \E r \in left :
          /\ \A s \in left : r.begin <= s.begin
          /\ left' = left \ {r}
          /\ merged' = IF Continues(r)
                       THEN [merged EXCEPT ![Len(merged)] = <<merged[Len(merged)][1], r.end>>]
                       ELSE Append(merged, <<r.begin, r.end>>)
    /\ UNCHANGED <<image, functions, notes, phase, report>>

\* Bounds before the image's base are dropped.
Pdata ==
    /\ phase = "pdata" /\ left = {}
    /\ functions' = {Function(merged[k][1], merged[k][2], "pdata") :
                        k \in {j \in DOMAIN merged : merged[j][2] > merged[j][1]}}
    /\ left' = {b \in image.bounds : b[1] >= 0}
    /\ notes' = {n \in {"bounds_outside_image"} : left' # image.bounds}
    /\ phase' = "bounds"
    /\ UNCHANGED <<image, merged, report>>

\* Mutant: a bound is only held against the linker's ranges.
Splits_bug(fs, b) == covered_by({f \in fs : f.source = "pdata"}, b[1])
\* A bound that starts inside a range splits it.
Splits(fs, b) == covered_by(fs, b[1])
Earlier(b, c) == b[1] < c[1] \/ (b[1] = c[1] /\ b[2] <= c[2])
Bounds ==
    /\ phase = "bounds"
    /\ \E b \in left :
          /\ \A c \in left : Earlier(b, c)
          /\ left' = left \ {b}
          /\ functions' = functions \cup {f \in {Function(b[1], b[2], "ghidra")} : ~Splits(functions, b)}
          /\ notes' = notes \cup {n \in {"split_starts"} : Splits(functions, b)}
    /\ UNCHANGED <<image, phase, merged, report>>

\* Exports that are code; data exports and forwarders are no functions.
Exports ==
    LET fresh == {e \in image.exports : e \in image.code /\ ~at_start(functions, e)}
        split == {e \in fresh : covered_by(functions, e)}
    IN /\ phase = "bounds" /\ left = {}
       /\ functions' = functions \cup {Function(e, NoEnd, "export") : e \in fresh \ split}
       /\ notes' = notes \cup {n \in {"split_starts"} : split # {}}
       /\ phase' = "entry"
       /\ UNCHANGED <<image, left, merged, report>>
Entry ==
    /\ phase = "entry"
    /\ functions' = functions \cup {Function(e, NoEnd, "entrypoint") :
                        e \in {x \in {image.entry} \ {0} : ~at_start(functions, x) /\ ~covered_by(functions, x)}}
    /\ left' = functions'
    /\ phase' = "report"
    /\ UNCHANGED <<image, notes, merged, report>>

\* What the validator says of a function and the one before it in the order of
\* the starts.
ProblemsOf(f, previous) ==
    {p \in {"empty"} : f.end # NoEnd /\ f.end <= f.start} \cup {p \in {"not code"} : f.start \notin image.code}
    \cup {p \in {"duplicate"} : \E g \in previous : g.start = f.start}
    \cup {p \in {"overlap"} : \E g \in previous : /\ g.start # f.start
                                                  /\ g.end # NoEnd /\ f.end # NoEnd /\ f.start < g.end}
Validate ==
    /\ phase = "report"
    /\ \E f \in left :
          /\ \A g \in left : Earlier(<<f.start, f.end>>, <<g.start, g.end>>)
          /\ left' = left \ {f}
          /\ report' = [problems |-> report.problems \cup ProblemsOf(f, report.previous),
                        covered_bytes |-> report.covered_bytes + (IF f.end = NoEnd THEN 0 ELSE f.end - f.start),
                        previous |-> {f}]
    /\ UNCHANGED <<image, functions, notes, phase, merged>>

RangesInit == /\ image \in Images /\ functions = {} /\ notes = {} /\ phase = "pdata"
              /\ left = image.regions /\ merged = <<>>
              /\ report = [problems |-> {}, covered_bytes |-> 0, previous |-> {}]
RangesNext == merge_unwind_regions \/ Pdata \/ Bounds \/ Exports \/ Entry \/ Validate
RangesSpec == RangesInit /\ [][RangesNext]_rvars

----------------------------------------------------------------------------
\* No unwind continuation is a function of its own, every exported function and
\* the entry point are found, two ranges share bytes only where an analyser's
\* range runs into the linker's next one, and the validator reports exactly
\* those: what it passes counts every byte once (functions.py:99-101, 126-128,
\* 200-207).
Shared(f, g) == f # g /\ Holds(f, g.start) /\ Holds(g, g.start)
Bytes(fs) == UNION {f.start .. f.end - 1 : f \in fs}
RangesHold ==
    phase = "report" /\ left = {} =>
        /\ \A r \in image.regions : r.begin < r.end => \E f \in functions : f.start = r.of /\ Holds(f, r.end - 1)
        /\ \A e \in (image.exports \cap image.code) \cup ({image.entry} \ {0}) :
               at_start(functions, e) \/ covered_by(functions, e)
        /\ \A f, g \in functions : Shared(f, g) => f.source = "ghidra" /\ g.source = "pdata"
        /\ (\E f, g \in functions : Shared(f, g)) <=> "overlap" \in report.problems
        /\ "overlap" \notin report.problems => report.covered_bytes = Cardinality(Bytes(functions))
=============================================================================
