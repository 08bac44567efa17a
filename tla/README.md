# linuxrecomp: verification

TLA+ models, TLC runs and TLAPS proofs for linuxrecomp, a toolbox that
recompiles Windows and DOS programs statically. Two halves are modelled. The
first is the path the fork adds, PE32+ programs on Linux: recover functions,
lift them with Remill, link them into a harness, run that, and lift what the run
missed; its parts keep state over many steps. The second is the toolbox the fork
builds on: the three lifters that print C for 32- and 16-bit code, the
disassemblers that tell them where functions are, and the tools around them;
those are pure programs, whose hazard is that what they print does something
else than the code it stands for.

Paths below are relative to the repository.

## The system

| part | state | operations | hard behaviour |
|---|---|---|---|
| guest heap, `runtime/linux64/guest_heap.c` | a double list of blocks whose headers lie in guest memory; two counters | alloc, free, realloc (in place, grown, moved, refused) | long sequences of calls that bend the list; 64-bit rounding |
| lifted dispatch, `runtime/linux64/lifted_runtime.cpp` and the wrappers of `scripts/build-lifted-harness.sh` | the C stack of traces, each a `sigjmp_buf`; the stop state; saved stops of direct calls; the missing list | everything lifted code calls to leave a function: call, jump, return, import, missing block, fault | C frames discarded by `longjmp`; guest and host stacks that must agree; stops that cross many traces; limits |
| hybrid boundary, `runtime/hybrid` | each thread's crossings, its slot `fs:[14h]` and its arena of frames; a pool of thunks; the data's routed words | call real code, call back, return, throw, end a thread; mint a thunk, route the data | calls that nest both ways on many threads; exceptions that leave several at once; frames refused |
| lift root, `tools/linux64/lift.py` and the build script | one directory per image content and function: an IR file and a manifest; the harness | lift one, lift all, build | kills between two writes; lifts at once; an image replaced meanwhile |
| coverage loops, `tools/linux64/run.py`, `scripts/lift-until-complete.sh` | a round's report, what is lifted, what is linked | run, read the report, lift, build | runs that end without a report; rounds that gain nothing |
| function recovery, `tools/linux64/functions.py` | none (a merge) | merge unwind regions, fill gaps, name, validate | ranges of different sources that overlap |
| lifters, `tools/lift/lift32.py`, `lift32_cpu.py`, `lift16.py`, with the macros of `runtime/recomp32`, `runtime/recomp32_cpu/cpu.h`, `runtime/recomp16/cpu.h` | what the emitter remembers of the last flag writer; at run time registers, lazy or packed flags, an x87 window or ring | one emission per instruction form | widths, stale flags, register stacks out of step, branches that leave the text |
| lifter tests, `tools/lift/difftest.py` | none | run a case on the processor and as lifted, compare | programs nobody wrote a case for |
| 32-bit disassembler, `tools/disasm/disasm32.py`, `translator.py` | work list, function and block sets, aliases | scan, descend, split, clamp, close | entries inside instructions, extents cut short |
| 16-bit decoder, `tools/disasm/decode16.py` | none | decode one, sweep a segment | a sweep thrown out of phase |
| recovery of unlisted functions, `tools/lift/recover.py`, `generate.py` | work list, covered addresses | two passes, linear decoding | bodies entered past their start |
| import argument counts, `tools/pe/stdcall_argc.py` | caches | five strategies in order | a walk that ends up in another function |
| symbol names, `tools/pe/map_names.py`, `merge_names.py` | names given so far | match openings, merge sources | look-alikes, names given twice |
| image loader, imports, `image_pe64.c`, `imports*.c` | page protections, import table, IAT slots | map, bind, register, find | partial failure, protections put back |
| harness and host layer, `lifted_harness.cpp`, `host_guest*.c`, `wine_memory.c` | reserved memory, fault handlers | reserve, run, report | a fault inside lifted code or inside an import |
| 32-bit and 16-bit runtimes beyond the macros, `runtime/recomp32`, `runtime/recomp16` | trace ring, DOS handles and memory, keyboard ring, timer | indirect calls, interrupts, HAL calls | a ring at its limit, ticks that wrap |
| image reader, spec, reference execution, PE, NE, classification, asset and format tools | none beyond a file | parse, print, compare | malformed tables |

How they interact. On the 64-bit path `functions.py` says where functions are;
`lift.py` writes one directory for each; the build script links the manifests of
one image into a harness; the harness maps the image at its own base, binds
imports, and calls `lifted_run_dispatched`; lifted code calls back into
`lifted_runtime.cpp` for every transfer that leaves a function, and the
runtime's thunks call the guest heap; the harness prints a report; a coverage
loop reads it and lifts more. On a 32-bit program whose libraries stay real code, `hybrid.c` carries calls
over that boundary both ways. On the older path a disassembler writes a catalog
of functions with their extents; a lifter reads each extent and prints C, in
which a branch is a `goto` where the text has a label and a dispatch by address
elsewhere; `recover.py` adds functions the catalog lacks, `stdcall_argc.py` says
how far an imported call moves the stack, `map_names.py` and `merge_names.py`
name the functions; `difftest.py` compares lifted C with the processor.

What makes each part correct: the heap is a store of objects for the guest; the
lifted code runs what the guest has reached and stops where the guest is; a
call over the hybrid boundary returns to the stack it came from, and a call back
has a frame of its own; a manifest describes the IR beside it and a harness is of one image; a loop ends,
progresses, and says what is so; printed C leaves the registers, flags, stack
and memory the instructions leave, and goes where they go. `PROJECT.json` lists
every hazard found, at its line, with the properties that cover it or the reason
none does.

## Modules

### The 64-bit path

| module | models | state and actions |
|---|---|---|
| `GuestHeap` | the allocator and the guest that calls it, and at its end the allocator as an `ObjectStore` | `hdr` is the list of headers by address; `ptr`, `asked`, `mem` are what the guest holds, asked for and stored. One action per call and outcome. In the refinement mapping what an object holds are the cells from its address on |
| `ObjectStore` | what the allocator promises | `held` and `text`, objects and their contents; no addresses. Put, resize, drop |
| `Crossing` | the hybrid boundary's calls | `calls` is a thread's crossings, the innermost last; `tib` its slot, which holds the depth of a crossing for its host stack pointer; `arena` where its arena lies, `t_arena_top` and `t_arena_low`. One action per call, return and refusal, one for an exception, one for a thread's end |
| `Thunks` | the thunk pool and the routing of function pointers | `pool` the stubs written, `drawing` a thread between its two steps of `hybrid_thunk`, `words` the data |
| `RuntimeBench` | the heap with its counters `g_allocated` and `g_peak`, the crossings and the thunks as one specification | `bench` says which part a behaviour is of |
| `Dispatch` | the control-flow boundary | `host` is the C stack, one record per active `trace_once` and in it the lifted functions active by direct calls; `stack`, `gpc` are what a processor would have; `back` is the caller a `dispatch_from` is returning to |
| `LiftStore` | the lift root and the build | `disk` is every directory's IR and manifest, `job` the lifts under way, `harness` the last build; one action per write of a lift, kills between them |
| `CoverageLoop` | both drivers | `reaches` is the program; `lifted` and `last` the manifests and the ends of their ranges; `built` and `linked` what was lifted at the last build and what is in the harness that runs; `seen` a run's report; `phase`, `round`, `todo`, `got` a round's. A run is one step, which abstracts `Dispatch` to the addresses a run may miss and the ways it comes there |
| `*_proof` | theorems | extend the module they are about |
| `MC*` | instances | give names to values, inputs, symmetry |

### The lifters

A program runs twice, on a processor and as the C a lifter printed, and an
invariant compares the two after every instruction. The processor is what
`difftest.py` runs on its emulator: `X86`, the processor's side of each test and
the opcode map are a reference, written from the architecture, and no code of the
repository; `PROJECT.json` maps none of them.

| module | models | state |
|---|---|---|
| `X86` | the processor: one register, its halves, the flags | none, operators |
| `Lift32`, `Lift32Cpu`, `Lift16` | the C printed for arithmetic, with the macros and helpers it calls | none, operators on the lifted machine: lazy flags and their pairing, a flag field each, a packed word |
| `DiffTest` | `difftest.py`: a start, any program, a comparison | `cpu` and the three lifted machines |
| `X87Test` | the register stack: the processor's, the fixed window of `recomp_types.h`, the ring of `cpu.h` | the three stacks, memory, comparison flags |
| `StringTest` | `movs`, `stos`, `lods`, `cmps`, `scas`, repeated or not, both directions | memory, pointers, count, flags, twice |
| `FrameTest` | pushes, frames, calls and returns | a stack twice, with the calls open |
| `WideTest` | products, quotients, extensions at every size | eax, edx, twice |
| `LanesTest` | MMX in lift32, SSE in lift32_cpu | two packed registers, twice |
| `MoveTest` | partial registers and addresses: flat, rebased, segmented | registers and memory, twice |
| `LifterBench` | the tests as one specification | `bench` says which kind a program is |

### The tools

| module | models | state and actions |
|---|---|---|
| `Disasm32` | the catalog of a 32-bit image: raw scans, descent, data words, dropping of entries inside instructions, clamping, closing of extents | `functions`, `owner`, `queue`, `aliases`, by stage; one action per entry taken or pass made |
| `LiftFlow` | the C the three lifters make of the catalog | `flow` the chosen lifter; `guest` and `lifted` the program beside its C, `paired` the flag writer a branch was compiled from |
| `Decode16`, `OpcodeMap16` | the 16-bit decoder; the opcode map as the manual writes it | none, operators; `ToolBench` sweeps a segment with them |
| `Recover` | `recover.py` and `generate.py`, then the program beside the C | `work`, `queued`, `forced`, `recovered`; `guest`, `lifted` |
| `ArgCount` | the strategies of `stdcall_argc.py` on one import | `import`, `answer` |
| `Ranges64` | `functions.py`: four sources, then the validator | `merged`, `functions`, `notes`, `report`; a loop takes the least of what is `left` of its list, one action each time round |
| `Flow16` | how `lift16.py` carries control: jumps, loops, calls, returns, overlays | `guest` and `lifted`, each a segment, an offset, a stack |
| `SymbolNames` | `map_names.py` in both modes, then `merge_names.py` | `named`, `merged`; one action per pass, and in merge one per address of a source, from `todo` |
| `ToolBench` | the tools as one specification; the decoder's sweep of one segment | `bench` says which tool a behaviour is of; the bytes, the sweep's listing |

Definitions named `..._bug` are slips of the code. Nothing uses them: each is
the mutated form of a definition with which a property fails.

### Abstractions, per module

`GuestHeap` counts in cells: header, alignment and minimal split are 4, 2 and 8
cells in the runs and any positive numbers in the proofs. A header that is
swallowed leaves `hdr`: its cells are then free payload. The guest frees and
reallocates only addresses it holds; `block_of` rejects nothing else reliably,
so a double free is outside what the code promises.

`Dispatch` lets the guest be any program over a few functions: at its entry or
its one return point a function may return, call, jump or fault. Memory, flags,
the shadow stack and trace output are left out. An import is one step; the
thunks' effects on the heap are `GuestHeap`'s. A guest does not change the
return address on its stack, except by what missing code would have done.

`Crossing` leaves out the registers and arguments, the x87 stack and what code
does between crossings. A host stack pointer is the depth of its crossing. A
thread that pops its registers from another crossing's stack is `lost` and does
nothing more. `FlsAlloc` succeeds, and no thread crosses while it ends. In
`Thunks` the routing comes first and is one step; it draws on the pool alone.

`LiftStore` lets a content stand for its hash, and a function's bytes for the
content, the function and the extent: its range, or all the bytes that
`--extend-to-next` takes, which can run over the function behind it (lift.py
extends twice) and is one value here. Only `lift --function` extends: the
command `lift --all` does not pass the option on. A Remill that fails
writes nothing. Two lifts of one function of one image at once do not occur:
both drivers go through a list without duplicates. A build runs when the
driver's lifts are over.

`CoverageLoop` gives a run's outcome as `Dispatch` allows it. Code that is linked
leads to other addresses by a call (or a jump through a register), a jump out of
the range, or a return; each address says in which of the ways it can be come to.
A stopping run ends at one that is missing; a collecting one goes on past calls
and is stopped by the rest; either may be cut, by a crash or by its time. A
lift's manifest covers from its address to any later one within `Longest`, and
`run.py` passes over a return into what the manifests cover at that moment.
A build may fail whatever is lifted; for the winelib flavour, which is the
default of `run.py`, it may also succeed and leave the harness of an earlier
build, or none. An output that several lines of a run make is not modelled, nor
the words of a report.

The lifter tests scale words down: a register has `W` = 4 bits and its halves
2, so every carry, sign and overflow occurs; a lane has 2 bits, an x87 number is
a residue mod 5 (enough to tell operands apart), `fincstp` comes with the
`ffree st(7)` with which it is a pop (alone it is under Findings), a string element is a half or
a word of two, memory has at most 16 places. A flag the architecture leaves
undefined is `Undef` on the processor and compares with anything; so does a
carry a lifter documents as stale, until an instruction sets it again. A case
the code is known to get wrong is left out of the programs, and listed under
Findings: what a run then shows is that nothing else is.

The tools read code as a map from addresses to decoded instructions, of kinds
that the tool tells apart (a plain one, call, jmp, jcc, ret, indirect jump, jump
table, compare, pushed or stored address, int3, hlt, bad), with a size and a
target. `Decode16` alone reads bytes. Regular expressions, files and caches are
modelled by what they give. `SymbolNames` lets one value stand for a function's
opening bytes and gives `sanitize` as a table of identifiers, a word and the
addresses it ends in, such as merge appends and RTTI's names have; `Flow16` counts paragraphs and
segments in 4 and 8 addresses, so that both wrap.

## Runs

Sizes are distinct states; each run ends well within its five minutes. The type
invariants of `Dispatch`, `LiftStore` and `CoverageLoop` are proved and not run.

| run | checks | shows |
|---|---|---|
| `heap` | TypeOK, ChainTilesHeap, UsedIsHeld, SaneRequestsHonoured, StoresObjects | three objects, all calls in every order (about 90 000); the allocator is an `ObjectStore` |
| `runtime` | HeapCounts, FreeMerges, CallBacksHold, CallsNest, ThunksLead | without reallocation the heap's counter is exact and free blocks are merged; frames and slots of two threads that cross; thunks that two threads mint (about 349 000) |
| `hybrid_unwound` | ReturnsHome, violated | see Findings |
| `dispatch` | DepthCounts, RunsInATrace, MissingOnlyUnlifted, StopsEndTheRun | any guest, limits exceeded (about 317 000) |
| `dispatch_orderly` | InStep, NoStaleReturn, UnwindsToItself | guests whose directly called functions end by returning (about 90 000) |
| `dispatch_tail_jump` | UnwindsToItself, violated | see Findings |
| `store` | TrustedWhereNotKilled, NoMixedBuild | two images, two lifts at once, kills, one replacement (about 1 860 000) |
| `store_relift_killed` | TrustedManifest, violated | see Findings |
| `coverage` | AnswerHolds, EachRoundAdds, Ends | every program of four addresses, both drivers and flavours, a harness of an earlier day or none (about 753 000) |
| `coverage_complete` | CompleteMeansCovered, violated | see Findings |
| `lifters` | RegistersAgree, FlagsAgree, ConditionsAgree, FpuAgrees, StringsAgree, StackAgrees, WideAgrees, LanesAgree, MovesAgree | every short program of each kind, for each lifter that prints it (about 398 000) |
| `tools` | PathsAgree, PairedWithLast, DecodeReads, BodiesAgree, ArgcAgrees, RangesHold, Transfers16, NamesTrue | each tool over a family of small inputs (about 885 000) |

### Bounds, and why they are enough

* `heap`: a heap of 48 cells holds three objects and a free rest, so
  there are blocks with a free and with a used neighbour on each side, a rest
  too small to split, and a move while the rest of the heap is full. The
  requests include 0, an odd length, and the largest `uint64_t`, which wraps in
  `align_up`. The heap of `runtime` has 62 cells, room for one more.
* `runtime`, `Crossing`: an arena of 5 holds two frames of 2 and a rest;
  `MaxNesting` = 6 lets a thread that starts in lifted code ask for a third.
  Reserving and committing fail whenever they are tried. Two threads, two places
  for arenas: one that is leaked is missed.
* `runtime`, `Thunks`: a section of four words, alone or with a second of three,
  each ended by a word that is no function, of words that are either of two
  functions or neither; a least run of 2 and of the default 3; windows that hold
  all, some or none of it, one beginning below zero; a pool of three stubs and a
  rest, drawn on until `Drawn` is
  reached, past its end; two threads. Four of up to seven slots are remembered.
  Neither module can stop but where a bound or a lost thread stops it, so
  deadlock is not checked here.
* `dispatch`: `MaxStack` bounds the guest's stack and `MaxBody` the functions
  active at once in one trace; a guest that would exceed them takes no such
  step. `kMaxDispatchDepth`, `kMaxDirectDepth` and `kMaxMissing` are the code's
  own limits made small, 3, 1 and 1, so that each is reached and exceeded. In
  `dispatch_orderly` direct nesting cannot exceed its limit (`SavesAll`), because
  beyond it the code by design restores nothing: `lifted_trace_enter` does not
  count what it could not save. Nor is a return point lifted as a block of its own
  (`ReturnsUnlifted`): after an import reached by a jump, or a transfer that is
  skipped, a nested dispatch at a lifted return point runs the rest of the caller,
  which the call's return then runs again (see Findings).
* `store`: `MaxReplaced` is 1: a second replacement brings back an old content
  or repeats the first. One function is enough because directories of two
  functions share nothing; two images and two workers give every interference
  of two. Images, contents and workers are symmetric: no definition tells them
  apart by name.
* `coverage`: four addresses are an entry, two functions that are called, and
  between them one that is jumped or returned to, which `Longest` = 1 puts within
  the range of the function before it or not; some of the first two are lifted
  beforehand (`Given`), and linked or not. Three rounds and a list of one address
  make both limits bite. `Rounds` and `kMaxMissing` are the code's. `coverage_complete`
  has the same addresses and the script alone.
* `lifters`: programs of `MaxLength` = 3 integer instructions are a writer, one
  that disturbs what it left, and a reader; five stack operations are a call
  inside a frame and both ends; six x87 instructions fill a stack of three slots
  and empty it. `Starts`, `Counts`, `Values` and the like hold a zero, a value
  of each sign, and shift counts of none, one, past a half and past the mask.
* `tools`, `Disasm32` and `LiftFlow`: images of eight addresses, each with the
  few instructions that make the interesting shapes: two functions that share a
  tail, a branch over the end of an extent, a table of arms with a hole, a data
  word that looks like code. Left out: an instruction decoded over another one,
  and a program with a jump table that also calls.
* `tools`, `Decode16`: every opcode and second byte, with one ModRM byte of each
  form (32 of them), five prefix runs and three tails, two of which end the
  segment inside an instruction.
* `tools`, `Recover`: programs of eight addresses and four listed catalogs, from
  half a function to all. Left out: an `int3` that is executed, or that only a
  conditional jump steps over; a conditional jump outside the catalog that goes
  back before itself to code the catalog lacks; a code pointer into a listed body.
* `tools`, `ArgCount`: a `Window` of 3 cuts instructions; callees pop one count
  on every path.
* `tools`, `Ranges64`: seven addresses, the last two outside the code, all sets of
  three exports and of seven external bounds (one each side of the image's ends,
  an empty one beside one of the same start, two that can run into a region),
  five tables of regions with chains and an empty region. Bounds are a set: the
  same empty bound twice is left out. So is a chained region that begins where
  another function ends (`ImagesAssumption`).
* `tools`, `Flow16`: three layouts, with and without a bias, with a far base of
  its own, with a secondary entry and with two segments, and a gap between
  functions but none within one, because a tail jump is printed only behind the
  last instruction listed (`WellLaid`); `CxTop` = 2 lets a loop
  count start at zero and wrap; stacks of at most `MaxWords` = 3.
* `tools`, `SymbolNames`: three or four functions a side, two openings, maps with
  another base or entry point, two names with one identifier, names that end in
  an address as a suffixed identifier or a `sub_ADDR` does.

### Fairness

`StopsEndTheRun` assumes that the runtime's own steps, those after a
`dispatch_from` has returned, are taken (`WF_vars(InMode(Unwinding))`): they are
plain C statements that wait for nothing. Nothing is assumed of the guest, which
may loop. `Ends` assumes the driver keeps going (`WF_vars(Next)`): a run ends
because of its time limit, a lift in the script because of its own; for
`run.py` it assumes that a lift, and in both that a build, comes to an end.

## Findings

Where the code and what is said of it differ, as TLC's counterexamples show:

1. `hybrid_unwound`: a call from lifted to real code leaves its host stack
   pointer in `fs:[14h]`, and only its return puts the earlier occupant back. An
   exception that leaves the call, which `r2l_helper` provides for on its side,
   leaves the slot as it is; an enclosing call whose real code catches it then
   returns to a stack that is gone. hybrid.c:33-34 says a nested crossing nests.
2. `dispatch_tail_jump`: when a directly called function jumps to another one,
   `propagate` ends the innermost trace, over the caller that waits in it.
3. `store_relift_killed`: a lift killed after Remill wrote the IR and before the
   manifest was written leaves the old manifest beside new IR.
4. `coverage_complete`: the script says "coverage complete" after a run that
   never started (no harness), that was cut, or that stopped at a block.

Seen while modelling, without a run of their own. The inputs that lead to those
of the lifters and the tools are left out of the passing runs.

The 64-bit path:

* With `--skip-missing` a skipped jump whose return address is not lifted ends
  the run with `kError` at no address (lifted_runtime.cpp:1200), although 93-94
  says the run carries on.
* A tail jump keeps its trace until it returns, so a chain of them reaches
  `kMaxDispatchDepth` although lifted_runtime.cpp:15-16 says control flow is
  flat; `g_program_mode` (lifted_runtime.h:87) is set and never read.
* A tail jump to one of the runtime's own thunks reports a return to whatever
  `g_stop_pc` held; an import reached by a jump may have its continuation run
  both by a nested dispatch and by the call's return.
* A missing block between two lifted entries is no entry of the missing list.
* `guest_heap_realloc` splits a block that shrinks and does not merge the rest
  with a free neighbour, and `guest_heap_free` merges one block on each side
  only, so two free blocks can lie side by side after a free, although
  guest_heap.c:8-9 says freeing coalesces with neighbours.
* A request within 15 of 2^64 is rounded to 0 and granted as an empty block.
* A manifest cut off while written stops the build of every image.
* `lift --all --extend-to-next` extends nothing: `main` does not pass the option
  on (lift.py:506). A caller of `lift_all` that does has everything lifted again
  each time, because it compares with the unextended range. `lift_reachable`
  names `args`, a local of `main`, and raises NameError. With `--extend-to-next`
  a range can be extended twice, over the function behind it (lift.py:170-174,
  193-197).
* `run.py` takes a run that exceeded its time and had printed nothing for one that
  reached nothing unlifted, and exits with 0, although run.py:16-18 names two
  reasons to end and this is neither: with `Drivers` = {"run"} TLC violates
  `CompleteMeansCovered` too. A harness without the entry has the same effect, as
  its message (lifted_harness.cpp:515) is no stop line. When such a run had
  printed something, `run_once` joins text and bytes, which raises.
* When the winelib link fails, or there is no `winegcc`, the build succeeds
  (build-lifted-harness.sh:195-219) and `run.py` runs the winelib harness of an
  earlier build, which stops where it stopped before: the same address is lifted
  again, round after round, to the end of the budget. Without its hypothesis
  `linked = built` TLC violates `EachRoundAdds`.
* functions.py:163 adds an external range that begins in a gap even when it runs
  into a linker-written one, though its docstring says no ranges overlap; a
  chained cold region that happens to begin where another function ends is
  merged into that one; `covered_bytes` counts overlaps twice.

The hybrid boundary:

* Once the thunk pool has run out, `g_pool_off` goes on growing, and
  `hybrid_thunk_target` takes the addresses behind the pool for thunks.
* `hybrid_slot_target` reads past `g_slot_ova` for a slot beyond
  `HYBRID_MAX_SLOTS`, because `g_nslots` counts all of them.
* A call back that is refused answers 0 with no argument bytes cleaned, so a
  caller of a stdcall function finds its stack pointer below where it expects it.
* `hybrid_fpu_clear` frees as many registers as are live from `st(0)` on, which
  leaves some when the live ones are not next to each other.

The 32-bit lifters:

* Flags in `lift32`: narrow `adc`/`sbb` set them at 32 bits; narrow `sar` is
  logical; `add`, `bt` and string compares do not publish `_cf` (against the
  comment at about 1072); conditions after `inc`/`dec` or logic derive a carry
  that is not there (partly admitted at 544-548); `bt` then `jae` is inverted;
  the overflow of one-bit shifts and rotates is not computed; a whole turn of a
  narrow rotate leaves the carry; flags are C locals, so a tail jump loses them.
* Integer forms: `shld`/`shrd` of a full width are skipped; one-operand 8- and
  16-bit `mul`/`div` are wrong in `lift32`, a division by zero yields 0 there
  and is undefined in `lift32_cpu`; `cwd` clears the upper half of edx; `lds` reads its address
  again after writing the register; `xadd`, `cmpxchg`, `pushad`, `popad`, `rcl`,
  `rcr`, `clc`, `stc`, `cmc` abort in one or the other lifter.
* x87 in `lift32`: `fincstp` alone discards st(0) and `fdecstp` pushes 0.0, where
  the processor only turns the top (lift32.py:1454-1461 admits it for the pair with
  `ffree st(7)`); `fcomip` and `fucomip` compare with st(1) whatever their operand
  is, and replace what `fnstsw` reads (1465-1473); `fsincos` leaves sine on top; second branches of `fpatan`,
  `f2xm1`, `fscale` are dead; `fucompp`, `fist`, `fcomi`, `fst st(i)` are not
  translated; `fOPp st(0)` computes into the register below; `fistp` truncates;
  `fninit` does not reset. In `lift32_cpu` `ftst`, `fldpi` and others abort,
  `fldcw` is ignored, one-operand `faddp st(i)` is taken for another form.
* Strings: repeated forward `movs` over its own source uses `memmove`; repeated
  `lods` runs once; a repeated compare of no elements sets flags; `lift32_cpu`
  ignores the direction flag.
* `lift32_cpu` strips `lock ` (about 339), so its locked read-modify-write block
  (362-380) is never reached and the operations are not atomic, against its
  comment; 16-bit pushes and pops move 32 bits; `fs` is ignored in some forms.
* `RECOMP_ICALL`'s unresolved branch drops a word from the stack
  (recomp_types.h:784) that only the resolved one pushed.

The 16-bit lifter:

* `sar` and `rcl`/`rcr` lose carries at the edges; 32-bit `xchg` goes through 16
  bits; segment overrides are ignored by `lodsd`, `cmpsd`, `xlat`; nesting
  `enter`, `cmovcc` and repeated `insd` are not translated; a relocation changes
  the operand in place (247-250).
* The `case` values of a jump table lack the load bias (lift16.py:658-670), so in
  an image with one the switch takes the wrong arm, or none and dispatches. A tail
  jump is printed only behind the last instruction listed: over a gap inside a
  listing the C runs on to the next listed one.
* Near jumps do not wrap in their segment; a direct far jump ignores the bias; a
  guessed far target can hit a wrong function; a `retf` to offset 0 counts as a
  return; arms of a jump table that go back emit no `RECOMP_TICK`, against the
  comment at `_tick_back_edge`; `dispatch_near` and `dispatch_far` are only
  declared.

The disassemblers and the tools:

* A gap inside an extent throws the linear lifters out of phase, so the comment
  at about 928 of disasm32.py is false for a target inside an instruction;
  `find_branch_targets` misses a branch in the last five bytes;
  `drop_mid_instruction_entries` removes entries the program really uses;
  arms cut off by a clamp are not closed; `translator.discover_functions` passes
  no seeds.
* decode16.py ignores 0x67, keeps the 16-bit form of several 0x66 instructions,
  masks segment register numbers to two bits, and goes on inside a truncated
  instruction although 163-170 says the caller stops.
* recover.py: `find_entries` uses `struct` without importing it; the trim loop
  at about 475 stops at the first `int3`, which defeats the resume at the next
  leader that 155-157 promises; a recovered body ends with `return;` where
  126-131 speak of a tail call. generate.py's `COND_JUMPS` lacks the loops.
* stdcall_argc.py: some C++ runtime DLLs of `_CRT_FAMILY` export stdcall;
  imported data known only by ordinal is read as code; a template argument like
  `@@PBD` reads as a convention; keys of `_ord_cache` can collide; a call that
  does not return lets the walk reach the next function.
* merge_names.py:126 makes an identifier of a taken one and the address, and line
  138 one of the address alone, and neither is looked up among those given
  already. A source that gives one function the name `sub_ADDR` of another, which
  only has a file, gives two functions one identifier, although lines 30-34 and
  105-106 say that each is unique: without its two cases of `EndsIn` TLC violates
  `NamesTrue`.
* map_names.py ports a look-alike when the target lacks the
  function, and a name twice when the donor has two functions of that name.

## Proofs

TLAPS checks these for every value of the constants that satisfies the modules'
assumptions.

* `GuestHeap_proof`: `TypeOK`, `ChainTilesHeap`, `UsedIsHeld`,
  `SaneRequestsHonoured`. The invariant `HeapInv` is the tiling, the ownership and the length of what is
  held, together with the types: ownership is needed for a free to hit a block
  of the list, and the tiling for the block that a split or a merge changes to
  be the right one. Lemmas state what `split`, `coalesce`, taking and freeing do
  to any well-formed list; each call is a composition of them.
  The same module proves `StoresObjects`, that the allocator implements
  `ObjectStore`. From `HeapInv`: what an object uses lies in its block, two
  blocks of a tiling share no cell, and a rewritten list writes only headers of
  blocks that come or go. So a call for one object changes no cell of another,
  and each call is one step of the store, a refused one none.
* `Dispatch_proof`: `TypeOK`, `DepthCounts`, `RunsInATrace`,
  `MissingOnlyUnlifted`, for every guest, with and without skipping. `IInv`
  adds to them what a trace's body may be and when `back` needs a trace below.
  The same module proves `InStep`, `NoStaleReturn` and `UnwindsToItself` for orderly
  guests, of any number of functions, with the hypotheses `ReturnsUnlifted` and
  `SavesAll` of the runs' bounds. `InOrder` ties three stacks together: each
  trace has a beginning, the place on the guest's stack of the address its first
  function returns to, that address, and how many stop states were saved then; a
  beginning follows from the trace below, and the guest's stack holds the return
  address of every function that waits. `saved` is then as long as the functions
  active by direct calls are many, and a return finds its own trace on top.
* `Crossing_proof`: `FramesHeld` and `SlotNests` of `Crossing`, hence
  `CallBacksHold` and `CallsNest` of `RuntimeBench`, for any number of threads,
  any frame and arena sizes and any nesting. `IInv` adds what is committed
  (the arena from `t_arena_low` up, in which every frame lies), that an arena lies in a region, and
  that among consecutive crossings of a kind there is a first and a last one,
  which would otherwise take an induction. An exception that leaves several
  crossings and a return that leaves one are the same lemma, `FramedUnwound`:
  the handlers leave what was the top before the outermost one ran.
* `LiftStore_proof`: `TypeOK`, `NoMixedBuild` and `TrustedManifest` for lifts
  that are never killed, and `TrustedWhereNotKilled` for those that are. `IInv`
  says which files a lift at each step has already written, that two lifts under
  way are in different directories, and that every other directory is settled.
* `CoverageLoop_proof`: `AnswerHolds`, `EachRoundAdds` and `TypeOK` for any
  program, budget, flavour and outcome of runs, lifts and builds. `IInv` says
  that the report is of the harness that ran last, whose frontier no lift
  changes; that a harness which is the last build holds all that was lifted when it
  ran, so that its targets are new; and that a run that was cut is the last one.
  `AnswerHolds` says what a report can lack, not that it lacks nothing:
  `CompleteMeansCovered` is violated. `EachRoundAdds` has the hypothesis that the
  harness is the one that was built, without which it is violated (see Findings).
* `Runtime_proof`: of `RuntimeBench`, where nothing is reallocated, `FreeMerges`
  and `HeapCounts` for any heap and requests. A block that is split was free, so
  what follows its rest is in use; `coalesce` meets no free block beyond the one
  it merges; and taking or freeing adds or removes exactly the cells of one block
  of a tiling, so that the counter is the cardinality of the cells in use.
  `ThunksLead`, for any data, windows, threads and pool: `ThunksInv` says that a
  stub drawn and not yet written is one thread's, and that what is handed out is
  written and stays so. The n-th slot is the n-th word of a table in the order of
  the scan, and holds the stub behind those drawn for the slots before it.
  Induction over the scan is a minimal counterexample: a least slot that is not
  where it should be has one before it that is.
* `ToolBench_proof`: of `ToolBench`, `Transfers16`, that the C of `lift16.py` goes where the program
  goes, for any layout of functions listed without a gap, bias, segments and stack, as long as the
  program keeps to what compiled code does (`Sound`) and avoids the listed
  differences (`Known16`: near calls that wrap, far targets guessed wrongly, tail
  jumps that ignore the bias and, with a bias, the arms of a jump table). `FlowInv` ties the two stacks word by word: a return
  address of the guest has a sentinel opposite it, a far one its segment too, and
  the n-th return address on the guest's stack is where the n-th C function that
  waits goes on. `Flow16Assumption` says what a project that lifts sees to: a C
  function begins where it is called, and segments lie at `far_base` or, without
  one, where one of the lifter's two guesses puts them.
  The same module proves `RangesHold`, for any images. `RangesInv` says of each pass
  what it has found and what it cannot lose: while regions are merged, every merged
  one lies behind those before it and before those left, begins where a region
  does, and holds every region taken, whose function begins with it; then that
  only an analyser's range holds the start of another, and that this other is the
  linker's or begins at the same place as an empty one, because bounds come in the order of
  their starts and one that starts inside a range is dropped; at last that the
  report has an overlap exactly when two of the ranges seen share bytes, and
  otherwise the cardinality of their bytes. The validator compares a range with
  the one before it only: `NextShares` shows that this is enough, since a range
  that holds the start of a later one holds that of the next. `ImagesAssumption`
  says that unwind regions are disjoint, that a continuation begins where its
  function's previous region ends, as lines 92-97 state of the linker, and that
  no bound ends before its start, which lines 55-56 see to.
  And it proves `NamesTrue`, for any donors, targets, MAPs, libraries and tables.
  `NamesInv` says of the symbols which lines they are of, of a signature that
  every donor of its bytes has its name, and of the merged table that it holds
  the best source's name for every address the loops have passed, that each
  identifier is its name's or that with its own address
  (`Shaped`, until the nameless functions come last), and that two addresses share one only where the name of the one ends
  in the address of the other (`Unique`): two suffixed identifiers end in their own
  addresses, so of two that are equal at most one was suffixed. `NamesAssumption`
  gives types and nothing else. That no identifier is shared at all
  is not so (see Findings).
* `Lifters_proof`: of `LifterBench`, `StackAgrees` for a stack of any size and any
  number of calls, and `FpuAgrees` for any number of registers and instructions, over the
  forms that the lifter in question translates (`Dropped` lists the others).
  `FrameInv` says that the lifted machine is the processor's and that `esp` lies
  within the stack; with the room and the words an instruction asks for, a push
  of halves in any order writes the same words. For the x87, `Stacked` reads both
  lifted stacks as one: st(i) is slot i of the window, or slot `Slots - depth + i`
  of the ring, whose top a push or pop moves by one and never past 0, because a
  program that fits never overflows. Reading, writing, pushing and popping each
  keep `Stacked`, an instruction is a composition of them, and `lift32`, which pops
  before it stores, writes the register below (`PopsBehind`). `BenchAssumption`
  says only that a stack has a bottom and the x87 a register.

Assumptions: the `ASSUME`s of the modules, each evaluated by TLC on every run
of the module, and nothing else. `SaneRequestsHonoured` needs a heap whose end
is not within a header and a minimal split of 2^64.

Only model-checked, and why:

* `StopsEndTheRun`, `Ends`: liveness, which is beyond the prover.
* `RegistersAgree`, `FlagsAgree`, `ConditionsAgree`, `WideAgrees`, `LanesAgree`,
  `MovesAgree`: the lifters compute bitwise on words of a width the models scale
  down; the agreement is of bits and of `2^W`, for which the provers have no
  theory.
* `StringsAgree`, `DecodeReads`, `ArgcAgrees`: what a repeated instruction, a sweep
  of a segment or a walk over windows computes from any input, an induction over
  data.
* `PathsAgree`, `PairedWithLast`, `BodiesAgree`: that what a work list closes over
  is what a program reaches. The closures and the linear decodes are recursive
  functions, and the hypotheses about the program are ones the instances satisfy
  by construction.

## Not modelled

`PROJECT.json` gives the reason for each part. In short: the parsers, printers
and extractors are one pass over a file; the set-up scripts call other programs.
Of the lifters: names, comments, layout and statistics of the text, port I/O,
and the forms listed above as not translated. Of the 32-bit runtime only the
macros the printed C calls, of the 16-bit one only `cpu.h`. Of the hybrid boundary the
registers that cross and the x87 helpers. Memory accesses,
flags and the thunks' effects other than the heap's are outside `Dispatch`.

## Plan

Done: `GuestHeap` and `ObjectStore`, `Dispatch`, `LiftStore`, `CoverageLoop`,
`Crossing` and `Thunks`, because what the heap, the dispatcher and the boundary
get wrong is silent and what the other
two get wrong is believed; then the lifters and the tools around them, as one
run each.

Next:

1. `ImageLoad`: mapping and binding with page protections, `imports_register`
   during a run; `guest_ptr` over small words.
2. `Dos16`: keyboard ring, memory and handle tables, timer ticks.
3. `difftest16.py` and the NE stubs as programs of `LifterBench`.
4. A program that just runs, as an abstract specification that `Dispatch`
   implements for orderly guests.

Theorems to come: that the guest of `Dispatch` with its lifted code refines a
program that just runs; of the tools, that the extents `Disasm32` ends with do
not overlap.
