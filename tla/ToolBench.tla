----------------------------- MODULE ToolBench -----------------------------
(* The tools around the lifters as one specification: the catalog of a 32-bit*)
(* image and the lifted code it becomes, the sweep of a 16-bit segment, the  *)
(* recovery of unlisted functions, the argument counts of imports, the       *)
(* function ranges of a 64-bit image, the control flow of lifted 16-bit code *)
(* and the names of symbols.  A behaviour is of one tool; what the others    *)
(* keep is not looked at.                                                    *)
EXTENDS OpcodeMap16, Flow16

CONSTANTS PrefixRuns, ModRMs, CodeTails,                                  \* the sweep
          CodeEnd, IntraSpan, MaxResumes, RunLength, MaxDepth, Programs,    \* Recover
          Images32, FlowLength,                                             \* LiftFlow
          Imports, Window, Limit,                                           \* ArgCount
          Images,                                                           \* Ranges64
          Donors, Targets, Maps, DonorMaps, Libs, Tables, Files, Idents     \* SymbolNames

VARIABLES bench,          \* the tool
          bytes, listing, swept,
          image32, stage, catalog, owner, queue, queued32, aliases, scanned, rounds,
          flow, cpu32, c32, paired, steps32,
          prog, phase, work, queued, forced, recovered, cpuR, cR, steps,
          import, answer,
          image, functions, notes, pass, left, joined, report,
          world, step, syms, sigs, named, merged, todo
lfvars == <<image32, stage, catalog, owner, queue, queued32, aliases, scanned, rounds,
            flow, cpu32, c32, paired, steps32>>
dcvars == <<bytes, listing, swept>>
rcvars == <<prog, phase, work, queued, forced, recovered, cpuR, cR, steps>>
argvars == <<import, answer>>
rgvars == <<image, functions, notes, pass, left, joined, report>>
nmvars == <<world, step, syms, sigs, named, merged, todo>>

Lft == INSTANCE LiftFlow WITH Images <- Images32, RunLength <- FlowLength, image <- image32,
                              functions <- catalog, queued <- queued32, guest <- cpu32,
                              lifted <- c32, steps <- steps32
Rec == INSTANCE Recover WITH guest <- cpuR, lifted <- cR
Arg == INSTANCE ArgCount
Rng == INSTANCE Ranges64 WITH phase <- pass, merged <- joined
Nam == INSTANCE SymbolNames

ASSUME RangesAssumption == Rng!ImagesAssumption
ASSUME NamesAssumption == Nam!NamesAssumption

----------------------------------------------------------------------------
(* One sweep of tools/disasm/decode16.py over a segment: prefixes, an opcode,*)
(* a ModRM byte and a tail of further code that may be cut off anywhere.     *)

Opcodes == {<<b>> : b \in 0 .. 255} \cup {<<\h0F, b>> : b \in SecondBytes}

DecodeInit == bytes \in {o \o <<m>> : o \in Opcodes, m \in ModRMs} /\ listing = <<>> /\ swept = FALSE
Sweep(prefixes, tail) ==
    /\ ~swept
    /\ swept' = TRUE
    /\ bytes' = prefixes \o bytes \o tail
    /\ listing' = decode_all(bytes')
DecodeNext == \E prefixes \in PrefixRuns, tail \in CodeTails : Sweep(prefixes, tail)

Listed(i) == [address |-> i.address, prefix |-> i.prefix, seg |-> i.seg, mnemonic |-> i.insn.mnemonic,
              ops |-> [k \in 1 .. Len(i.insn.ops) |-> Meaning(i.insn.ops[k])],
              overlay |-> i.insn.overlay, end |-> i.insn.next]
\* decode_all lists the instructions the processor's opcode map finds in the
\* segment, each at its place with its operands, up to the first one the map
\* or the decoder does not define or the end of the segment cuts off.
SweepReads ==
    swept => IsPrefix(MapAll(bytes), [k \in 1 .. Len(listing) |-> Listed(listing[k])])

----------------------------------------------------------------------------
\* What a tool that does not run keeps.
Idle == "idle"
DecodeIdle == /\ bytes = Idle /\ listing = Idle /\ swept = Idle
LiftIdle == /\ image32 = Idle /\ stage = Idle /\ catalog = Idle /\ owner = Idle
            /\ queue = Idle /\ queued32 = Idle /\ aliases = Idle /\ scanned = Idle
            /\ rounds = Idle /\ flow = Idle /\ cpu32 = Idle /\ c32 = Idle
            /\ paired = Idle /\ steps32 = Idle
RecoverIdle == /\ prog = Idle /\ phase = Idle /\ work = Idle /\ queued = Idle
               /\ forced = Idle /\ recovered = Idle /\ cpuR = Idle
               /\ cR = Idle /\ steps = Idle
ArgIdle == /\ import = Idle /\ answer = Idle
RangesIdle == /\ image = Idle /\ functions = Idle /\ notes = Idle
              /\ pass = Idle /\ left = Idle /\ joined = Idle /\ report = Idle
FlowIdle == /\ layout = Idle /\ guest = Idle /\ lifted = Idle /\ back = Idle
NameIdle == /\ world = Idle /\ step = Idle /\ syms = Idle /\ sigs = Idle
            /\ named = Idle /\ merged = Idle /\ todo = Idle

BenchInit ==
    \/ bench = "lift" /\ Lft!FlowInit /\ DecodeIdle /\ RecoverIdle /\ ArgIdle /\ RangesIdle /\ FlowIdle /\ NameIdle
    \/ bench = "decode" /\ DecodeInit /\ LiftIdle /\ RecoverIdle /\ ArgIdle /\ RangesIdle /\ FlowIdle /\ NameIdle
    \/ bench = "recover" /\ Rec!RecoverInit /\ LiftIdle /\ DecodeIdle /\ ArgIdle /\ RangesIdle /\ FlowIdle /\ NameIdle
    \/ bench = "argc" /\ Arg!ArgInit /\ LiftIdle /\ DecodeIdle /\ RecoverIdle /\ RangesIdle /\ FlowIdle /\ NameIdle
    \/ bench = "ranges" /\ Rng!RangesInit /\ LiftIdle /\ DecodeIdle /\ RecoverIdle /\ ArgIdle /\ FlowIdle /\ NameIdle
    \/ bench = "flow16" /\ Flow16Init /\ LiftIdle /\ DecodeIdle /\ RecoverIdle /\ ArgIdle /\ RangesIdle /\ NameIdle
    \/ bench = "names" /\ Nam!NamesInit /\ LiftIdle /\ DecodeIdle /\ RecoverIdle /\ ArgIdle /\ RangesIdle /\ FlowIdle

BenchNext ==
    /\ \/ bench = "lift" /\ Lft!FlowNext /\ UNCHANGED <<dcvars, rcvars, argvars, rgvars, f16vars, nmvars>>
       \/ bench = "decode" /\ DecodeNext /\ UNCHANGED <<lfvars, rcvars, argvars, rgvars, f16vars, nmvars>>
       \/ bench = "recover" /\ Rec!RecoverNext /\ UNCHANGED <<lfvars, dcvars, argvars, rgvars, f16vars, nmvars>>
       \/ bench = "argc" /\ Arg!ArgNext /\ UNCHANGED <<lfvars, dcvars, rcvars, rgvars, f16vars, nmvars>>
       \/ bench = "ranges" /\ Rng!RangesNext /\ UNCHANGED <<lfvars, dcvars, rcvars, argvars, f16vars, nmvars>>
       \/ bench = "flow16" /\ Flow16Next /\ UNCHANGED <<lfvars, dcvars, rcvars, argvars, rgvars, nmvars>>
       \/ bench = "names" /\ Nam!NamesNext /\ UNCHANGED <<lfvars, dcvars, rcvars, argvars, rgvars, f16vars>>
    /\ UNCHANGED bench
BenchSpec == BenchInit /\ [][BenchNext]_<<bench, lfvars, dcvars, rcvars, argvars, rgvars, f16vars, nmvars>>

----------------------------------------------------------------------------
\* Every path through the code is one of the lifted C, and everything it goes
\* to is in the catalog (LiftFlow; disasm32.py:884-901, lift32_cpu.py:1133-1148).
PathsAgree == bench = "lift" => Lft!PathsAgree

\* A condition is compiled from the flags written last on every path to it
\* (LiftFlow; lift32.py:1858-1862).
PairedWithLast == bench = "lift" => Lft!PairedWithLast

\* The sweep lists what the processor's opcode map reads (SweepReads;
\* decode16.py:931-958).
DecodeReads == bench = "decode" => SweepReads

\* The recovered bodies run as the program does (Recover; recover.py:8-31).
BodiesAgree == bench = "recover" => Rec!BodiesAgree

\* A resolved import pops what its callee pops (ArgCount;
\* stdcall_argc.py:70-74).
ArgcAgrees == bench = "argc" => Arg!ArgcAgrees

\* Function ranges do not share bytes unseen (Ranges64; functions.py:126-128).
RangesHold == bench = "ranges" => Rng!RangesHold

\* Lifted 16-bit code goes where the program goes (Flow16;
\* lift16.py:227-233 and 743-760).
Transfers16 == bench = "flow16" => TransfersAgree

\* A name is never another function's (SymbolNames; map_names.py:212-217).
NamesTrue == bench = "names" => Nam!NamesTrue
=============================================================================
