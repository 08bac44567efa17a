---------------------------- MODULE RuntimeBench ----------------------------
(* Three parts of the runtime as one specification: the guest heap with the  *)
(* two counters guest_heap.c keeps for the run report, the crossings between *)
(* lifted and real code, and the thunks.  A behaviour is of one part; what   *)
(* the others keep is not looked at.                                         *)
EXTENDS GuestHeap, FiniteSets, Crossing, Thunks

----------------------------------------------------------------------------
(* The counters of the guest heap. *)

VARIABLES g_allocated, g_peak

statsVars == <<vars, g_allocated, g_peak>>

StatsInit ==
  /\ Init
  /\ g_allocated = 0
  /\ g_peak = 0

\* A block of size cells is taken.
Count(size) ==
  /\ g_allocated' = g_allocated + size
  /\ g_peak' = IF g_allocated' > g_peak THEN g_allocated' ELSE g_peak

\* The slip of a strict comparison.
Discount_bug(size) ==
  /\ g_allocated' = IF g_allocated > size THEN g_allocated - size
                                          ELSE g_allocated
  /\ UNCHANGED g_peak

\* A block of size cells is freed.
Discount(size) ==
  /\ g_allocated' = IF g_allocated >= size THEN g_allocated - size
                                           ELSE g_allocated
  /\ UNCHANGED g_peak

StatsAlloc(o, n) ==
  /\ Alloc(o, n)
  /\ Count(hdr'[block_of(ptr'[o])].size)

StatsFree(o) ==
  /\ Free(o)
  /\ Discount(hdr[block_of(ptr[o])].size)

StatsRefused(o, n) ==
  /\ AllocRefused(o, n)
  /\ UNCHANGED <<g_allocated, g_peak>>

\* A guest that never reallocates: in-place reallocation changes a block's
\* length and leaves the counter as it was (guest_heap.c:166-176), after which
\* the counter means nothing.
StatsNext ==
  \/ \E o \in Objects, n \in Requests : StatsAlloc(o, n) \/ StatsRefused(o, n)
  \/ \E o \in Objects : StatsFree(o)

StatsSpec == StatsInit /\ [][StatsNext]_statsVars

UsedCells ==
  UNION {Span(payload(b), hdr[b].size) :
           b \in {u \in DOMAIN hdr : hdr[u].free = 0}}

\* g_allocated is the total length of the blocks in use, so the guard that
\* keeps it from wrapping never hides a loss (guest_heap.c:119, 141-143).
AllocatedIsUsed == g_allocated = Cardinality(UsedCells)

----------------------------------------------------------------------------
(* The three parts. *)

VARIABLE bench            \* the part

Idle == "idle"
HeapIdle == mem = Idle /\ hdr = Idle /\ ptr = Idle /\ asked = Idle /\ g_allocated = Idle /\ g_peak = Idle
CrossingIdle == /\ base = Idle /\ calls = Idle /\ tib = Idle /\ arena = Idle
                /\ space = Idle /\ torn = Idle /\ lost = Idle
ThunksIdle == /\ program = Idle /\ run = Idle /\ window = Idle /\ routed = Idle
              /\ words = Idle /\ g_pool_off = Idle /\ pool = Idle /\ drawing = Idle
              /\ handed = Idle /\ g_slot_ova = Idle /\ g_nslots = Idle

RuntimeInit ==
  \/ bench = "heap" /\ StatsInit /\ CrossingIdle /\ ThunksIdle
  \/ bench = "crossing" /\ CrossingInit /\ HeapIdle /\ ThunksIdle
  \/ bench = "thunks" /\ ThunksInit /\ HeapIdle /\ CrossingIdle

RuntimeNext ==
  /\ \/ bench = "heap" /\ StatsNext /\ UNCHANGED <<cvars, tvars>>
     \/ bench = "crossing" /\ CrossingNext /\ UNCHANGED <<statsVars, tvars>>
     \/ bench = "thunks" /\ ThunksNext /\ UNCHANGED <<statsVars, cvars>>
  /\ UNCHANGED bench

RuntimeSpec == RuntimeInit /\ [][RuntimeNext]_<<bench, statsVars, cvars, tvars>>

----------------------------------------------------------------------------
\* The heap's counter is the length of its blocks in use (AllocatedIsUsed;
\* guest_heap.c:119, 141-143).
HeapCounts == bench = "heap" => AllocatedIsUsed

\* Where nothing is reallocated, no two free blocks lie side by side
\* (GuestHeap; guest_heap.c:144-161).
FreeMerges == bench = "heap" => NoFreeNeighbours

\* The call backs of every thread have their frames (Crossing;
\* hybrid.c:143-147, 230-245, 261-278).
CallBacksHold == bench = "crossing" => FramesHeld

\* Calls to real code nest (Crossing; hybrid.c:33-34).
CallsNest == bench = "crossing" => SlotNests

\* Every thunk leads to its function (Thunks; hybrid.c:330-356, 395-426).
ThunksLead == bench = "thunks" => ThunksHold
=============================================================================
