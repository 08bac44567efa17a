---------------------------- MODULE Runtime_proof ----------------------------
(* Theorems about a guest heap on which nothing is reallocated, with the two *)
(* counters of the run report, for every layout, size and set of requests;   *)
(* and about the thunks, for every program, window, pool and set of threads. *)
(*                                                                           *)
(* No free block is followed by a free one: a block that is split was free,  *)
(* so the block after its free rest is in use, and a block that is freed     *)
(* merges with its free neighbours, beyond which blocks are in use.  And     *)
(* taking or freeing a block adds or removes the cells of that block and no  *)
(* others from the cells in use.                                             *)
(*                                                                           *)
(* The scan of the data lists the words of tables in order, so the n-th slot *)
(* is the n-th of them and draws the stub behind those of the slots routed   *)
(* before it.  A stub is drawn by one thread and written once, so that what  *)
(* was handed out, and what the data hold, goes on leading where it did.     *)
EXTENDS RuntimeBench, GuestHeap_proof, FiniteSetTheorems

----------------------------------------------------------------------------
(* Neighbours. *)

NoFree(h) ==
  \A b \in DOMAIN h : h[b].free = 1 /\ h[b].next # Null => h[h[b].next].free = 0

\* A block that keeps its length keeps its next one.
LEMMA SameNext ==
  ASSUME NEW h, Well(h), NEW g, Well(g), NEW b \in DOMAIN h \cap DOMAIN g,
         g[b].size = h[b].size
  PROVE  g[b].next = h[b].next
<1> USE HeapAssumption
<1>1. End(g, b) = End(h, b) /\ End(h, b) \in Int /\ Limit \in Int
  BY WellBlock DEF End, Limit
<1>2. \A f \in {g, h} : \/ End(f, b) = Limit /\ f[b].next = Null
                        \/ End(f, b) < Limit /\ f[b].next = End(f, b)
  BY DEF Well, Tiled, NextLinks
<1>3. QED
  BY <1>1, <1>2

\* Only the block before leads to a block.
LEMMA OnlyPrevious ==
  ASSUME NEW h, Well(h), NEW b \in DOMAIN h, h[b].next # Null
  PROVE  h[h[b].next].previous = b
<1> USE HeapAssumption
<1> DEFINE c == h[b].next
           p == h[c].previous
<1>1. c \in DOMAIN h /\ c = End(h, b) /\ b < c /\ b \in Int /\ Base <= b
  BY WellBlock
<1> HIDE DEF c
<1>2. c # Base
  BY <1>1, WellBlock
<1>3. p \in DOMAIN h /\ h[p].next = c /\ c # Null
  BY <1>1, <1>2, WellBlock DEF Well, Tiled, PreviousLinks
<1> HIDE DEF p
<1>4. c = End(h, p) /\ p \in Int /\ p < c
  BY <1>3, WellBlock
<1>5. ~(p < b) /\ ~(b < p)
  <2>1. Disjoint(h)
    BY DEF Well, Tiled
  <2>2. p < b => End(h, p) <= b
    BY <1>3, <2>1 DEF Disjoint
  <2>3. b < p => End(h, b) <= p
    BY <1>3, <2>1 DEF Disjoint
  <2>4. c \in Int
    BY <1>1, <1>4, WellBlock
  <2>5. QED
    BY <1>1, <1>4, <2>2, <2>3, <2>4
<1>6. p = b
  BY <1>1, <1>4, <1>5
<1>7. QED
  BY <1>6 DEF c, p

\* What split makes of a block is followed by what followed it.
LEMMA SplitRest ==
  ASSUME NEW h, NEW e \in DOMAIN h, NEW size,
         NEW b \in DOMAIN split(h, e, size), b \notin DOMAIN h
  PROVE  split(h, e, size)[b].next = h[e].next
<1>1. b = payload(e) + size
  BY DEF split
<1>2. ~(h[e].size < size + HEADER_SIZE + MIN_SPLIT)
  BY DEF split
<1>3. QED
  BY <1>1, <1>2 DEF split

\* Taking a free block leaves no free neighbours.
LEMMA TakenNoFree ==
  ASSUME NEW h, Well(h), NoFree(h), NEW e \in DOMAIN h, h[e].free = 1,
         NEW size \in Nat, size <= h[e].size
  PROVE  NoFree(Taken(h, e, size))
<1> DEFINE k == split(h, e, size)
           g == Taken(h, e, size)
<1>1. g = [k EXCEPT ![e].free = 0]
  BY DEF Taken
<1>2. /\ Well(g) /\ DOMAIN h \subseteq DOMAIN g /\ g[e].free = 0
      /\ \A b \in DOMAIN h \ {e} : g[b].size = h[b].size /\ g[b].free = h[b].free
  BY TakenWell
<1>3. DOMAIN g = DOMAIN k
  BY <1>1
<1>4. \A b \in DOMAIN g \ DOMAIN h : g[b].next = h[e].next
  BY <1>1, <1>3, SplitRest
<1> HIDE DEF g, k
<1>5. ASSUME NEW b \in DOMAIN g, g[b].free = 1, g[b].next # Null
      PROVE  g[g[b].next].free = 0
  <2>1. PICK c \in DOMAIN h : h[c].free = 1 /\ g[b].next = h[c].next
    <3>1. CASE b \in DOMAIN h
      <4>1. b # e /\ g[b].size = h[b].size /\ h[b].free = 1
        BY <1>2, <1>5, <3>1
      <4>2. g[b].next = h[b].next
        BY <1>2, <3>1, <4>1, SameNext
      <4>3. QED
        BY <3>1, <4>1, <4>2
    <3>2. CASE b \notin DOMAIN h
      BY <1>4, <3>2
    <3>3. QED
      BY <3>1, <3>2
  <2>2. h[c].next \in DOMAIN h /\ h[h[c].next].free = 0
    BY <1>5, <2>1, WellBlock DEF NoFree
  <2>3. QED
    BY <1>2, <2>1, <2>2
<1>6. QED
  BY <1>5 DEF NoFree, g

\* The block that coalescing lengthens is followed by what followed the one it
\* swallowed.
LEMMA CoalesceNext ==
  ASSUME NEW h, NEW e \in DOMAIN h, h[e].next # Null,
         h[h[e].next].free # 0, h[e].next # e
  PROVE  /\ coalesce(h, e)[e].next = h[h[e].next].next
         /\ DOMAIN coalesce(h, e) = DOMAIN h \ {h[e].next}
  BY DEF coalesce, Resized

\* Coalescing a block that no free one precedes and whose next one no free one
\* follows leaves no free neighbours.
LEMMA CoalesceNoFree ==
  ASSUME NEW h, Well(h), NEW e \in DOMAIN h, h[e].free = 1,
         \A b \in DOMAIN h \ {e} :
           /\ h[b].free = 1 /\ h[b].next # Null => h[h[b].next].free = 0 \/ h[b].next = e
  PROVE  \A b \in DOMAIN coalesce(h, e) :
           LET g == coalesce(h, e)
           IN  g[b].free = 1 /\ g[b].next # Null
                 => g[g[b].next].free = 0 \/ g[b].next = e
<1> DEFINE g == coalesce(h, e)
           n == h[e].next
<1>1. CASE n = Null \/ h[n].free = 0
  BY <1>1 DEF coalesce
<1>2. CASE ~(n = Null \/ h[n].free = 0)
  <2>1. n \in DOMAIN h /\ n # e /\ h[n].free = 1
    BY <1>2, WellBlock
  <2>2. g[e].next = h[n].next /\ DOMAIN g = DOMAIN h \ {n}
    BY <1>2, <2>1, CoalesceNext
  <2>3. /\ Well(g) /\ e \in DOMAIN g
        /\ \A b \in DOMAIN g \ {e} : g[b].size = h[b].size /\ g[b].free = h[b].free
    BY CoalesceWell
  <2> HIDE DEF g, n
  <2>4. ASSUME NEW b \in DOMAIN g, g[b].free = 1, g[b].next # Null, g[b].next # e
        PROVE  g[g[b].next].free = 0
    <3> DEFINE c == g[b].next
    <3>1. c \in DOMAIN g
      BY <2>3, <2>4, WellBlock
    <3>2. PICK d \in DOMAIN h \ {e} : h[d].free = 1 /\ c = h[d].next
      <4>1. CASE b = e
        BY <2>1, <2>2, <4>1
      <4>2. CASE b # e
        <5>1. g[b].next = h[b].next
          BY <2>2, <2>3, <4>2, SameNext
        <5>2. QED
          BY <2>2, <2>3, <2>4, <4>2, <5>1
      <4>3. QED
        BY <4>1, <4>2
    <3> HIDE DEF c
    <3>3. h[c].free = 0
      BY <2>4, <3>2 DEF c
    <3>4. QED
      BY <2>3, <2>4, <3>1, <3>3 DEF c
  <2>5. QED
    BY <2>4 DEF g
<1>3. QED
  BY <1>1, <1>2

\* Freeing a block leaves no free neighbours.
LEMMA FreedNoFree ==
  ASSUME NEW h, Well(h), NoFree(h), NEW e \in DOMAIN h, h[e].free = 0
  PROVE  NoFree(Freed(h, e))
<1> DEFINE k == Marked(h, e)
           m == MergedUp(h, e)
           p == m[e].previous
           g == Freed(h, e)
<1>1. /\ Well(k) /\ DOMAIN k = DOMAIN h /\ k[e].free = 1
      /\ \A b \in DOMAIN h : k[b].next = h[b].next
      /\ \A b \in DOMAIN h \ {e} : k[b] = h[b]
  BY MarkWell DEF Marked
<1> HIDE DEF k
<1>2. m = coalesce(k, e)
  BY DEF MergedUp, k
<1> HIDE DEF m
<1>3. \A b \in DOMAIN k \ {e} :
        k[b].free = 1 /\ k[b].next # Null => k[k[b].next].free = 0 \/ k[b].next = e
  <2> SUFFICES ASSUME NEW b \in DOMAIN k \ {e}, k[b].free = 1, k[b].next # Null,
                      k[b].next # e
               PROVE  k[k[b].next].free = 0
    OBVIOUS
  <2>1. h[b].free = 1 /\ h[b].next = k[b].next /\ b \in DOMAIN h
    BY <1>1
  <2>2. h[b].next \in DOMAIN h /\ h[h[b].next].free = 0
    BY <2>1, WellBlock DEF NoFree
  <2>3. QED
    BY <1>1, <2>1, <2>2
<1>4. /\ Well(m) /\ e \in DOMAIN m /\ m[e].free = 1
  BY <1>1, <1>2, CoalesceWell
<1>5. \A b \in DOMAIN m :
        m[b].free = 1 /\ m[b].next # Null => m[m[b].next].free = 0 \/ m[b].next = e
  BY <1>1, <1>2, <1>3, CoalesceNoFree
<1>6. \A b \in DOMAIN m : m[b].next = e /\ e # Null => b = p
  BY <1>4, OnlyPrevious
<1>7. e # Null /\ \A b \in DOMAIN m : m[b].free \in {0, 1} /\ m[b].next # b
  BY <1>4, WellBlock
<1>8. CASE p # Null /\ m[p].free = 1
  <2>1. g = coalesce(m, p) /\ p \in DOMAIN m /\ m[p].next = e
    BY <1>4, <1>8, WellBlock DEF Freed, m
  <2> HIDE DEF g, p
  <2>2. \A b \in DOMAIN m \ {p} :
          m[b].free = 1 /\ m[b].next # Null => m[m[b].next].free = 0 \/ m[b].next = p
    BY <1>5, <1>6, <1>7
  <2>3. \A b \in DOMAIN g :
          g[b].free = 1 /\ g[b].next # Null => g[g[b].next].free = 0 \/ g[b].next = p
    BY <1>4, <1>8, <2>1, <2>2, CoalesceNoFree
  <2>4. /\ Well(g) /\ p \in DOMAIN g /\ g[p].free = 1
        /\ \A b \in DOMAIN g \ {p} : g[b].size = m[b].size /\ g[b].free = m[b].free
    BY <1>4, <1>8, <2>1, CoalesceWell
  <2>5. DOMAIN g = DOMAIN m \ {e}
    BY <1>4, <1>7, <2>1, CoalesceNext
  <2>6. \A b \in DOMAIN g : g[b].free = 1 => g[b].next # p
    <3> SUFFICES ASSUME NEW b \in DOMAIN g, g[b].free = 1, g[b].next = p
                 PROVE  FALSE
      OBVIOUS
    <3>1. b # p
      <4>1. g[p].next # p
        BY <2>4, WellBlock
      <4>2. QED
        BY <4>1
    <3>2. b \in DOMAIN m /\ m[b].next = p /\ m[b].free = 1 /\ b # e
      <4>1. b \in DOMAIN m \cap DOMAIN g /\ g[b].size = m[b].size
        BY <2>4, <2>5, <3>1
      <4>2. g[b].next = m[b].next
        BY <1>4, <2>4, <4>1, SameNext
      <4>3. QED
        BY <2>4, <2>5, <3>1, <4>1, <4>2
    <3>3. m[p].free = 0
      BY <1>5, <1>7, <1>8, <2>1, <3>2
    <3>4. QED
      BY <1>8, <3>3
  <2>7. QED
    BY <2>3, <2>6 DEF NoFree, g
<1>9. CASE ~(p # Null /\ m[p].free = 1)
  <2>1. g = m
    BY <1>9 DEF Freed, m
  <2>2. p # Null \/ \A b \in DOMAIN m : m[b].next # e
    <3>1. \A b \in DOMAIN m : b # Null
      BY <1>4, WellBlock
    <3>2. QED
      BY <1>6, <1>7, <3>1
  <2>3. QED
    BY <1>5, <1>6, <1>7, <1>9, <2>1, <2>2 DEF NoFree
<1>10. QED
  BY <1>8, <1>9

----------------------------------------------------------------------------
(* The cells in use. *)

CellsOf(h) == UNION {Part(b, h[b].size) : b \in Used(h)}

LEMMA CellsFinite ==
  ASSUME NEW h, Well(h)
  PROVE  IsFiniteSet(CellsOf(h)) /\ Cardinality(CellsOf(h)) \in Nat
<1> USE HeapAssumption
<1>1. IsFiniteSet(Cells)
  BY FS_Interval DEF Cells, Limit
<1>2. CellsOf(h) \subseteq Cells
  <2>1. ASSUME NEW b \in Used(h) PROVE Part(b, h[b].size) \subseteq Cells
    <3>1. b \in DOMAIN h /\ h[b].size \in Nat /\ h[b].size <= h[b].size
      BY WellBlock DEF Used
    <3>2. QED
      BY <3>1, PartIsCells
  <2>2. QED
    BY <2>1 DEF CellsOf
<1>3. QED
  BY <1>1, <1>2, FS_Subset, FS_CardinalityType

\* One more block in use is that many more cells in use.
LEMMA CellsAdd ==
  ASSUME NEW h, Well(h), NEW g, Well(g), NEW e \in Used(g),
         Used(h) = Used(g) \ {e}, KeepsOthers(g, h, e)
  PROVE  Cardinality(CellsOf(g)) = Cardinality(CellsOf(h)) + g[e].size
<1> DEFINE P == Part(e, g[e].size)
           n == g[e].size
<1>1. e \in DOMAIN g /\ e \in Int /\ n \in Nat /\ n <= n
  BY WellBlock DEF Used
<1>2. CellsOf(g) = CellsOf(h) \cup P
  <2>1. \A b \in Used(h) : b \in Used(g) \ {e} /\ g[b].size = h[b].size
    BY DEF KeepsOthers
  <2>2. Used(g) = Used(h) \cup {e}
    OBVIOUS
  <2>3. QED
    BY <2>1, <2>2 DEF CellsOf
<1>3. CellsOf(h) \cap P = {}
  <2>1. ASSUME NEW b \in Used(h) PROVE Part(b, h[b].size) \cap P = {}
    <3>1. /\ b \in DOMAIN g /\ b # e /\ g[b].size = h[b].size
          /\ g[b].size \in Nat /\ g[b].size <= g[b].size
      BY WellBlock DEF KeepsOthers, Used
    <3>2. QED
      BY <1>1, <3>1, PartsApart
  <2>2. QED
    BY <2>1 DEF CellsOf
<1>4. IsFiniteSet(P) /\ Cardinality(P) = n
  <2>1. payload(e) \in Int /\ P = payload(e) .. (payload(e) + n - 1)
    BY <1>1, HeapAssumption DEF Part, Span, payload
  <2> HIDE DEF P, n
  <2>2. QED
    BY <1>1, <2>1, FS_Interval
<1> HIDE DEF P, n
<1>5. Cardinality(CellsOf(g)) = Cardinality(CellsOf(h)) + n - Cardinality({})
  BY <1>2, <1>3, <1>4, CellsFinite, FS_Union
<1>6. QED
  BY <1>1, <1>5, CellsFinite, FS_EmptySet DEF n

----------------------------------------------------------------------------
(* The heap's part of the runtime. *)

HeapBench ==
  /\ HeapInv
  /\ NoFree(hdr)
  /\ g_allocated = Cardinality(CellsOf(hdr))

LEMMA CellsAreUsed == UsedCells = CellsOf(hdr)
  BY DEF UsedCells, CellsOf, Part, Used

LEMMA StatsAllocKeeps ==
  ASSUME HeapBench, NEW o \in Objects, NEW n \in Requests, StatsAlloc(o, n)
  PROVE  HeapBench'
<1> DEFINE size == Rounded(n)
           e == FirstFit(hdr, size)
           g == Taken(hdr, e, size)
<1>1. /\ Fitting(hdr, size) # {} /\ hdr' = g /\ Hold(o, payload(e), n)
      /\ g_allocated' = g_allocated + g[block_of(ptr'[o])].size
  BY DEF StatsAlloc, Alloc, Count
<1>2. HeapInv' /\ HeapInv
  BY AllocKeeps DEF StatsAlloc, HeapBench
<1>3. size \in Nat /\ Well(hdr)
  BY RequestLength DEF HeapBench, HeapInv
<1> HIDE DEF size
<1>4. e \in DOMAIN hdr /\ hdr[e].free = 1 /\ size <= hdr[e].size
  BY <1>1, <1>3, FirstFitFits, WellBlock
<1>5. /\ Well(g) /\ e \notin Used(hdr) /\ Used(g) = Used(hdr) \cup {e}
      /\ KeepsOthers(hdr, g, e)
  BY <1>1, <1>3, TakenUsed
<1>6. NoFree(g)
  BY <1>3, <1>4, TakenNoFree DEF HeapBench
<1> HIDE DEF e, g
<1>7. block_of(ptr'[o]) = e
  <2>1. ptr'[o] = payload(e)
    BY <1>1, <1>2 DEF Hold, HeapInv
  <2>2. e \in Int /\ Base <= e /\ e \in DOMAIN g /\ e \in Used(g)
    BY <1>5, WellBlock DEF Used
  <2>3. payload(e) < Limit
    BY <1>5, <2>2 DEF Well, Tiled, PayloadsInside
  <2>4. QED
    BY <2>1, <2>2, <2>3, HeapAssumption DEF block_of, payload, Limit
<1>8. Cardinality(CellsOf(g)) = Cardinality(CellsOf(hdr)) + g[e].size
  <2>1. e \in Used(g) /\ Used(hdr) = Used(g) \ {e}
    BY <1>5
  <2>2. KeepsOthers(g, hdr, e)
    BY <1>5 DEF KeepsOthers
  <2>3. QED
    BY <1>3, <1>5, <2>1, <2>2, CellsAdd
<1>9. QED
  BY <1>1, <1>2, <1>6, <1>7, <1>8 DEF HeapBench

LEMMA StatsFreeKeeps ==
  ASSUME HeapBench, NEW o \in Objects, StatsFree(o)
  PROVE  HeapBench'
<1> DEFINE e == block_of(ptr[o])
           g == Freed(hdr, e)
<1>1. /\ ptr[o] # Null /\ hdr' = g
      /\ g_allocated' = IF g_allocated >= hdr[e].size
                          THEN g_allocated - hdr[e].size ELSE g_allocated
  BY DEF StatsFree, Free, Discount
<1>2. HeapInv' /\ HeapInv
  BY FreeKeeps DEF StatsFree, HeapBench
<1>3. e \in Used(hdr) /\ Well(hdr)
  BY <1>1, <1>2, HeldBlock DEF HeapInv
<1> HIDE DEF e
<1>4. e \in DOMAIN hdr /\ hdr[e].free = 0 /\ hdr[e].size \in Nat
  BY <1>3, WellBlock DEF Used
<1>5. Well(g) /\ Used(g) = Used(hdr) \ {e} /\ KeepsOthers(hdr, g, e)
  BY <1>3, FreedUsed
<1>6. NoFree(g)
  BY <1>3, <1>4, FreedNoFree DEF HeapBench
<1> HIDE DEF g
<1>7. Cardinality(CellsOf(hdr)) = Cardinality(CellsOf(g)) + hdr[e].size
  BY <1>3, <1>5, CellsAdd
<1>8. Cardinality(CellsOf(g)) \in Nat
  BY <1>5, CellsFinite
<1> DEFINE before == Cardinality(CellsOf(hdr))
           after == Cardinality(CellsOf(g))
           n == hdr[e].size
<1>9. g_allocated' = after
  <2>1. g_allocated = before /\ before = after + n /\ after \in Nat /\ n \in Nat
    BY <1>4, <1>7, <1>8 DEF HeapBench
  <2>2. g_allocated' = IF g_allocated >= n THEN g_allocated - n ELSE g_allocated
    BY <1>1
  <2> HIDE DEF before, after, n
  <2>3. QED
    BY <2>1, <2>2
<1>10. QED
  BY <1>1, <1>2, <1>6, <1>9 DEF HeapBench

LEMMA StatsStep == HeapBench /\ [StatsNext]_statsVars => HeapBench'
<1> SUFFICES ASSUME HeapBench, [StatsNext]_statsVars PROVE HeapBench'
  OBVIOUS
<1>1. CASE UNCHANGED <<vars, g_allocated>>
  <2>1. HeapInv'
    BY <1>1, NextHeapInv DEF HeapBench
  <2>2. hdr' = hdr /\ g_allocated' = g_allocated
    BY <1>1 DEF vars
  <2>3. QED
    BY <2>1, <2>2 DEF HeapBench
<1>2. ASSUME NEW o \in Objects, NEW n \in Requests, StatsRefused(o, n)
      PROVE  HeapBench'
  BY <1>1, <1>2 DEF StatsRefused, AllocRefused
<1>3. QED
  BY <1>1, <1>2, StatsAllocKeeps, StatsFreeKeeps DEF StatsNext, statsVars

LEMMA StatsStart == StatsInit => HeapBench
<1> SUFFICES ASSUME StatsInit PROVE HeapBench
  OBVIOUS
<1>1. HeapInv
  BY InitHeapInv DEF StatsInit
<1>2. /\ DOMAIN hdr = {Base} /\ hdr[Base].free = 1 /\ hdr[Base].next = Null
  BY DEF StatsInit, Init
<1>3. CellsOf(hdr) = {}
  BY <1>2 DEF CellsOf, Used
<1>4. QED
  BY <1>1, <1>2, <1>3, FS_EmptySet DEF HeapBench, NoFree, StatsInit

HeapRuns == bench = "heap" => HeapBench

LEMMA RunsHold == RuntimeSpec => []HeapRuns
<1>1. RuntimeInit => HeapRuns
  BY StatsStart DEF RuntimeInit, HeapRuns
<1>2. HeapRuns /\ [RuntimeNext]_<<bench, statsVars, cvars, tvars>> => HeapRuns'
  <2> SUFFICES ASSUME HeapRuns, [RuntimeNext]_<<bench, statsVars, cvars, tvars>>,
                      bench' = "heap"
               PROVE  HeapBench'
    BY DEF HeapRuns
  <2>1. bench = "heap" /\ HeapBench /\ [StatsNext]_statsVars
    BY DEF RuntimeNext, HeapRuns
  <2>2. QED
    BY <2>1, StatsStep
<1>3. QED
  BY <1>1, <1>2, PTL DEF RuntimeSpec

\* Where nothing is reallocated, no two free blocks ever lie side by side,
\* whatever is allocated, refused and freed (guest_heap.c:144-161).
THEOREM FreeMergesAlways == RuntimeSpec => []FreeMerges
<1>1. HeapRuns => FreeMerges
  BY DEF HeapRuns, HeapBench, NoFree, FreeMerges, NoFreeNeighbours
<1>2. QED
  BY <1>1, RunsHold, PTL

\* And the counter of the run report is the number of cells in use, so that the
\* guard against its wrapping never hides a loss (guest_heap.c:119, 141-143).
THEOREM HeapCountsAlways == RuntimeSpec => []HeapCounts
<1>1. HeapRuns => HeapCounts
  BY CellsAreUsed DEF HeapRuns, HeapBench, HeapCounts, AllocatedIsUsed
<1>2. QED
  BY <1>1, RunsHold, PTL

----------------------------------------------------------------------------
(* The slots of the scan. *)

LEMMA Smallest ==
  ASSUME NEW S, S \subseteq Nat, S # {}
  PROVE  \E n \in S : \A k \in S : n <= k
<1>1. IsWellFoundedOn(OpToRel(<, Nat), Nat)
  BY NatLessThanWellFounded
<1>2. PICK n \in S : \A k \in S : ~ (<<k, n>> \in OpToRel(<, Nat))
  BY <1>1, WFMin
<1>3. ASSUME NEW k \in S PROVE n <= k
  <2>1. n \in Nat /\ k \in Nat
    OBVIOUS
  <2>2. k < n => <<k, n>> \in OpToRel(<, Nat)
    BY <2>1 DEF OpToRel
  <2>3. <<k, n>> \notin OpToRel(<, Nat)
    BY <1>2
  <2>4. ~(k < n)
    BY <2>2, <2>3, Zenon
  <2>5. QED
    BY <2>1, <2>4
<1>4. QED
  BY <1>3

\* A run of function pointers ends, at the end of the data at the latest.
LEMMA RunEnds ==
  ASSUME program \in Seq(Nat), NEW p \in 1 .. Len(program) + 1
  PROVE  /\ RunEnd(p) \in p .. Len(program) + 1
         /\ \A k \in p .. RunEnd(p) - 1 : program[k] \in Functions
         /\ RunEnd(p) <= Len(program) => program[RunEnd(p)] \notin Functions
<1> DEFINE E == {q \in p .. Len(program) + 1 :
                   q <= Len(program) => program[q] \notin Functions}
<1>1. Len(program) \in Nat /\ p \in Nat
  OBVIOUS
<1>2. E \subseteq Nat /\ E # {}
  <2>1. Len(program) + 1 \in E
    BY <1>1
  <2>2. QED
    BY <1>1, <2>1
<1>3. PICK q \in E : \A k \in E : q <= k
  BY <1>2, Smallest
<1>4. ASSUME NEW k \in p .. q - 1 PROVE program[k] \in Functions
  BY <1>1, <1>3
<1>5. \E r \in p .. Len(program) + 1 :
        /\ \A k \in p .. r - 1 : program[k] \in Functions
        /\ r <= Len(program) => program[r] \notin Functions
  BY <1>3, <1>4
<1>6. QED
  BY <1>5 DEF RunEnd

\* Nothing is in the middle of a run at word p.
Edge(p) ==
  p = 1 \/ program[p - 1] \notin Functions \/ p > Len(program) \/ program[p] \notin Functions

\* A sequence lists the words of tables from p on, in order.
Lists(s, p) ==
  /\ s \in Seq(1 .. Len(program))
  /\ \A i, j \in 1 .. Len(s) : i < j => s[i] < s[j]
  /\ \A q \in 1 .. Len(program) :
       (\E i \in 1 .. Len(s) : s[i] = q) <=> p <= q /\ InTable(q)

LEMMA ListsNone == ASSUME program \in Seq(Nat), NEW p, p = Len(program) + 1 PROVE Lists(<< >>, p)
<1>1. Len(<< >>) = 0 /\ << >> \in Seq(1 .. Len(program)) /\ Len(program) \in Nat
  OBVIOUS
<1>2. QED
  BY <1>1 DEF Lists

LEMMA ListsSkip ==
  ASSUME program \in Seq(Nat), run \in Int, NEW p \in 1 .. Len(program), program[p] \notin Functions,
         NEW s, Lists(s, p + 1)
  PROVE  Lists(s, p)
<1>1. ~InTable(p)
  <2>1. SUFFICES ASSUME NEW a \in DOMAIN program, NEW b \in DOMAIN program, a <= p, p <= b,
                        \A q \in a .. b : program[q] \in Functions
                 PROVE  FALSE
    BY DEF InTable
  <2>2. p \in a .. b
    BY <2>1
  <2>3. QED
    BY <2>1, <2>2
<1>2. \A q \in 1 .. Len(program) : q # p => (p + 1 <= q <=> p <= q)
  OBVIOUS
<1>3. QED
  BY <1>1, <1>2 DEF Lists

\* The words of a run are in a table together or none is.
LEMMA InRun ==
  ASSUME program \in Seq(Nat), run \in Int, NEW p \in 1 .. Len(program), program[p] \in Functions,
         Edge(p), NEW q \in p .. RunEnd(p) - 1
  PROVE  InTable(q) <=> RunEnd(p) - p >= Least
<1> DEFINE e == RunEnd(p)
           n == Len(program)
<1>1. /\ e \in p .. n + 1 /\ n \in Nat /\ p \in 1 .. n /\ q \in p .. e - 1
      /\ \A k \in p .. e - 1 : program[k] \in Functions
      /\ e <= n => program[e] \notin Functions
      /\ Least \in Int /\ DOMAIN program = 1 .. n
  BY RunEnds DEF Least
<1>2. p = 1 \/ program[p - 1] \notin Functions
  BY DEF Edge
<1> HIDE DEF e, n
<1>3. ASSUME e - p >= Least PROVE InTable(q)
  <2>1. p \in DOMAIN program /\ e - 1 \in DOMAIN program
    BY <1>1
  <2>2. p <= q /\ q <= e - 1 /\ (e - 1) - p + 1 >= Least
    BY <1>1, <1>3
  <2>3. QED
    BY <1>1, <2>1, <2>2 DEF InTable
<1>4. ASSUME NEW a \in DOMAIN program, NEW b \in DOMAIN program, a <= q, q <= b,
             b - a + 1 >= Least, \A k \in a .. b : program[k] \in Functions
      PROVE  e - p >= Least
  <2>1. a \in 1 .. n /\ b \in 1 .. n
    BY <1>1
  <2>2. a >= p
    <3>1. a < p => p - 1 \in a .. b /\ p # 1
      BY <1>1, <1>4, <2>1
    <3>2. QED
      BY <1>1, <1>2, <1>4, <2>1, <3>1
  <2>3. b < e
    <3>1. b >= e => e \in a .. b /\ e <= n
      BY <1>1, <1>4, <2>1
    <3>2. QED
      BY <1>1, <1>4, <2>1, <3>1
  <2>4. QED
    BY <1>1, <1>4, <2>1, <2>2, <2>3
<1>5. QED
  BY <1>3, <1>4 DEF InTable, e

LEMMA Element == ASSUME NEW S, NEW s \in Seq(S), NEW i \in 1 .. Len(s) PROVE s[i] \in S
OBVIOUS

LEMMA Joined ==
  ASSUME NEW S, NEW h \in Seq(S), NEW s \in Seq(S)
  PROVE  /\ h \o s \in Seq(S) /\ Len(h \o s) = Len(h) + Len(s)
         /\ \A i \in 1 .. Len(h) : (h \o s)[i] = h[i]
         /\ \A i \in Len(h) + 1 .. Len(h) + Len(s) : (h \o s)[i] = s[i - Len(h)]
  OBVIOUS

LEMMA ListsRun ==
  ASSUME program \in Seq(Nat), run \in Int, NEW p \in 1 .. Len(program), program[p] \in Functions,
         Edge(p), NEW s, Lists(s, RunEnd(p))
  PROVE  LET size == RunEnd(p) - p
         IN Lists((IF size >= Least THEN [i \in 1 .. size |-> p + i - 1] ELSE << >>) \o s, p)
<1> DEFINE e == RunEnd(p)
           n == Len(program)
           size == e - p
           head == IF size >= Least THEN [i \in 1 .. size |-> p + i - 1] ELSE << >>
           t == head \o s
<1>1. /\ e \in p .. n + 1 /\ n \in Nat /\ p \in 1 .. n /\ Least \in Int
  BY RunEnds DEF Least
<1>2. \A q \in p .. e - 1 : InTable(q) <=> size >= Least
  BY InRun
<1>3. /\ s \in Seq(1 .. n) /\ Len(s) \in Nat
      /\ \A i, j \in 1 .. Len(s) : i < j => s[i] < s[j]
      /\ \A q \in 1 .. n : (\E i \in 1 .. Len(s) : s[i] = q) <=> e <= q /\ InTable(q)
  BY DEF Lists
<1> SUFFICES Lists(t, p)
  OBVIOUS
<1> HIDE DEF e, n
<1>4. ASSUME NEW i \in 1 .. Len(s) PROVE s[i] \in 1 .. n /\ e <= s[i]
  <2>1. s[i] \in 1 .. n
    <3>1. s \in Seq(1 .. n)
      BY <1>3
    <3>2. QED
      BY <3>1, Element
  <2>2. \E j \in 1 .. Len(s) : s[j] = s[i]
    OBVIOUS
  <2>3. QED
    BY <1>3, <2>1, <2>2
<1>5. CASE size >= Least
  <2> DEFINE h == [i \in 1 .. size |-> p + i - 1]
  <2>1. size \in Nat
    BY <1>1
  <2>2. /\ h \in Seq(1 .. n) /\ Len(h) = size
        /\ \A i \in 1 .. size : h[i] = p + i - 1
    BY <1>1
  <2>3. t = h \o s
    BY <1>5
  <2> HIDE DEF h, t
  <2>4. /\ t \in Seq(1 .. n) /\ Len(t) = size + Len(s)
        /\ \A i \in 1 .. size : t[i] = p + i - 1
        /\ \A i \in size + 1 .. size + Len(s) : t[i] = s[i - size]
    <3>1. h \in Seq(1 .. n) /\ s \in Seq(1 .. n) /\ Len(h) = size
      BY <1>3, <2>2
    <3>2. /\ t \in Seq(1 .. n) /\ Len(t) = Len(h) + Len(s)
          /\ \A i \in 1 .. Len(h) : t[i] = h[i]
          /\ \A i \in Len(h) + 1 .. Len(h) + Len(s) : t[i] = s[i - Len(h)]
      BY <2>3, <3>1, Joined
    <3> HIDE DEF size
    <3>3. QED
      BY <2>2, <3>1, <3>2
  <2> HIDE DEF size
  <2>41. size = e - p
    BY DEF size
  <2>5. ASSUME NEW i \in 1 .. Len(t), NEW j \in 1 .. Len(t), i < j PROVE t[i] < t[j]
    <3>1. CASE j <= size
      BY <1>1, <2>1, <2>4, <2>41, <2>5, <3>1
    <3>2. CASE i > size
      <4>1. /\ i - size \in 1 .. Len(s) /\ j - size \in 1 .. Len(s)
            /\ i - size < j - size
        BY <1>3, <2>1, <2>4, <2>5, <3>2
      <4>2. i \in size + 1 .. size + Len(s) /\ j \in size + 1 .. size + Len(s)
        BY <1>3, <2>1, <2>4, <2>5, <3>2
      <4>3. t[i] = s[i - size] /\ t[j] = s[j - size]
        BY <2>4, <4>2
      <4>4. QED
        BY <1>3, <4>1, <4>3
    <3>3. CASE i <= size /\ j > size
      <4>0. /\ i \in 1 .. size /\ j \in size + 1 .. size + Len(s)
            /\ j - size \in 1 .. Len(s)
        BY <1>3, <2>1, <2>4, <2>5, <3>3
      <4>1. t[i] = p + i - 1 /\ t[j] = s[j - size] /\ j - size \in 1 .. Len(s)
        BY <2>4, <4>0
      <4>2. p + i - 1 < e /\ e <= s[j - size] /\ s[j - size] \in 1 .. n
        BY <1>1, <1>4, <2>1, <2>41, <3>3, <4>1
      <4>3. QED
        BY <1>1, <4>1, <4>2
    <3>4. QED
      BY <1>3, <2>1, <2>4, <2>5, <3>1, <3>2, <3>3
  <2>6. ASSUME NEW q \in 1 .. n
        PROVE  (\E i \in 1 .. Len(t) : t[i] = q) <=> p <= q /\ InTable(q)
    <3>1. CASE q < p
      <4>1. ASSUME NEW i \in 1 .. Len(t) PROVE t[i] # q
        <5>1. CASE i <= size
          BY <1>1, <2>1, <2>4, <2>41, <3>1, <5>1
        <5>2. CASE i > size
          <6>1. i - size \in 1 .. Len(s) /\ i \in size + 1 .. size + Len(s)
            BY <1>3, <2>1, <2>4, <5>2
          <6>2. t[i] = s[i - size] /\ e <= s[i - size] /\ s[i - size] \in 1 .. n
            BY <1>4, <2>4, <6>1
          <6>3. QED
            BY <1>1, <3>1, <6>2
        <5>3. QED
          BY <1>3, <2>1, <2>4, <5>1, <5>2
      <4>2. QED
        BY <1>1, <3>1, <4>1
    <3>2. CASE p <= q /\ q < e
      <4>1. q - p + 1 \in 1 .. size /\ p + (q - p + 1) - 1 = q
        BY <1>1, <2>41, <3>2
      <4>2. q - p + 1 \in 1 .. Len(t) /\ t[q - p + 1] = q
        BY <1>3, <2>1, <2>4, <4>1
      <4>3. InTable(q)
        BY <1>1, <1>2, <1>5, <2>41, <3>2
      <4>4. QED
        BY <3>2, <4>2, <4>3
    <3>3. CASE e <= q
      <4>1. ASSUME NEW i \in 1 .. Len(t), t[i] = q PROVE InTable(q)
        <5>1. i > size
          BY <1>1, <2>1, <2>4, <2>41, <3>3, <4>1
        <5>2. i - size \in 1 .. Len(s) /\ s[i - size] = q
          <6>1. i - size \in 1 .. Len(s) /\ i \in size + 1 .. size + Len(s)
            BY <1>3, <2>1, <2>4, <4>1, <5>1
          <6>2. QED
            BY <2>4, <4>1, <6>1
        <5>3. QED
          BY <1>3, <5>2
      <4>2. ASSUME InTable(q) PROVE \E i \in 1 .. Len(t) : t[i] = q
        <5>1. PICK i \in 1 .. Len(s) : s[i] = q
          BY <1>3, <3>3, <4>2
        <5>2. /\ i + size \in 1 .. Len(t) /\ i + size \in size + 1 .. size + Len(s)
              /\ (i + size) - size = i
          BY <1>3, <2>1, <2>4
        <5>3. t[i + size] = q
          BY <2>4, <5>1, <5>2
        <5>4. QED
          BY <5>2, <5>3
      <4>3. QED
        BY <1>1, <3>3, <4>1, <4>2
    <3>4. QED
      BY <1>1, <3>1, <3>2, <3>3
  <2>7. QED
    BY <2>4, <2>5, <2>6 DEF Lists, n
<1>6. CASE ~(size >= Least)
  <2>1. t = s
    <3>1. t = << >> \o s
      BY <1>6
    <3> HIDE DEF t
    <3>2. QED
      BY <1>3, <3>1
  <2> HIDE DEF t
  <2>2. ASSUME NEW q \in 1 .. n PROVE e <= q /\ InTable(q) <=> p <= q /\ InTable(q)
    BY <1>1, <1>2, <1>6
  <2>3. QED
    BY <1>3, <2>1, <2>2 DEF Lists, n
<1>7. QED
  BY <1>5, <1>6

\* The scan, as Slots defines it.
Scans(f, from) ==
  from = [p \in f .. Len(program) + 1 |->
            IF p > Len(program) THEN << >>
            ELSE IF program[p] \notin Functions THEN from[p + 1]
            ELSE LET size == RunEnd(p) - p
                 IN (IF size >= Least THEN [i \in 1 .. size |-> p + i - 1] ELSE << >>)
                    \o from[p + size]]

\* It can be told for one word more.
LEMMA ScansFurther ==
  ASSUME program \in Seq(Nat), NEW p \in 1 .. Len(program), \E from : Scans(p + 1, from)
  PROVE  \E from : Scans(p, from)
<1> DEFINE n == Len(program)
<1>1. PICK g : Scans(p + 1, g)
  OBVIOUS
<1> DEFINE Onward(h, q) ==
             IF q > n THEN << >>
             ELSE IF program[q] \notin Functions THEN h[q + 1]
             ELSE LET size == RunEnd(q) - q
                  IN (IF size >= Least THEN [i \in 1 .. size |-> q + i - 1] ELSE << >>)
                     \o h[q + size]
           f == [q \in p .. n + 1 |-> IF q = p THEN Onward(g, p) ELSE g[q]]
<1>2. n \in Nat /\ p \in 1 .. n
  OBVIOUS
<1>3. ASSUME NEW q \in p .. n + 1 PROVE Onward(f, q) = Onward(g, q)
  <2>1. CASE q > n
    BY <2>1
  <2>2. CASE q <= n
    <3>1. q + 1 \in p .. n + 1 /\ q + 1 # p
      BY <1>2, <2>2
    <3>2. CASE program[q] \notin Functions
      <4>1. f[q + 1] = g[q + 1]
        BY <3>1
      <4> HIDE DEF f
      <4>2. QED
        BY <3>2, <4>1
    <3>3. CASE program[q] \in Functions
      <4>1. /\ RunEnd(q) \in q .. n + 1 /\ RunEnd(q) # q
        <5>1. q \in 1 .. Len(program) + 1
          BY <1>2
        <5>2. /\ RunEnd(q) \in q .. n + 1
              /\ RunEnd(q) <= n => program[RunEnd(q)] \notin Functions
          BY <5>1, RunEnds
        <5>3. QED
          BY <1>2, <2>2, <3>3, <5>2
      <4>2. q + (RunEnd(q) - q) \in p .. n + 1 /\ q + (RunEnd(q) - q) # p
        BY <1>2, <2>2, <4>1
      <4>3. f[q + (RunEnd(q) - q)] = g[q + (RunEnd(q) - q)]
        BY <4>2
      <4> HIDE DEF f
      <4>4. QED
        BY <3>3, <4>3
    <3>4. QED
      BY <3>2, <3>3
  <2>3. QED
    BY <1>2, <2>1, <2>2
<1>4. ASSUME NEW q \in p + 1 .. n + 1 PROVE g[q] = Onward(g, q)
  BY <1>1 DEF Scans
<1>5. ASSUME NEW q \in p .. n + 1 PROVE f[q] = Onward(f, q)
  <2>1. f[q] = IF q = p THEN Onward(g, p) ELSE g[q]
    OBVIOUS
  <2> HIDE DEF Onward, f
  <2>2. CASE q = p
    BY <2>1, <2>2, <1>3
  <2>3. CASE q # p
    <3>1. q \in p + 1 .. n + 1
      BY <1>2, <2>3
    <3>2. QED
      BY <1>3, <1>4, <2>1, <2>3, <3>1
  <2>4. QED
    BY <2>2, <2>3
<1>6. f = [q \in p .. n + 1 |-> f[q]]
  OBVIOUS
<1>7. f = [q \in p .. n + 1 |-> Onward(f, q)]
  <2> HIDE DEF Onward, f
  <2>1. QED
    BY <1>5, <1>6
<1>8. Scans(p, f)
  <2> HIDE DEF f
  <2>1. QED
    BY <1>7 DEF Scans
<1>9. QED
  BY <1>8

LEMMA ScansAll ==
  ASSUME program \in Seq(Nat)
  PROVE  \E from : Scans(1, from)
<1> DEFINE n == Len(program)
           Bad == {k \in 0 .. n : ~ \E from : Scans(n + 1 - k, from)}
<1>1. n \in Nat /\ Bad \subseteq Nat
  OBVIOUS
<1>2. SUFFICES ASSUME Bad # {} PROVE FALSE
  <2>1. n \in 0 .. n /\ n + 1 - n = 1
    BY <1>1
  <2>2. QED
    BY <2>1
<1>3. PICK k \in Bad : \A j \in Bad : k <= j
  BY <1>1, <1>2, Smallest
<1>4. CASE k = 0
  <2> DEFINE g == [q \in n + 1 .. n + 1 |-> << >>]
  <2>1. Scans(n + 1, g)
    <3>1. \A q \in n + 1 .. n + 1 : q > n
      BY <1>1
    <3>2. QED
      BY <3>1 DEF Scans
  <2>2. n + 1 - k = n + 1
    BY <1>1, <1>4
  <2> HIDE DEF g
  <2>3. QED
    BY <1>3, <2>1, <2>2
<1>5. CASE k # 0
  <2>1. k \in 0 .. n /\ k - 1 \in 0 .. n /\ k - 1 < k /\ n + 1 - k \in 1 .. n
        /\ n + 1 - (k - 1) = (n + 1 - k) + 1
    BY <1>1, <1>3, <1>5
  <2>2. k - 1 \notin Bad
    BY <1>1, <1>3, <2>1
  <2>3. \E from : Scans((n + 1 - k) + 1, from)
    BY <2>1, <2>2
  <2>4. \E from : Scans(n + 1 - k, from)
    BY <2>1, <2>3, ScansFurther
  <2>5. QED
    BY <1>3, <2>4
<1>6. QED
  BY <1>4, <1>5

\* The scan lists the words of tables in order.
LEMMA SlotsListed ==
  ASSUME program \in Seq(Nat), run \in Int
  PROVE  Lists(Slots, 1)
<1> DEFINE n == Len(program)
           from == CHOOSE g : Scans(1, g)
           Bad == {k \in 0 .. n : Edge(n + 1 - k) /\ ~Lists(from[n + 1 - k], n + 1 - k)}
<1>1. Scans(1, from)
  BY ScansAll
<1>2. Slots = from[1]
  BY DEF Slots, Scans
<1> HIDE DEF from
<1>3. n \in Nat /\ Bad \subseteq Nat
  OBVIOUS
<1>4. ASSUME Bad # {} PROVE FALSE
  <2>1. PICK k \in Bad : \A j \in Bad : k <= j
    BY <1>3, <1>4, Smallest
  <2> DEFINE p == n + 1 - k
  <2>2. /\ p \in 1 .. n + 1 /\ Edge(p) /\ ~Lists(from[p], p) /\ k \in 0 .. n
    BY <1>3, <2>1
  <2>3. from[p] = IF p > n THEN << >>
            ELSE IF program[p] \notin Functions THEN from[p + 1]
            ELSE LET size == RunEnd(p) - p
                 IN (IF size >= Least THEN [i \in 1 .. size |-> p + i - 1] ELSE << >>)
                    \o from[p + size]
    BY <1>1, <2>2 DEF Scans
  <2>4. ASSUME NEW q \in p + 1 .. n + 1, Edge(q) PROVE Lists(from[q], q)
    <3>1. /\ n + 1 - q \in 0 .. n /\ n + 1 - (n + 1 - q) = q
          /\ n + 1 - q < k
      BY <1>3, <2>2
    <3>2. n + 1 - q \notin Bad
      BY <1>3, <2>1, <2>2, <3>1
    <3>3. QED
      BY <2>4, <3>1, <3>2
  <2> HIDE DEF Bad
  <2>5. CASE p > n
    <3>1. p = Len(program) + 1
      BY <1>3, <2>2, <2>5
    <3>2. QED
      BY <2>2, <2>3, <2>5, <3>1, ListsNone
  <2>6. CASE p <= n /\ program[p] \notin Functions
    <3>1. p \in 1 .. n /\ p + 1 \in p + 1 .. n + 1 /\ ~(p > n) /\ (p + 1) - 1 = p
      BY <1>3, <2>2, <2>6
    <3>2. Edge(p + 1)
      BY <2>6, <3>1 DEF Edge
    <3>3. Lists(from[p + 1], p + 1)
      BY <2>4, <3>1, <3>2
    <3> HIDE DEF p
    <3>4. Lists(from[p + 1], p)
      BY <2>6, <3>1, <3>3, ListsSkip
    <3>5. QED
      BY <2>2, <2>3, <2>6, <3>1, <3>4
  <2>7. CASE p <= n /\ program[p] \in Functions
    <3> DEFINE e == RunEnd(p)
    <3>1. p \in 1 .. n /\ ~(p > n)
      BY <1>3, <2>2, <2>7
    <3>2. /\ e \in p .. n + 1
          /\ e <= n => program[e] \notin Functions
      BY <2>2, RunEnds
    <3> HIDE DEF p
    <3>3. e # p /\ e \in p + 1 .. n + 1 /\ p + (e - p) = e
      <4> HIDE DEF e
      <4>1. e # p
        BY <2>7, <3>1, <3>2
      <4>2. QED
        BY <1>3, <3>1, <3>2, <4>1
    <3>4. Edge(e)
      BY <1>3, <3>2, <3>3 DEF Edge
    <3>5. Lists(from[e], e)
      BY <2>4, <3>3, <3>4
    <3>6. Lists((IF e - p >= Least THEN [i \in 1 .. e - p |-> p + i - 1] ELSE << >>) \o from[e], p)
      BY <2>2, <2>7, <3>1, <3>5, ListsRun
    <3>7. from[p] = (IF e - p >= Least THEN [i \in 1 .. e - p |-> p + i - 1] ELSE << >>) \o from[e]
      BY <2>3, <2>7, <3>1, <3>3
    <3> HIDE DEF e
    <3>8. QED
      BY <2>2, <3>6, <3>7
  <2>8. QED
    BY <1>3, <2>2, <2>5, <2>6, <2>7
<1>5. n \in 0 .. n /\ n + 1 - n = 1 /\ Edge(1)
  BY <1>3 DEF Edge
<1>6. Lists(from[1], 1)
  BY <1>4, <1>5
<1>7. QED
  BY <1>2, <1>6

\* The n-th slot of the scan is the n-th word of all tables.
LEMMA RankIs ==
  ASSUME program \in Seq(Nat), NEW s, Lists(s, 1), NEW n \in 1 .. Len(s)
  PROVE  Rank(s[n]) = n
<1> DEFINE S == {q \in 1 .. s[n] : InTable(q)}
           f == [i \in 1 .. n |-> s[i]]
<1>1. /\ Len(s) \in Nat /\ Len(program) \in Nat
      /\ \A i \in 1 .. Len(s) : s[i] \in 1 .. Len(program) /\ InTable(s[i])
      /\ \A i, j \in 1 .. Len(s) : i < j => s[i] < s[j]
  <2>1. s \in Seq(1 .. Len(program))
    BY DEF Lists
  <2>2. ASSUME NEW i \in 1 .. Len(s) PROVE s[i] \in 1 .. Len(program) /\ InTable(s[i])
    <3>1. s[i] \in 1 .. Len(program)
      BY <2>1, Element
    <3>2. \E j \in 1 .. Len(s) : s[j] = s[i]
      OBVIOUS
    <3>3. QED
      BY <3>1, <3>2 DEF Lists
  <2>3. Len(s) \in Nat /\ Len(program) \in Nat
    BY <2>1
  <2>4. QED
    BY <2>2, <2>3 DEF Lists
<1>2. ASSUME NEW i \in 1 .. n PROVE s[i] \in S
  <2>1. i \in 1 .. Len(s) /\ (i = n \/ i < n)
    BY <1>1
  <2>2. s[i] <= s[n] /\ s[i] \in 1 .. Len(program) /\ s[n] \in 1 .. Len(program)
    BY <1>1, <2>1
  <2>3. QED
    BY <1>1, <2>1, <2>2
<1>3. ASSUME NEW q \in S PROVE \E i \in 1 .. n : s[i] = q
  <2>1. q \in 1 .. Len(program) /\ q <= s[n] /\ InTable(q) /\ 1 <= q
    BY <1>1
  <2>2. PICK i \in 1 .. Len(s) : s[i] = q
    BY <2>1 DEF Lists
  <2>3. ~(n < i)
    <3>1. n < i => s[n] < s[i]
      BY <1>1
    <3>2. s[n] \in 1 .. Len(program)
      BY <1>1
    <3>3. QED
      BY <2>1, <2>2, <3>1, <3>2
  <2>4. QED
    BY <1>1, <2>2, <2>3
<1>4. ASSUME NEW i \in 1 .. n, NEW j \in 1 .. n, s[i] = s[j] PROVE i = j
  <2>1. i \in 1 .. Len(s) /\ j \in 1 .. Len(s) /\ i \in Int /\ j \in Int
    BY <1>1
  <2>2. /\ i < j => s[i] < s[j]
        /\ j < i => s[j] < s[i]
    BY <1>1, <2>1
  <2>3. s[i] \in 1 .. Len(program) /\ s[j] \in 1 .. Len(program)
    BY <1>1, <2>1
  <2>4. QED
    BY <1>1, <1>4, <2>1, <2>2, <2>3
<1> HIDE DEF S
<1>5. f \in Bijection(1 .. n, S)
  <2>1. /\ f \in [1 .. n -> S]
        /\ \A i \in 1 .. n : f[i] = s[i]
    BY <1>2
  <2> HIDE DEF f
  <2>2. \A a, b \in 1 .. n : f[a] = f[b] => a = b
    BY <1>4, <2>1
  <2>3. \A q \in S : \E i \in 1 .. n : f[i] = q
    BY <1>3, <2>1
  <2>4. QED
    BY <2>1, <2>2, <2>3 DEF Bijection, Injection, Surjection, IsInjective
<1>6. IsFiniteSet(1 .. n) /\ Cardinality(1 .. n) = n
  BY <1>1, FS_Interval
<1>7. ExistsBijection(1 .. n, S)
  BY <1>5 DEF ExistsBijection
<1>8. Cardinality(S) = Cardinality(1 .. n)
  BY <1>6, <1>7, FS_Bijection
<1>9. QED
  BY <1>6, <1>8 DEF Rank, S

\* A word of a table is the slot of its rank.
LEMMA SlotOfRank ==
  ASSUME program \in Seq(Nat), NEW s, Lists(s, 1), NEW q \in 1 .. Len(program), InTable(q)
  PROVE  Rank(q) \in 1 .. Len(s) /\ s[Rank(q)] = q
<1>1. 1 <= q
  OBVIOUS
<1>2. PICK i \in 1 .. Len(s) : s[i] = q
  BY <1>1 DEF Lists
<1>3. Rank(q) = i
  BY <1>2, RankIs
<1>4. QED
  BY <1>2, <1>3

----------------------------------------------------------------------------
(* The routing of the slots. *)

Lo == IF window[1] < 0 THEN 0 ELSE window[1]
\* How many of the first m slots were routed.
Gone(m) ==
  IF m <= Lo THEN 0 ELSE IF m <= window[2] THEN m - Lo
  ELSE IF Lo < window[2] THEN window[2] - Lo ELSE 0

LEMMA GoneNext ==
  ASSUME window \in Int \X Int, NEW m \in Nat \ {0}
  PROVE  /\ Gone(m) \in Nat /\ Gone(m - 1) \in Nat
         /\ RoutesSlot(m) => Gone(m) = Gone(m - 1) + 1 /\ Gone(m - 1) = m - 1 - Lo
         /\ ~RoutesSlot(m) => Gone(m) = Gone(m - 1)
<1>1. window[1] \in Int /\ window[2] \in Int
  OBVIOUS
<1>2. QED
  BY <1>1 DEF Gone, Lo, RoutesSlot

\* The words and the pool after the first m slots.
RoutedSlot(slots, st, k) ==
  LET d == (k - 1 - Lo) * StubBytes
  IN IF RoutesSlot(k) /\ Fits(d)
       THEN /\ d \in DOMAIN st.pool /\ st.pool[d] = program[slots[k]]
            /\ st.words[slots[k]] = PoolAt + d
       ELSE st.words[slots[k]] = program[slots[k]]

RoutedFirst(slots, st, m) ==
  /\ st.off = Gone(m) * StubBytes /\ st.off \in Nat
  /\ DOMAIN st.words = DOMAIN program
  /\ DOMAIN st.pool \subseteq 0 .. st.off - 1
  /\ \A k \in 1 .. m : RoutedSlot(slots, st, k)
  /\ \A p \in DOMAIN program : (\A k \in 1 .. m : slots[k] # p) => st.words[p] = program[p]

LEMMA RoutedNext ==
  ASSUME program \in Seq(Nat), window \in Int \X Int, NEW slots, Lists(slots, 1),
         NEW m \in 1 .. Len(slots), NEW st, RoutedFirst(slots, st, m - 1)
  PROVE  RoutedFirst(slots, IF RoutesSlot(m) THEN RouteSlot(st, slots[m]) ELSE st, m)
<1> USE ThunksAssumption
<1> DEFINE p == slots[m]
<1>1. /\ m \in Nat \ {0} /\ Len(slots) \in Nat
      /\ p \in DOMAIN program
      /\ \A k \in 1 .. m - 1 : slots[k] # p /\ slots[k] \in DOMAIN program
  <2>1. slots \in Seq(1 .. Len(program)) /\ DOMAIN program = 1 .. Len(program)
    BY DEF Lists
  <2>2. \A k \in 1 .. Len(slots) : slots[k] \in 1 .. Len(program)
    BY <2>1, Element
  <2>3. ASSUME NEW k \in 1 .. m - 1 PROVE slots[k] # p /\ k \in 1 .. Len(slots)
    <3>1. k \in 1 .. Len(slots) /\ k < m /\ m \in 1 .. Len(slots)
      BY <2>1
    <3>2. slots[k] < slots[m]
      BY <3>1 DEF Lists
    <3>3. slots[k] \in Int /\ slots[m] \in Int
      BY <2>2, <3>1
    <3>4. QED
      BY <3>1, <3>2, <3>3
  <2>4. m \in Nat \ {0} /\ Len(slots) \in Nat /\ m \in 1 .. Len(slots)
    BY <2>1
  <2>5. p \in DOMAIN program
    BY <2>1, <2>2
  <2>6. \A k \in 1 .. m - 1 : slots[k] # p /\ slots[k] \in DOMAIN program
    BY <2>1, <2>2, <2>3
  <2>7. QED
    BY <2>4, <2>5, <2>6
<1>2. /\ Gone(m) \in Nat /\ Gone(m - 1) \in Nat
      /\ RoutesSlot(m) => Gone(m) = Gone(m - 1) + 1 /\ Gone(m - 1) = m - 1 - Lo
      /\ ~RoutesSlot(m) => Gone(m) = Gone(m - 1)
  BY <1>1, GoneNext
<1>3. /\ st.off = Gone(m - 1) * StubBytes /\ st.off \in Nat
      /\ DOMAIN st.words = DOMAIN program
      /\ DOMAIN st.pool \subseteq 0 .. st.off - 1
      /\ \A k \in 1 .. m - 1 : RoutedSlot(slots, st, k)
      /\ \A q \in DOMAIN program :
           (\A k \in 1 .. m - 1 : slots[k] # q) => st.words[q] = program[q]
  BY DEF RoutedFirst
<1>4. st.words[p] = program[p]
  BY <1>1, <1>3
<1>5. ASSUME NEW q \in DOMAIN program, \A k \in 1 .. m : slots[k] # q
      PROVE  st.words[q] = program[q] /\ q # p
  BY <1>1, <1>3, <1>5
<1>6. RoutesSlot(m) => (m - 1 - Lo) * StubBytes = st.off
  BY <1>2, <1>3
<1>7. RoutesSlot(m) => Gone(m) * StubBytes = st.off + StubBytes
  <2>1. ASSUME NEW g \in Nat PROVE (g + 1) * StubBytes = g * StubBytes + StubBytes
    OBVIOUS
  <2>2. QED
    BY <1>2, <1>3, <2>1
<1>8. CASE ~RoutesSlot(m)
  <2>1. RoutedSlot(slots, st, m)
    BY <1>4, <1>8 DEF RoutedSlot
  <2>2. \A k \in 1 .. m : RoutedSlot(slots, st, k)
    <3>1. \A k \in 1 .. m : k \in 1 .. m - 1 \/ k = m
      BY <1>1
    <3>2. QED
      BY <1>3, <2>1, <3>1
  <2>3. QED
    BY <1>2, <1>3, <1>5, <1>8, <2>2 DEF RoutedFirst
<1>9. CASE RoutesSlot(m) /\ ~Fits(st.off)
  <2> DEFINE r == RouteSlot(st, p)
  <2>1. r = [st EXCEPT !.off = st.off + StubBytes]
    BY <1>9 DEF RouteSlot
  <2>2. /\ r.words = st.words /\ r.pool = st.pool
        /\ r.off = st.off + StubBytes
    BY <2>1
  <2> HIDE DEF r
  <2>3. RoutedSlot(slots, r, m)
    BY <1>4, <1>6, <1>9, <2>2 DEF RoutedSlot
  <2>4. ASSUME NEW k \in 1 .. m PROVE RoutedSlot(slots, r, k)
    <3>1. k \in 1 .. m - 1 \/ k = m
      BY <1>1
    <3>2. k \in 1 .. m - 1 => RoutedSlot(slots, st, k)
      BY <1>3
    <3>3. QED
      BY <2>2, <2>3, <3>1, <3>2 DEF RoutedSlot
  <2>5. r.off = Gone(m) * StubBytes /\ r.off \in Nat /\ DOMAIN r.pool \subseteq 0 .. r.off - 1
    BY <1>3, <1>7, <1>9, <2>2
  <2>6. RoutedFirst(slots, r, m)
    BY <1>3, <1>5, <2>2, <2>4, <2>5 DEF RoutedFirst
  <2>7. QED
    BY <1>9, <2>6 DEF r
<1>10. CASE RoutesSlot(m) /\ Fits(st.off)
  <2> DEFINE r == RouteSlot(st, p)
             d == st.off
  <2>1. r = [off |-> d + StubBytes, words |-> [st.words EXCEPT ![p] = PoolAt + d],
             pool |-> With(st.pool, d, program[p])]
    BY <1>10 DEF RouteSlot
  <2>2. /\ r.off = d + StubBytes /\ DOMAIN r.words = DOMAIN program
        /\ r.words[p] = PoolAt + d
        /\ \A q \in DOMAIN program \ {p} : r.words[q] = st.words[q]
    BY <1>1, <1>3, <2>1
  <2>3. /\ DOMAIN r.pool = DOMAIN st.pool \cup {d} /\ r.pool[d] = program[p]
        /\ \A x \in DOMAIN st.pool \ {d} : r.pool[x] = st.pool[x]
    BY <2>1 DEF With
  <2>4. d \notin DOMAIN st.pool /\ d \in Nat
    BY <1>3
  <2> HIDE DEF r, d
  <2>5. RoutedSlot(slots, r, m)
    <3>1. (m - 1 - Lo) * StubBytes = d
      BY <1>6, <1>10 DEF d
    <3>2. QED
      BY <1>10, <2>2, <2>3, <3>1 DEF RoutedSlot, d
  <2>6. ASSUME NEW k \in 1 .. m - 1 PROVE RoutedSlot(slots, r, k)
    <3>1. RoutedSlot(slots, st, k) /\ r.words[slots[k]] = st.words[slots[k]]
      BY <1>1, <1>3, <2>2
    <3>2. \A x \in DOMAIN st.pool : x \in DOMAIN r.pool /\ r.pool[x] = st.pool[x]
      BY <2>3, <2>4
    <3>3. QED
      BY <3>1, <3>2 DEF RoutedSlot
  <2>7. \A k \in 1 .. m : RoutedSlot(slots, r, k)
    <3>1. \A k \in 1 .. m : k \in 1 .. m - 1 \/ k = m
      BY <1>1
    <3>2. QED
      BY <2>5, <2>6, <3>1
  <2>8. r.off = Gone(m) * StubBytes /\ r.off \in Nat
    BY <1>7, <1>10, <2>2, <2>4 DEF d
  <2>9. DOMAIN r.pool \subseteq 0 .. r.off - 1
    BY <1>3, <2>2, <2>3, <2>4 DEF d
  <2>10. RoutedFirst(slots, r, m)
    BY <1>5, <2>2, <2>7, <2>8, <2>9 DEF RoutedFirst
  <2>11. QED
    BY <1>10, <2>10 DEF r
<1>11. QED
  BY <1>8, <1>9, <1>10

\* The routing, as Routed defines it.
Routes(slots, n, after) ==
  after = [m \in 0 .. n |->
             IF m = 0 THEN [off |-> 0, words |-> program, pool |-> << >>]
             ELSE IF RoutesSlot(m) THEN RouteSlot(after[m - 1], slots[m])
             ELSE after[m - 1]]

LEMMA RoutesExist ==
  ASSUME NEW slots, NEW n \in Nat
  PROVE  \E after : Routes(slots, n, after)
<1> DEFINE Bad == {k \in Nat : ~ \E after : Routes(slots, k, after)}
           First == [off |-> 0, words |-> program, pool |-> << >>]
           Nth(g, m) == IF RoutesSlot(m) THEN RouteSlot(g[m - 1], slots[m]) ELSE g[m - 1]
<1>1. ASSUME Bad # {} PROVE FALSE
  <2>1. PICK k \in Bad : \A j \in Bad : k <= j
    BY <1>1, Smallest
  <2>2. CASE k = 0
    <3> DEFINE g == [m \in 0 .. 0 |-> First]
    <3>1. g = [m \in 0 .. 0 |-> IF m = 0 THEN First ELSE Nth(g, m)]
      OBVIOUS
    <3> HIDE DEF g
    <3>2. Routes(slots, 0, g)
      BY <3>1 DEF Routes
    <3>3. QED
      BY <2>1, <2>2, <3>2
  <2>3. CASE k # 0
    <3>1. k \in Nat /\ k - 1 \in Nat /\ ~(k <= k - 1)
      BY <2>1, <2>3
    <3>2. PICK g : Routes(slots, k - 1, g)
      BY <2>1, <3>1
    <3> DEFINE f == [m \in 0 .. k |-> IF m = k THEN Nth(g, k) ELSE g[m]]
    <3>3. ASSUME NEW m \in 0 .. k - 1 PROVE g[m] = IF m = 0 THEN First ELSE Nth(g, m)
      BY <3>2 DEF Routes
    <3>4. ASSUME NEW m \in 0 .. k, m # 0 PROVE Nth(f, m) = Nth(g, m)
      <4>1. m - 1 \in 0 .. k /\ m - 1 # k
        BY <3>1, <3>4
      <4>2. f[m - 1] = g[m - 1]
        BY <4>1
      <4> HIDE DEF f
      <4>3. QED
        BY <4>2
    <3>5. ASSUME NEW m \in 0 .. k PROVE f[m] = IF m = 0 THEN First ELSE Nth(f, m)
      <4>1. f[m] = IF m = k THEN Nth(g, k) ELSE g[m]
        OBVIOUS
      <4> HIDE DEF f, Nth, First
      <4>2. CASE m = k
        BY <2>3, <3>4, <4>1, <4>2
      <4>3. CASE m # k
        <5>1. m \in 0 .. k - 1
          BY <3>1, <4>3
        <5>2. QED
          BY <3>3, <3>4, <4>1, <4>3, <5>1
      <4>4. QED
        BY <4>2, <4>3
    <3>6. f = [m \in 0 .. k |-> f[m]]
      OBVIOUS
    <3>7. f = [m \in 0 .. k |-> IF m = 0 THEN First ELSE Nth(f, m)]
      <4> HIDE DEF f, Nth, First
      <4>1. QED
        BY <3>5, <3>6
    <3>8. Routes(slots, k, f)
      <4> HIDE DEF f
      <4>1. QED
        BY <3>7 DEF Routes
    <3>9. QED
      BY <2>1, <3>8
  <2>4. QED
    BY <2>2, <2>3
<1>2. QED
  BY <1>1

LEMMA RoutedAll ==
  ASSUME program \in Seq(Nat), window \in Int \X Int, NEW slots, Lists(slots, 1)
  PROVE  RoutedFirst(slots, Routed(slots, Len(slots)), Len(slots))
<1> DEFINE n == Len(slots)
           after == CHOOSE g : Routes(slots, n, g)
           Bad == {k \in 0 .. n : ~RoutedFirst(slots, after[k], k)}
<1>1. n \in Nat
  BY DEF Lists
<1>2. Routes(slots, n, after)
  BY <1>1, RoutesExist
<1>3. Routed(slots, n) = after[n]
  BY DEF Routed, Routes
<1> HIDE DEF after, n
<1>4. ASSUME Bad # {} PROVE FALSE
  <2>1. Bad \subseteq Nat
    BY <1>1
  <2>2. PICK k \in Bad : \A j \in Bad : k <= j
    BY <1>4, <2>1, Smallest
  <2>3. after[k] = IF k = 0 THEN [off |-> 0, words |-> program, pool |-> << >>]
             ELSE IF RoutesSlot(k) THEN RouteSlot(after[k - 1], slots[k])
             ELSE after[k - 1]
    BY <1>2, <2>2 DEF Routes
  <2>4. CASE k = 0
    <3> DEFINE z == [off |-> 0, words |-> program, pool |-> << >>]
    <3>1. z.off = 0 /\ z.words = program /\ z.pool = << >> /\ DOMAIN z.pool = {}
      OBVIOUS
    <3> HIDE DEF z
    <3>2. Gone(0) = 0
      BY DEF Gone, Lo
    <3>3. 0 * StubBytes = 0
      BY ThunksAssumption
    <3>4. RoutedFirst(slots, z, 0)
      BY <3>1, <3>2, <3>3 DEF RoutedFirst
    <3>5. QED
      BY <2>2, <2>3, <2>4, <3>4 DEF z
  <2>5. CASE k # 0
    <3>1. k \in 1 .. Len(slots) /\ k - 1 \in 0 .. n /\ ~(k <= k - 1)
      BY <1>1, <2>2, <2>5 DEF n
    <3>2. RoutedFirst(slots, after[k - 1], k - 1)
      BY <2>2, <3>1
    <3>3. RoutedFirst(slots, IF RoutesSlot(k) THEN RouteSlot(after[k - 1], slots[k])
                             ELSE after[k - 1], k)
      BY <3>1, <3>2, RoutedNext
    <3>4. QED
      BY <2>2, <2>3, <2>5, <3>3
  <2>6. QED
    BY <2>4, <2>5
<1>5. n \in 0 .. n
  BY <1>1
<1>6. RoutedFirst(slots, after[n], n)
  BY <1>4, <1>5
<1>7. QED
  BY <1>3, <1>6 DEF n

----------------------------------------------------------------------------
(* The thunks. *)

\* The words of the data: thunks where the routing put one.
DataHold(w, stubs) ==
  \A p \in DOMAIN program :
    LET d == RoutedBefore(p) * StubBytes
    IN IF InTable(p) /\ RoutesSlot(Rank(p)) /\ Fits(d)
         THEN d \in DOMAIN stubs /\ stubs[d] = program[p] /\ w[p] = PoolAt + d
         ELSE w[p] = program[p]

SlotsHold(ova, n) ==
  \A p \in DOMAIN program :
    InTable(p) => /\ Rank(p) <= n
                  /\ Rank(p) <= MaxSlots => ova[Rank(p)] = program[p]

\* Every stub that is written or drawn is of one thread, and what is handed out
\* is written.
ThunksInv ==
  /\ program \in Programs /\ run \in MinRuns /\ window \in Windows
  /\ routed \in BOOLEAN /\ g_pool_off \in Nat
  /\ DOMAIN pool \subseteq 0 .. g_pool_off - 1
  /\ DOMAIN drawing = Minters
  /\ \A t \in Minters : drawing[t] # Nothing =>
       drawing[t].off \in 0 .. g_pool_off - 1 /\ drawing[t].off \notin DOMAIN pool
  /\ \A t, u \in Minters :
       t # u /\ drawing[t] # Nothing /\ drawing[u] # Nothing => drawing[t].off # drawing[u].off
  /\ \A h \in handed : \E d \in DOMAIN pool : h = [addr |-> PoolAt + d, ova |-> pool[d]]
  /\ ~routed => /\ words = program /\ handed = {}
                /\ \A t \in Minters : drawing[t] = Nothing
  /\ routed => DataHold(words, pool) /\ SlotsHold(g_slot_ova, g_nslots)

LEMMA ThunksTypes ==
  ASSUME program \in Programs, run \in MinRuns, window \in Windows
  PROVE  program \in Seq(Nat) /\ run \in Int /\ window \in Int \X Int
BY ThunksAssumption

\* What the data and the slots hold does not change with the pool, as long as
\* no stub is rewritten.
LEMMA DataKept ==
  ASSUME NEW w, NEW f, NEW g, DataHold(w, f), DOMAIN f \subseteq DOMAIN g,
         \A d \in DOMAIN f : g[d] = f[d]
  PROVE  DataHold(w, g)
BY DEF DataHold

LEMMA SameTables ==
  ASSUME UNCHANGED <<program, run, window>>
  PROVE  /\ \A p : InTable(p)' <=> InTable(p)
         /\ \A p : Rank(p)' = Rank(p)
         /\ \A p : RoutedBefore(p)' = RoutedBefore(p)
         /\ \A n : RoutesSlot(n)' <=> RoutesSlot(n)
<1>1. ASSUME NEW p PROVE InTable(p)' <=> InTable(p)
  BY DEF InTable, Least
<1>2. ASSUME NEW p PROVE Rank(p)' = Rank(p)
  <2>1. {q \in 1 .. p : InTable(q)}' = {q \in 1 .. p : InTable(q)}
    BY <1>1
  <2>2. QED
    BY <2>1 DEF Rank
<1>3. QED
  BY <1>1, <1>2 DEF RoutedBefore, RoutesSlot

LEMMA DataNext ==
  ASSUME UNCHANGED <<program, run, window>>, DataHold(words', pool'),
         SlotsHold(g_slot_ova', g_nslots')
  PROVE  DataHold(words, pool)' /\ SlotsHold(g_slot_ova, g_nslots)'
BY SameTables DEF DataHold, SlotsHold

\* A thread draws a stub behind all others.
LEMMA DrawHolds ==
  ASSUME ThunksInv, NEW t \in Minters, Draw(t)
  PROVE  ThunksInv'
<1> USE ThunksAssumption
<1>1. PICK ova \in Functions : drawing' = [drawing EXCEPT ![t] = [off |-> g_pool_off, ova |-> ova]]
  BY DEF Draw
<1>2. /\ routed /\ g_pool_off' = g_pool_off + StubBytes
      /\ UNCHANGED <<program, run, window, routed, words, pool, handed, g_slot_ova, g_nslots>>
  BY DEF Draw, DrawsTo
<1>3. /\ DOMAIN drawing' = Minters /\ drawing'[t].off = g_pool_off
      /\ \A u \in Minters \ {t} : drawing'[u] = drawing[u]
  BY <1>1 DEF ThunksInv
<1>4. g_pool_off \in Nat /\ g_pool_off' \in Nat /\ g_pool_off < g_pool_off'
      /\ DOMAIN pool \subseteq 0 .. g_pool_off - 1
  BY <1>2 DEF ThunksInv
<1>5. ASSUME NEW u \in Minters, drawing'[u] # Nothing
      PROVE  drawing'[u].off \in 0 .. g_pool_off' - 1 /\ drawing'[u].off \notin DOMAIN pool
  <2>1. CASE u = t
    BY <1>3, <1>4, <2>1
  <2>2. CASE u # t
    BY <1>3, <1>4, <1>5, <2>2 DEF ThunksInv
  <2>3. QED
    BY <2>1, <2>2
<1>6. ASSUME NEW u \in Minters, NEW v \in Minters, u # v, drawing'[u] # Nothing,
             drawing'[v] # Nothing
      PROVE  drawing'[u].off # drawing'[v].off
  <2>1. \A x \in Minters \ {t} : drawing'[x] # Nothing => drawing'[x].off \in 0 .. g_pool_off - 1
    BY <1>3 DEF ThunksInv
  <2>2. CASE u = t
    BY <1>3, <1>4, <1>6, <2>1, <2>2
  <2>3. CASE v = t
    BY <1>3, <1>4, <1>6, <2>1, <2>3
  <2>4. CASE u # t /\ v # t
    BY <1>3, <1>6, <2>4 DEF ThunksInv
  <2>5. QED
    BY <2>2, <2>3, <2>4
<1>7. DataHold(words, pool)' /\ SlotsHold(g_slot_ova, g_nslots)'
  BY <1>2, DataNext DEF ThunksInv
<1>8. QED
  BY <1>2, <1>3, <1>4, <1>5, <1>6, <1>7 DEF ThunksInv

\* It writes the stub it drew.
LEMMA MintHolds ==
  ASSUME ThunksInv, NEW t \in Minters, Mint(t)
  PROVE  ThunksInv'
<1> DEFINE d == drawing[t].off
           f == drawing[t].ova
<1>1. /\ UNCHANGED <<program, run, window, routed, words, g_pool_off, g_slot_ova, g_nslots>>
      /\ drawing' = [drawing EXCEPT ![t] = Nothing] /\ drawing[t] # Nothing
  BY DEF Mint
<1>2. \/ /\ pool' = With(pool, d, f)
         /\ handed' = handed \cup {[addr |-> PoolAt + d, ova |-> f]}
      \/ UNCHANGED <<pool, handed>>
  BY DEF Mint
<1>3. d \in 0 .. g_pool_off - 1 /\ d \notin DOMAIN pool /\ g_pool_off \in Nat /\ routed
  BY <1>1 DEF ThunksInv
<1>4. /\ DOMAIN drawing' = Minters /\ drawing'[t] = Nothing
      /\ \A u \in Minters \ {t} : drawing'[u] = drawing[u] /\ (drawing[u] # Nothing => drawing[u].off # d)
  BY <1>1 DEF ThunksInv
<1> HIDE DEF d, f
<1>5. /\ DOMAIN pool \subseteq DOMAIN pool' /\ DOMAIN pool' \subseteq DOMAIN pool \cup {d}
      /\ \A x \in DOMAIN pool : pool'[x] = pool[x]
      /\ \A h \in handed' \ handed : d \in DOMAIN pool' /\ h = [addr |-> PoolAt + d, ova |-> pool'[d]]
  <2>1. CASE UNCHANGED <<pool, handed>>
    BY <2>1
  <2>2. CASE /\ pool' = With(pool, d, f)
             /\ handed' = handed \cup {[addr |-> PoolAt + d, ova |-> f]}
    <3>1. /\ DOMAIN pool' = DOMAIN pool \cup {d} /\ pool'[d] = f
          /\ \A x \in DOMAIN pool : pool'[x] = pool[x]
      BY <1>3, <2>2 DEF With
    <3>2. QED
      BY <2>2, <3>1
  <2>3. QED
    BY <1>2, <2>1, <2>2
<1>6. DOMAIN pool' \subseteq 0 .. g_pool_off - 1
  BY <1>3, <1>5 DEF ThunksInv
<1>7. ASSUME NEW u \in Minters, drawing'[u] # Nothing
      PROVE  drawing'[u].off \in 0 .. g_pool_off - 1 /\ drawing'[u].off \notin DOMAIN pool'
  BY <1>4, <1>5, <1>7 DEF ThunksInv
<1>8. ASSUME NEW u \in Minters, NEW v \in Minters, u # v, drawing'[u] # Nothing,
             drawing'[v] # Nothing
      PROVE  drawing'[u].off # drawing'[v].off
  BY <1>4, <1>8 DEF ThunksInv
<1>9. ASSUME NEW h \in handed'
      PROVE  \E x \in DOMAIN pool' : h = [addr |-> PoolAt + x, ova |-> pool'[x]]
  <2>1. CASE h \in handed
    <3>1. PICK x \in DOMAIN pool : h = [addr |-> PoolAt + x, ova |-> pool[x]]
      BY <2>1 DEF ThunksInv
    <3>2. QED
      BY <1>5, <3>1
  <2>2. QED
    BY <1>5, <1>9, <2>1
<1>10. DataHold(words, pool)' /\ SlotsHold(g_slot_ova, g_nslots)'
  <2>1. DataHold(words, pool')
    BY <1>3, <1>5, DataKept DEF ThunksInv
  <2>2. QED
    BY <1>1, <1>3, <2>1, DataNext DEF ThunksInv
<1>11. QED
  BY <1>1, <1>3, <1>4, <1>6, <1>7, <1>8, <1>9, <1>10 DEF ThunksInv

\* The routing puts every word of a table in the window through its thunk.
LEMMA RouteHolds ==
  ASSUME ThunksInv, hybrid_route_fnptr_slots
  PROVE  ThunksInv'
<1> USE ThunksAssumption
<1> DEFINE slots == Slots
           n == Len(slots)
           all == Routed(slots, n)
           most == IF n < MaxSlots THEN n ELSE MaxSlots
<1>1. program \in Seq(Nat) /\ run \in Int /\ window \in Int \X Int
  BY ThunksTypes DEF ThunksInv
<1>2. Lists(slots, 1)
  BY <1>1, SlotsListed
<1>3. RoutedFirst(slots, all, n)
  BY <1>1, <1>2, RoutedAll
<1>4. /\ ~routed /\ routed' = TRUE /\ UNCHANGED <<program, run, window, drawing>>
      /\ words' = all.words /\ pool' = all.pool /\ g_pool_off' = all.off
      /\ handed' = {[addr |-> PoolAt + off, ova |-> all.pool[off]] : off \in DOMAIN all.pool}
      /\ g_slot_ova' = [k \in 1 .. most |-> program[slots[k]]]
      /\ g_nslots' = n
  BY DEF hybrid_route_fnptr_slots
<1> HIDE DEF slots, all
<1>5. n \in Nat
  BY <1>2 DEF Lists
<1>6. /\ all.off \in Nat /\ DOMAIN all.pool \subseteq 0 .. all.off - 1
      /\ DOMAIN all.words = DOMAIN program
      /\ \A k \in 1 .. n : RoutedSlot(slots, all, k)
      /\ \A p \in DOMAIN program : (\A k \in 1 .. n : slots[k] # p) => all.words[p] = program[p]
  BY <1>3 DEF RoutedFirst
<1>7. \A p \in DOMAIN program : InTable(p) => Rank(p) \in 1 .. n /\ slots[Rank(p)] = p
  BY <1>1, <1>2, SlotOfRank
<1>8. DataHold(all.words, all.pool)
  <2>1. ASSUME NEW p \in DOMAIN program, InTable(p)
        PROVE  LET d == RoutedBefore(p) * StubBytes
               IN IF RoutesSlot(Rank(p)) /\ Fits(d)
                    THEN /\ d \in DOMAIN all.pool /\ all.pool[d] = program[p]
                         /\ all.words[p] = PoolAt + d
                    ELSE all.words[p] = program[p]
    <3>1. Rank(p) \in 1 .. n /\ slots[Rank(p)] = p
      BY <1>7, <2>1
    <3>2. RoutedSlot(slots, all, Rank(p))
      BY <1>6, <3>1
    <3>3. RoutedBefore(p) = Rank(p) - 1 - Lo
      BY DEF RoutedBefore, Lo
    <3>4. QED
      BY <3>1, <3>2, <3>3 DEF RoutedSlot
  <2>2. ASSUME NEW p \in DOMAIN program, ~InTable(p) PROVE all.words[p] = program[p]
    <3>1. p \in 1 .. Len(program)
      BY <1>1
    <3>2. \A k \in 1 .. n : slots[k] # p
      BY <1>2, <2>2, <3>1 DEF Lists
    <3>3. QED
      BY <1>6, <3>2
  <2>3. QED
    BY <2>1, <2>2 DEF DataHold
<1>9. SlotsHold(g_slot_ova', g_nslots')
  <2>1. ASSUME NEW p \in DOMAIN program, InTable(p)
        PROVE  /\ Rank(p) <= n
               /\ Rank(p) <= MaxSlots => g_slot_ova'[Rank(p)] = program[p]
    <3>1. Rank(p) \in 1 .. n /\ slots[Rank(p)] = p
      BY <1>7, <2>1
    <3>2. Rank(p) <= MaxSlots => Rank(p) \in 1 .. most
      BY <1>5, <3>1
    <3>3. QED
      BY <1>4, <1>5, <3>1, <3>2
  <2>2. QED
    BY <1>4, <2>1 DEF SlotsHold
<1>10. DataHold(words, pool)' /\ SlotsHold(g_slot_ova, g_nslots)'
  BY <1>4, <1>8, <1>9, DataNext
<1>11. \A t \in Minters : drawing'[t] = Nothing
  BY <1>4 DEF ThunksInv
<1>12. \A h \in handed' : \E d \in DOMAIN pool' : h = [addr |-> PoolAt + d, ova |-> pool'[d]]
  BY <1>4
<1>13. QED
  BY <1>4, <1>6, <1>10, <1>11, <1>12 DEF ThunksInv

LEMMA ThunksStart == ThunksInit => ThunksInv
<1> SUFFICES ASSUME ThunksInit PROVE ThunksInv
  OBVIOUS
<1>1. DOMAIN << >> = {}
  OBVIOUS
<1>2. DOMAIN pool = {} /\ DOMAIN drawing = Minters /\ \A t \in Minters : drawing[t] = Nothing
  BY <1>1 DEF ThunksInit
<1>3. QED
  BY <1>2 DEF ThunksInit, ThunksInv

LEMMA ThunksStep == ThunksInv /\ [ThunksNext]_tvars => ThunksInv'
<1> SUFFICES ASSUME ThunksInv, [ThunksNext]_tvars PROVE ThunksInv'
  OBVIOUS
<1>1. CASE UNCHANGED tvars
  <2>1. UNCHANGED <<program, run, window>> /\ words' = words /\ pool' = pool
        /\ g_slot_ova' = g_slot_ova /\ g_nslots' = g_nslots
    BY <1>1 DEF tvars
  <2>2. routed => DataHold(words, pool)' /\ SlotsHold(g_slot_ova, g_nslots)'
    BY <2>1, DataNext DEF ThunksInv
  <2>3. QED
    BY <1>1, <2>2 DEF ThunksInv, tvars
<1>2. QED
  BY <1>1, RouteHolds, DrawHolds, MintHolds DEF ThunksNext

\* An address of a stub that is written leads to the stub's function.
LEMMA WrittenLeads ==
  ASSUME ThunksInv, NEW d \in DOMAIN pool
  PROVE  IsThunk(PoolAt + d) /\ hybrid_thunk_target(PoolAt + d) = pool[d]
<1>1. d \in 0 .. g_pool_off - 1 /\ g_pool_off \in Nat
  BY DEF ThunksInv
<1>2. PoolAt + d - PoolAt = d
  BY <1>1 DEF PoolAt
<1>3. QED
  BY <1>1, <1>2 DEF IsThunk, hybrid_thunk_target, PoolAt

LEMMA ThunksInvHolds == ThunksInv => ThunksHold
<1> SUFFICES ASSUME ThunksInv PROVE ThunksHold
  OBVIOUS
<1>1. ASSUME NEW h \in handed PROVE IsThunk(h.addr) /\ hybrid_thunk_target(h.addr) = h.ova
  <2>1. PICK d \in DOMAIN pool : h = [addr |-> PoolAt + d, ova |-> pool[d]]
    BY DEF ThunksInv
  <2>2. h.addr = PoolAt + d /\ h.ova = pool[d]
    BY <2>1
  <2>3. QED
    BY <2>2, WrittenLeads
<1>2. ASSUME NEW p \in DOMAIN program
      PROVE  IF routed /\ InTable(p) /\ RoutesSlot(Rank(p)) /\ Fits(RoutedBefore(p) * StubBytes)
               THEN IsThunk(words[p]) /\ hybrid_thunk_target(words[p]) = program[p]
               ELSE words[p] = program[p]
  <2>1. CASE ~routed
    BY <2>1 DEF ThunksInv
  <2>2. CASE routed /\ InTable(p) /\ RoutesSlot(Rank(p)) /\ Fits(RoutedBefore(p) * StubBytes)
    <3> DEFINE d == RoutedBefore(p) * StubBytes
    <3>1. d \in DOMAIN pool /\ pool[d] = program[p] /\ words[p] = PoolAt + d
      BY <2>2 DEF ThunksInv, DataHold
    <3> HIDE DEF d
    <3>2. IsThunk(words[p]) /\ hybrid_thunk_target(words[p]) = program[p]
      BY <3>1, WrittenLeads
    <3>3. QED
      BY <2>2, <3>2
  <2>3. CASE routed /\ ~(InTable(p) /\ RoutesSlot(Rank(p)) /\ Fits(RoutedBefore(p) * StubBytes))
    BY <2>3 DEF ThunksInv, DataHold
  <2>4. QED
    BY <2>1, <2>2, <2>3
<1>3. routed => \A p \in DOMAIN program :
        InTable(p) => /\ Rank(p) <= g_nslots
                      /\ Rank(p) <= MaxSlots => g_slot_ova[Rank(p)] = program[p]
  BY DEF ThunksInv, SlotsHold
<1>4. QED
  BY <1>1, <1>2, <1>3 DEF ThunksHold

ThunkRuns == bench = "thunks" => ThunksInv

\* Every thunk leads to its function, and every word of the data where it did,
\* for any number of threads, any data and a pool that runs out or does not
\* (hybrid.c:330-356, 395-426).
THEOREM ThunksLeadAlways == RuntimeSpec => []ThunksLead
<1>1. RuntimeInit => ThunkRuns
  BY ThunksStart DEF RuntimeInit, ThunkRuns
<1>2. ThunkRuns /\ [RuntimeNext]_<<bench, statsVars, cvars, tvars>> => ThunkRuns'
  <2> SUFFICES ASSUME ThunkRuns, [RuntimeNext]_<<bench, statsVars, cvars, tvars>>,
                      bench' = "thunks"
               PROVE  ThunksInv'
    BY DEF ThunkRuns
  <2>1. bench = "thunks" /\ ThunksInv /\ [ThunksNext]_tvars
    BY DEF RuntimeNext, ThunkRuns
  <2>2. QED
    BY <2>1, ThunksStep
<1>3. ThunkRuns => ThunksLead
  BY ThunksInvHolds DEF ThunkRuns, ThunksLead
<1>4. QED
  BY <1>1, <1>2, <1>3, PTL DEF RuntimeSpec
=============================================================================
