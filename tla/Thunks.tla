------------------------------- MODULE Thunks -------------------------------
(* The addresses that lead real code into lifted functions                   *)
(* (runtime/hybrid/hybrid.c): a pool of stubs that every thread draws on, and *)
(* the rewriting, at the start of a program, of the function pointers in its *)
(* data.  The data are the words of its sections in order, with one that is  *)
(* no function's start after each: the end of a section ends a table, too.   *)
(* A trailing part of a word is never looked at and left out.  Functions are *)
(* known by their original addresses; the image's displacement is left out.  *)
EXTENDS Integers, Sequences, FiniteSets

CONSTANTS
  Minters,      \* the threads
  Functions,    \* the lifted functions' starts
  Programs,     \* the data of a program, a sequence of words
  Windows,      \* slot_lo and slot_hi
  MinRuns,      \* min_run
  PoolSize,     \* g_pool_size
  StubBytes,    \* R2L_STUB_BYTES
  MaxSlots,     \* HYBRID_MAX_SLOTS
  Drawn         \* bound: how far the pool is drawn on

ASSUME ThunksAssumption ==
  /\ Functions \subseteq Nat /\ Programs \subseteq Seq(Nat)
  /\ MinRuns \subseteq Int /\ Windows \subseteq Int \X Int
  /\ PoolSize \in Nat /\ StubBytes \in Nat \ {0} /\ MaxSlots \in Nat

VARIABLES
  program,      \* the data as it was linked
  run, window,  \* the arguments of the routing
  routed,       \* it has been done
  words,        \* the data
  g_pool_off,
  pool,         \* the stubs written, offset -> function
  drawing,      \* thread -> what it mints: the stub it drew, the function
  handed,       \* the thunks handed out, address and function
  g_slot_ova, g_nslots

tvars == <<program, run, window, routed, words, g_pool_off, pool, drawing, handed,
           g_slot_ova, g_nslots>>

PoolAt == 1000
Nothing == [off |-> -1, ova |-> 0]

ThunksInit ==
  /\ program \in Programs /\ words = program
  /\ run \in MinRuns /\ window \in Windows
  /\ routed = FALSE
  /\ g_pool_off = 0 /\ pool = << >>
  /\ drawing = [t \in Minters |-> Nothing] /\ handed = {}
  /\ g_slot_ova = << >> /\ g_nslots = 0

Fits(off) == off + StubBytes <= PoolSize
With(f, x, y) == [z \in DOMAIN f \cup {x} |-> IF z = x THEN y ELSE f[z]]

\* Is addr a thunk, and whose?  The pool counts as long as it was drawn on,
\* which may be longer than it is; what lies behind it is nobody's.
IsThunk(addr) == PoolAt <= addr /\ addr < PoolAt + g_pool_off
hybrid_thunk_target(addr) ==
  IF addr - PoolAt \in DOMAIN pool THEN pool[addr - PoolAt] ELSE -1

----------------------------------------------------------------------------
\* The slip of a draw in two steps: what another thread draws is drawn again.
DrawsTo_bug(t) ==
  IF \E u \in Minters \ {t} : drawing[u] # Nothing THEN g_pool_off ELSE g_pool_off + StubBytes

\* hybrid_thunk, first the one step that draws a stub, then the rest.
DrawsTo(t) == g_pool_off + StubBytes

Draw(t) ==
  /\ routed /\ drawing[t] = Nothing
  /\ g_pool_off < Drawn
  /\ \E ova \in Functions : drawing' = [drawing EXCEPT ![t] = [off |-> g_pool_off, ova |-> ova]]
  /\ g_pool_off' = DrawsTo(t)
  /\ UNCHANGED <<program, run, window, routed, words, pool, handed, g_slot_ova, g_nslots>>

Mint(t) ==
  /\ drawing[t] # Nothing
  /\ LET d == drawing[t]
     IN IF Fits(d.off)
          THEN /\ pool' = With(pool, d.off, d.ova)
               /\ handed' = handed \cup {[addr |-> PoolAt + d.off, ova |-> d.ova]}
          ELSE UNCHANGED <<pool, handed>>
  /\ drawing' = [drawing EXCEPT ![t] = Nothing]
  /\ UNCHANGED <<program, run, window, routed, words, g_pool_off, g_slot_ova, g_nslots>>

----------------------------------------------------------------------------
Least == IF run < 1 THEN 3 ELSE run

\* How far the function pointers go that begin with word p.
RunEnd(p) ==
  CHOOSE q \in p .. Len(program) + 1 :
    /\ \A k \in p .. q - 1 : program[k] \in Functions
    /\ q <= Len(program) => program[q] \notin Functions

\* The slots in the order of the scan: the words of each run of function
\* pointers that is long enough.
Slots ==
  LET from[p \in 1 .. Len(program) + 1] ==
        IF p > Len(program) THEN << >>
        ELSE IF program[p] \notin Functions THEN from[p + 1]
        ELSE LET size == RunEnd(p) - p
             IN (IF size >= Least THEN [i \in 1 .. size |-> p + i - 1] ELSE << >>)
                \o from[p + size]
  IN from[1]

\* The routing of the first n slots: the slots in the window draw a stub each,
\* and those the pool has none left for stay as they are.
RoutesSlot(n) == window[1] < n /\ n <= window[2]
RouteSlot(before, p) ==
  LET off == before.off
  IN IF ~Fits(off) THEN [before EXCEPT !.off = off + StubBytes]
     ELSE [off |-> off + StubBytes,
           words |-> [before.words EXCEPT ![p] = PoolAt + off],
           pool |-> With(before.pool, off, program[p])]
Routed(slots, n) ==
  LET after[m \in 0 .. n] ==
        IF m = 0 THEN [off |-> 0, words |-> program, pool |-> << >>]
        ELSE IF RoutesSlot(m) THEN RouteSlot(after[m - 1], slots[m])
        ELSE after[m - 1]
  IN after[n]

hybrid_route_fnptr_slots ==
  /\ ~routed
  /\ LET slots == Slots
         all == Routed(slots, Len(slots))
     IN /\ words' = all.words
        /\ pool' = all.pool
        /\ g_pool_off' = all.off
        /\ handed' = {[addr |-> PoolAt + off, ova |-> all.pool[off]] : off \in DOMAIN all.pool}
        /\ g_slot_ova' = [n \in 1 .. IF Len(slots) < MaxSlots THEN Len(slots) ELSE MaxSlots |->
                            program[slots[n]]]
        /\ g_nslots' = Len(slots)
  /\ routed' = TRUE
  /\ UNCHANGED <<program, run, window, drawing>>

ThunksNext ==
  \/ hybrid_route_fnptr_slots
  \/ \E t \in Minters : Draw(t) \/ Mint(t)

ThunksSpec == ThunksInit /\ [][ThunksNext]_tvars

----------------------------------------------------------------------------
\* The words of a table: of some least number of function pointers together.
InTable(p) ==
  \E a, b \in DOMAIN program :
    /\ a <= p /\ p <= b
    /\ b - a + 1 >= Least
    /\ \A q \in a .. b : program[q] \in Functions

\* The number of a word among those of all tables, and how many before it were
\* routed.
Rank(p) == Cardinality({q \in 1 .. p : InTable(q)})
RoutedBefore(p) == Rank(p) - 1 - IF window[1] < 0 THEN 0 ELSE window[1]

\* Every address handed out leads to the function it was asked for, however
\* the threads interleave and whether or not the pool has run out; and every
\* word of the data leads where it did, the words of tables in the window, as
\* far as the pool goes, through a thunk, and the others as they were
\* (hybrid.c:330-356, 395-426).
ThunksHold ==
  /\ \A h \in handed : IsThunk(h.addr) /\ hybrid_thunk_target(h.addr) = h.ova
  /\ \A p \in DOMAIN program :
       IF routed /\ InTable(p) /\ RoutesSlot(Rank(p)) /\ Fits(RoutedBefore(p) * StubBytes)
         THEN IsThunk(words[p]) /\ hybrid_thunk_target(words[p]) = program[p]
         ELSE words[p] = program[p]
  /\ routed => \A p \in DOMAIN program :
       InTable(p) => /\ Rank(p) <= g_nslots
                     /\ Rank(p) <= MaxSlots => g_slot_ova[Rank(p)] = program[p]
=============================================================================
