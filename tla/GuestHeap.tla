----------------------------- MODULE GuestHeap -----------------------------
(***************************************************************************)
(* The first-fit allocator of runtime/linux64/guest_heap.c and the guest   *)
(* that calls it through the thunks of lifted_runtime.cpp (HeapAlloc,      *)
(* HeapReAlloc, HeapFree, VirtualAlloc, VirtualFree).                      *)
(*                                                                         *)
(* Lengths and addresses are counted in cells.  A block's header lives in  *)
(* the guest's own memory, right below its payload; hdr maps the address   *)
(* of every header of the chain to the header's four fields.  A header     *)
(* that coalescing swallows leaves the chain and hdr: its cells become     *)
(* payload of a free block, which nothing reads.                           *)
(*                                                                         *)
(* The guest is a set of Objects.  ptr[o] is the address a call returned   *)
(* for o, 0 when o holds nothing, and asked[o] the length it asked for.    *)
(* mem holds one value per cell: the object that filled it, Header for a   *)
(* cell the allocator wrote a header to, or Junk.  A guest fills all it    *)
(* asked for and scrubs it before it frees it.                             *)
(***************************************************************************)
EXTENDS Integers

CONSTANTS
  ALIGNMENT,    \* every payload length is rounded up to a multiple of this
  HEADER_SIZE,  \* sizeof(block)
  MIN_SPLIT,    \* the least payload worth splitting a block for
  Base,         \* g_base, the address the host reserved
  HeapSize,     \* g_size
  Word,         \* the modulus of uint64_t
  Requests,     \* the lengths the guest may ask for
  Objects,      \* what the guest keeps in the heap
  Header, Junk  \* the contents of a header's cell, and of any other cell

\* The end of the reserved memory.
Limit == Base + HeapSize

ASSUME HeapAssumption ==
  /\ ALIGNMENT \in Nat \ {0}
  /\ HEADER_SIZE \in Nat \ {0}
  /\ MIN_SPLIT \in Nat \ {0}
  /\ Base \in Nat \ {0}
  /\ HeapSize \in Nat
  /\ HEADER_SIZE < HeapSize
  /\ Word \in Nat
  /\ Limit + HEADER_SIZE + MIN_SPLIT < Word
  /\ Requests \subseteq 0..(Word - 1)
  /\ Header \notin Objects
  /\ Junk \notin Objects

VARIABLES
  hdr,          \* the headers of the chain, by address
  ptr,          \* object -> address the guest holds, 0 for none
  asked,        \* object -> length the guest asked for
  mem           \* cell -> contents

vars == <<hdr, ptr, asked, mem>>

Null == 0

----------------------------------------------------------------------------
(* The arithmetic and the block list. *)

\* (Mutants, the definitions named ..._bug, are slips of the code that the
\* properties must notice; nothing else uses them.)
\* Rounds down.
align_up_bug(value) == value - (value % ALIGNMENT)

\* (value + (ALIGNMENT - 1)) & ~(ALIGNMENT - 1), in uint64_t.
align_up(value) ==
  LET raised == (value + (ALIGNMENT - 1)) % Word
  IN  raised - (raised % ALIGNMENT)

\* The length a request stands for: a request for nothing gets a unit.
Rounded(n) == align_up(IF n = 0 THEN ALIGNMENT ELSE n)

\* A request the rounding does not carry past 2^64.
Sane(n) == n + ALIGNMENT <= Word

payload(b) == b + HEADER_SIZE

\* The block below a payload address, Null for an address outside the heap.
block_of(address) ==
  IF address < Base + HEADER_SIZE \/ address >= Limit
    THEN Null
    ELSE address - HEADER_SIZE

\* Header r with a new length and a new next block.
Resized(r, size, next) ==
  [size |-> size, free |-> r.free, next |-> next, previous |-> r.previous]

\* Splits without asking whether the rest can hold a header and a payload.
split_guard_bug(h, e, size) ==
  LET rest == payload(e) + size
  IN  [b \in DOMAIN h \cup {rest} |->
         CASE b = rest -> [size |-> h[e].size - size - HEADER_SIZE, free |-> 1,
                           next |-> h[e].next, previous |-> e]
           [] b = e -> Resized(h[e], size, rest)
           [] OTHER -> h[b]]

\* Leaves the next block pointing back past the rest.
split_link_bug(h, e, size) ==
  LET rest == payload(e) + size
  IN  IF h[e].size < size + HEADER_SIZE + MIN_SPLIT
        THEN h
        ELSE [b \in DOMAIN h \cup {rest} |->
                CASE b = rest -> [size |-> h[e].size - size - HEADER_SIZE,
                                  free |-> 1, next |-> h[e].next,
                                  previous |-> e]
                  [] b = e -> Resized(h[e], size, rest)
                  [] OTHER -> h[b]]

\* Cut block e down to size when the rest can hold a header and a payload.
\* Every caller passes size <= h[e].size, so the sum does not wrap.
split(h, e, size) ==
  LET rest == payload(e) + size
  IN  IF h[e].size < size + HEADER_SIZE + MIN_SPLIT
        THEN h
        ELSE [b \in DOMAIN h \cup {rest} |->
                CASE b = rest -> [size     |-> h[e].size - size - HEADER_SIZE,
                                  free     |-> 1,
                                  next     |-> h[e].next,
                                  previous |-> e]
                  [] b = e -> Resized(h[e], size, rest)
                  [] b # rest /\ b # e /\ b = h[e].next ->
                       [h[b] EXCEPT !.previous = rest]
                  [] OTHER -> h[b]]

\* Merges the next block whether it is free or not.
coalesce_bug(h, e) ==
  LET n == h[e].next
  IN  IF n = Null
        THEN h
        ELSE [b \in DOMAIN h \ {n} |->
                CASE b = e -> Resized(h[e], h[e].size + HEADER_SIZE + h[n].size,
                                      h[n].next)
                  [] b # e /\ b = h[n].next -> [h[b] EXCEPT !.previous = e]
                  [] OTHER -> h[b]]

\* Merge the block after e into e when it is free.
coalesce(h, e) ==
  LET n == h[e].next
  IN  IF n = Null \/ h[n].free = 0
        THEN h
        ELSE [b \in DOMAIN h \ {n} |->
                CASE b = e -> Resized(h[e], h[e].size + HEADER_SIZE + h[n].size,
                                   h[n].next)
                  [] b # e /\ b = h[n].next -> [h[b] EXCEPT !.previous = e]
                  [] OTHER -> h[b]]

\* The free blocks that can hold size, and the first of them on the chain,
\* which runs in address order from the heap's base.
Fitting(h, size) == {b \in DOMAIN h : h[b].free = 1 /\ h[b].size >= size}
FirstFit(h, size) ==
  CHOOSE b \in Fitting(h, size) : \A c \in Fitting(h, size) : b <= c

\* What guest_heap_alloc does to the chain once it has chosen block e.
Taken(h, e, size) == [split(h, e, size) EXCEPT ![e].free = 0]

\* What guest_heap_free does to the chain for block e.
Marked(h, e) == [h EXCEPT ![e].free = 1]
MergedUp(h, e) == coalesce(Marked(h, e), e)
\* Does not look at the block before.
Freed_bug(h, e) == MergedUp(h, e)
Freed(h, e) ==
  LET g == MergedUp(h, e)
      p == g[e].previous
  IN  IF p # Null /\ g[p].free = 1 THEN coalesce(g, p) ELSE g

----------------------------------------------------------------------------
(* The guest's memory. *)

Cells == Base..(Limit - 1)
Span(from, n) == from..(from + n - 1)
Filled(m, cells, value) == [c \in Cells |-> IF c \in cells THEN value ELSE m[c]]

\* The cells of the headers that chain g has and chain h has not.
NewHeaders(h, g) ==
  UNION {Span(b, HEADER_SIZE) : b \in (DOMAIN g) \ (DOMAIN h)}

\* Memory after the allocator turned chain h into chain g: it wrote the new
\* headers, and nothing relies on the cells of the swallowed ones any more.
Written(m, h, g) ==
  Filled(Filled(m, NewHeaders(g, h), Junk), NewHeaders(h, g), Header)

\* Copies from the header instead of the payload.
Copied_bug(m, from, to, n) ==
  [c \in Cells |-> IF c \in Span(to, n) THEN m[c - to + from - HEADER_SIZE]
                                         ELSE m[c]]

\* memcpy(to, from, n)
Copied(m, from, to, n) ==
  [c \in Cells |-> IF c \in Span(to, n) THEN m[c - to + from] ELSE m[c]]

\* What the guest fills of an object at p: what it asked for, if the request
\* is one the allocator can have meant to honour.
Mine(p, n) == IF Sane(n) THEN Span(p, n) ELSE {}

\* What the guest does with object o once it is at p with length n: it fills
\* what it gained and leaves what it had.
Refilled(m, o, p, n) == Filled(m, Mine(p, n) \ Mine(p, asked[o]), o)

----------------------------------------------------------------------------
(* guest_heap_init, after the host has reserved the memory. *)

Init ==
  /\ hdr = [b \in {Base} |-> [size |-> HeapSize - HEADER_SIZE, free |-> 1,
                              next |-> Null, previous |-> Null]]
  /\ ptr = [o \in Objects |-> Null]
  /\ asked = [o \in Objects |-> 0]
  /\ mem = [c \in Cells |-> IF c \in Span(Base, HEADER_SIZE) THEN Header
                                                             ELSE Junk]

Hold(o, p, n) ==
  /\ ptr' = [ptr EXCEPT ![o] = p]
  /\ asked' = [asked EXCEPT ![o] = n]

\* guest_heap_alloc finds a block, and the guest fills what it got.
Alloc(o, n) ==
  LET size == Rounded(n)
      e    == FirstFit(hdr, size)
      g    == Taken(hdr, e, size)
  IN  /\ ptr[o] = Null
      /\ Fitting(hdr, size) # {}
      /\ hdr' = g
      /\ Hold(o, payload(e), n)
      /\ mem' = Filled(Written(mem, hdr, g), Mine(payload(e), n), o)

\* guest_heap_alloc returns 0: no free block is large enough.
AllocRefused(o, n) ==
  /\ ptr[o] = Null
  /\ Fitting(hdr, Rounded(n)) = {}
  /\ UNCHANGED vars

\* guest_heap_free of an address the guest holds.
Free(o) ==
  LET e == block_of(ptr[o])
  IN  /\ ptr[o] # Null
      /\ e # Null
      /\ hdr[e].free = 0
      /\ hdr' = Freed(hdr, e)
      /\ Hold(o, Null, 0)
      /\ mem' = Filled(Written(mem, hdr, Freed(hdr, e)),
                       Mine(ptr[o], asked[o]), Junk)

\* guest_heap_realloc where the block is already large enough.
ReallocInPlace(o, n) ==
  LET e == block_of(ptr[o])
      wanted == Rounded(n)
      g == split(hdr, e, wanted)
      trimmed == Filled(mem, Mine(ptr[o], asked[o]) \ Mine(ptr[o], n), Junk)
  IN  /\ ptr[o] # Null
      /\ e # Null
      /\ hdr[e].size >= wanted
      /\ hdr' = g
      /\ Hold(o, ptr[o], n)
      /\ mem' = Refilled(Written(trimmed, hdr, g), o, ptr[o], n)

\* The next block is free, and the two together are large enough.
CanGrow(h, e, wanted) ==
  /\ h[e].size < wanted
  /\ h[e].next # Null
  /\ h[h[e].next].free = 1
  /\ h[e].size + HEADER_SIZE + h[h[e].next].size >= wanted

ReallocGrow(o, n) ==
  LET e == block_of(ptr[o])
      wanted == Rounded(n)
      g == split(coalesce(hdr, e), e, wanted)
  IN  /\ ptr[o] # Null
      /\ e # Null
      /\ CanGrow(hdr, e, wanted)
      /\ hdr' = g
      /\ Hold(o, ptr[o], n)
      /\ mem' = Refilled(Written(mem, hdr, g), o, ptr[o], n)

MustMove(h, e, wanted) == h[e].size < wanted /\ ~CanGrow(h, e, wanted)

\* A new block is taken, the old contents copied and the old block freed.
ReallocMove(o, n) ==
  LET e == block_of(ptr[o])
      wanted == Rounded(n)
      f == FirstFit(hdr, wanted)
      taken == Taken(hdr, f, wanted)
      copied == Copied(Written(mem, hdr, taken), ptr[o], payload(f),
                       taken[e].size)
      scrubbed == Filled(copied, Mine(ptr[o], asked[o]), Junk)
  IN  /\ ptr[o] # Null
      /\ e # Null
      /\ MustMove(hdr, e, wanted)
      /\ Fitting(hdr, wanted) # {}
      /\ hdr' = Freed(taken, e)
      /\ Hold(o, payload(f), n)
      /\ mem' = Refilled(Written(scrubbed, taken, Freed(taken, e)),
                         o, payload(f), n)

\* No block can hold the new length: the call returns 0 and the guest keeps
\* the object where it is.
ReallocRefused(o, n) ==
  LET e == block_of(ptr[o])
      wanted == Rounded(n)
  IN  /\ ptr[o] # Null
      /\ e # Null
      /\ MustMove(hdr, e, wanted)
      /\ Fitting(hdr, wanted) = {}
      /\ UNCHANGED vars

AllocOrFree ==
  \/ \E o \in Objects, n \in Requests : Alloc(o, n) \/ AllocRefused(o, n)
  \/ \E o \in Objects : Free(o)

Realloc ==
  \E o \in Objects, n \in Requests :
    \/ ReallocInPlace(o, n)
    \/ ReallocGrow(o, n)
    \/ ReallocMove(o, n)
    \/ ReallocRefused(o, n)

Next == AllocOrFree \/ Realloc
Spec == Init /\ [][Next]_vars

----------------------------------------------------------------------------
(* Properties. *)

HeaderRecords == [size : Nat, free : {0, 1}, next : Nat, previous : Nat]
HeadersTyped(h) == DOMAIN h \subseteq Cells /\ h \in [DOMAIN h -> HeaderRecords]

\* The variables have the types the code gives them.
TypeOK ==
  /\ HeadersTyped(hdr)
  /\ ptr \in [Objects -> Nat]
  /\ asked \in [Objects -> Nat]
  /\ mem \in [Cells -> Objects \cup {Header, Junk}]

\* Where the block after b must begin.
End(h, b) == payload(b) + h[b].size
\* Two blocks of a chain do not overlap, headers included.
Disjoint(h) == \A b, c \in DOMAIN h : b < c => End(h, b) <= c
\* A block's next is the block that begins where it ends, Null at the end.
NextLinks(h) ==
  \A b \in DOMAIN h :
    \/ End(h, b) = Limit /\ h[b].next = Null
    \/ End(h, b) < Limit /\ h[b].next = End(h, b) /\ End(h, b) \in DOMAIN h
\* previous undoes next, and only the first block has none.
PreviousLinks(h) ==
  \A b \in DOMAIN h :
    \/ b = Base /\ h[b].previous = Null
    \/ /\ b # Base
       /\ h[b].previous \in DOMAIN h
       /\ h[h[b].previous].next = b
\* Every payload begins inside the heap, so block_of knows its address.
PayloadsInside(h) == \A b \in DOMAIN h : payload(b) < Limit
Tiled(h) ==
  /\ Base \in DOMAIN h
  /\ Disjoint(h)
  /\ NextLinks(h)
  /\ PreviousLinks(h)
  /\ PayloadsInside(h)

\* The block list tiles the reserved memory with no gap and no overlap, its
\* double links agree, and no payload begins past the end, whatever calls are
\* made (guest_heap.c:8-9).
ChainTilesHeap == Tiled(hdr)

Used(h) == {b \in DOMAIN h : h[b].free = 0}
Held == {o \in Objects : ptr[o] # Null}

\* The blocks marked in use are exactly the ones the guest holds, one object
\* each: no call leaks a block, hands one out twice or frees the wrong one.
UsedIsHeld ==
  /\ Used(hdr) = {ptr[o] - HEADER_SIZE : o \in Held}
  /\ \A o, q \in Held : ptr[o] = ptr[q] => o = q

\* An object's block is at least as long as the guest asked for, as long as
\* the request survives rounding up in 64 bits (guest_heap.h:31).
SaneRequestsHonoured ==
  \A o \in Held : Sane(asked[o]) => asked[o] <= hdr[ptr[o] - HEADER_SIZE].size

\* Two free blocks never lie side by side.
NoFreeNeighbours ==
  \A b \in DOMAIN hdr :
    hdr[b].free = 1 /\ hdr[b].next # Null => hdr[hdr[b].next].free = 0

----------------------------------------------------------------------------
(* The guest heap as an implementation of the store of objects it promises: *)
(* an object is in the store while the guest holds an address for it, and its *)
(* contents are the cells from that address on.                              *)

\* The places of an object the guest holds: as many as it asked for, if that
\* is a length the rounding leaves one.
Offsets(n) == IF Sane(n) THEN 0 .. n - 1 ELSE {}
Stored ==
  [o \in Objects |-> IF o \in Held
                       THEN [i \in Offsets(asked[o]) |-> mem[ptr[o] + i]]
                       ELSE [i \in {} |-> 0]]

Store == INSTANCE ObjectStore WITH
           Honoured <- {n \in Requests : Sane(n)},
           held <- Held,
           text <- Stored

\* Whatever is allocated, resized and freed, in any order, each object the
\* guest holds reads as what its owner stored, a resize carries its contents to
\* the new place, and a refused call loses nothing (guest_heap.h:31-38,
\* guest_heap.c:181-186).
StoresObjects == Store!StoreSpec
=============================================================================
