--------------------------- MODULE GuestHeap_proof ---------------------------
(* Proofs about the guest heap, for every layout, size and set of requests.  *)
(*                                                                           *)
(* Well(h) says that h is a block list: typed headers that tile the heap.    *)
(* split, coalesce and marking a block keep it, so every call does; the      *)
(* ownership facts then follow from what each of the three does to a block   *)
(* other than the one it is called for.                                      *)
(*                                                                           *)
(* The heap also implements the store of objects.  The cells of an object    *)
(* lie in its block: a call for another object writes headers, which no block*)
(* that stays contains, and cells of that object's own block.  So each call  *)
(* is a step of the store.                                                   *)
EXTENDS GuestHeap, WellFoundedInduction, TLAPS

Well(h) == HeadersTyped(h) /\ Tiled(h)

----------------------------------------------------------------------------
(* Arithmetic. *)

\* Rounding up gives a length, and no less than the request unless it wraps.
LEMMA Rounding ==
  ASSUME NEW n \in 0..(Word - 1)
  PROVE  /\ Rounded(n) \in Nat
         /\ Sane(n) => n <= Rounded(n)
<1> USE HeapAssumption
<1> DEFINE m == IF n = 0 THEN ALIGNMENT ELSE n
           raised == (m + (ALIGNMENT - 1)) % Word
<1>1. m \in Nat /\ n <= m /\ Word \in Nat \ {0}
  BY DEF Limit
<1>2. raised \in Nat
  BY <1>1
<1>3. raised % ALIGNMENT \in 0..(ALIGNMENT - 1) /\ raised % ALIGNMENT <= raised
  BY <1>2
<1>4. Rounded(n) = raised - (raised % ALIGNMENT)
  BY DEF Rounded, align_up
<1>5. ASSUME Sane(n) PROVE n <= Rounded(n)
  <2>1. CASE n = 0
    BY <2>1, <1>2, <1>3, <1>4
  <2>2. CASE n # 0
    <3>1. raised = n + (ALIGNMENT - 1)
      BY <2>2, <1>5 DEF Sane
    <3>2. QED
      BY <3>1, <1>3, <1>4
  <2>3. QED
    BY <2>1, <2>2
<1>6. QED
  BY <1>2, <1>3, <1>4, <1>5

----------------------------------------------------------------------------
(* The block list. *)

\* What a block list says of one block, in one place.
LEMMA WellBlock ==
  ASSUME NEW h, Well(h), NEW b \in DOMAIN h
  PROVE  /\ b \in Int /\ Base <= b /\ b < Limit /\ b # Null
         /\ h[b] \in HeaderRecords
         /\ h[b].size \in Nat /\ h[b].free \in {0, 1}
         /\ h[b].next \in Nat /\ h[b].previous \in Nat
         /\ End(h, b) \in Int /\ End(h, b) <= Limit /\ b < End(h, b)
         /\ h[b].next # Null => h[b].next = End(h, b) /\ h[b].next \in DOMAIN h
         /\ h[b].previous # Null =>
              h[b].previous \in DOMAIN h /\ h[h[b].previous].next = b
<1> USE HeapAssumption DEF Well, Limit, Null
<1>1. b \in Base..(Base + HeapSize - 1) /\ h[b] \in HeaderRecords
  BY DEF HeadersTyped, Cells
<1>2. h[b].size \in Nat /\ h[b].next \in Nat /\ h[b].previous \in Nat
      /\ h[b].free \in {0, 1}
  BY <1>1 DEF HeaderRecords
<1>3. End(h, b) = b + HEADER_SIZE + h[b].size
  BY DEF End, payload
<1>4. \/ End(h, b) = Limit /\ h[b].next = Null
      \/ End(h, b) < Limit /\ h[b].next = End(h, b) /\ End(h, b) \in DOMAIN h
  BY DEF Tiled, NextLinks
<1>5. \/ b = Base /\ h[b].previous = Null
      \/ /\ b # Base
         /\ h[b].previous \in DOMAIN h
         /\ h[h[b].previous].next = b
  BY DEF Tiled, PreviousLinks
<1>6. QED
  BY <1>1, <1>2, <1>3, <1>4, <1>5

\* What an update of a header's fields leaves.
LEMMA HeaderResize ==
  ASSUME NEW r \in HeaderRecords, NEW s \in Nat, NEW a \in Nat, NEW u,
         u = Resized(r, s, a)
  PROVE  /\ u \in HeaderRecords /\ u.size = s /\ u.next = a
         /\ u.free = r.free /\ u.previous = r.previous
  BY DEF HeaderRecords, Resized

LEMMA HeaderRelink ==
  ASSUME NEW r \in HeaderRecords, NEW a \in Nat, NEW u,
         u = [r EXCEPT !.previous = a]
  PROVE  /\ u \in HeaderRecords /\ u.previous = a
         /\ u.size = r.size /\ u.next = r.next /\ u.free = r.free
  BY DEF HeaderRecords

\* Marking a block free or in use keeps the block list.
LEMMA MarkWell ==
  ASSUME NEW h, Well(h), NEW e \in DOMAIN h, NEW f \in {0, 1}
  PROVE  LET g == [h EXCEPT ![e].free = f]
         IN  /\ Well(g)
             /\ DOMAIN g = DOMAIN h
             /\ \A b \in DOMAIN h : /\ g[b].size = h[b].size
                                    /\ g[b].next = h[b].next
                                    /\ g[b].previous = h[b].previous
             /\ g[e].free = f
             /\ \A b \in DOMAIN h \ {e} : g[b] = h[b]
<1> DEFINE g == [h EXCEPT ![e].free = f]
<1>1. h \in [DOMAIN h -> HeaderRecords] /\ DOMAIN h \subseteq Cells
  BY DEF Well, HeadersTyped
<1>2. DOMAIN g = DOMAIN h /\ g \in [DOMAIN h -> HeaderRecords]
  BY <1>1 DEF HeaderRecords
<1>3. \A b \in DOMAIN h : /\ g[b].size = h[b].size
                          /\ g[b].next = h[b].next
                          /\ g[b].previous = h[b].previous
  BY <1>1 DEF HeaderRecords
<1>4. g[e].free = f /\ \A b \in DOMAIN h \ {e} : g[b] = h[b]
  BY <1>1 DEF HeaderRecords
<1>5. \A b \in DOMAIN h : End(g, b) = End(h, b)
  BY <1>3 DEF End
<1> HIDE DEF g
<1>6. Tiled(g)
  BY <1>2, <1>3, <1>5
     DEF Well, Tiled, Disjoint, NextLinks, PreviousLinks, PayloadsInside
<1>7. Well(g)
  BY <1>1, <1>2, <1>6 DEF Well, HeadersTyped
<1>8. QED
  BY <1>2, <1>3, <1>4, <1>7 DEF g

\* Splitting a block keeps the block list.  The block keeps at least the size
\* it is cut to, no other block changes its length or its state, and the rest
\* is free.
LEMMA SplitWell ==
  ASSUME NEW h, Well(h), NEW e \in DOMAIN h,
         NEW size \in Nat, size <= h[e].size
  PROVE  LET g == split(h, e, size)
         IN  /\ Well(g)
             /\ DOMAIN h \subseteq DOMAIN g
             /\ size <= g[e].size
             /\ g[e].free = h[e].free
             /\ \A b \in DOMAIN h \ {e} : /\ g[b].size = h[b].size
                                          /\ g[b].free = h[b].free
             /\ \A b \in DOMAIN g \ DOMAIN h : g[b].free = 1
<1> DEFINE g == split(h, e, size)
           rest == payload(e) + size
           n == h[e].next
<1> USE HeapAssumption DEF Limit, Null
<1>1. CASE h[e].size < size + HEADER_SIZE + MIN_SPLIT
  <2>1. g = h
    BY <1>1 DEF split
  <2>2. QED
    BY <2>1
<1>2. CASE ~(h[e].size < size + HEADER_SIZE + MIN_SPLIT)
  <2>1. /\ e \in Int /\ Base <= e /\ h[e].size \in Nat /\ e # Null
        /\ End(h, e) = e + HEADER_SIZE + h[e].size /\ End(h, e) <= Limit
        /\ n \in Nat /\ h[e].free \in {0, 1} /\ h[e].previous \in Nat
        /\ n # Null => n = End(h, e) /\ n \in DOMAIN h
    BY WellBlock DEF End, payload
  <2>2. /\ rest = e + HEADER_SIZE + size /\ rest \in Int
        /\ e < rest /\ rest + HEADER_SIZE <= End(h, e)
        /\ h[e].size - size - HEADER_SIZE \in Nat
    BY <1>2, <2>1 DEF payload
  <2>3. rest \notin DOMAIN h /\ rest # e /\ rest # n
    BY <2>1, <2>2 DEF Well, Tiled, Disjoint
  <2>4. DOMAIN g = DOMAIN h \cup {rest}
    BY <1>2 DEF split
  <2>5. /\ g[rest] = [size |-> h[e].size - size - HEADER_SIZE, free |-> 1,
                      next |-> n, previous |-> e]
        /\ g[e] = Resized(h[e], size, rest)
        /\ \A b \in DOMAIN h \ {e} :
             g[b] = IF b = n THEN [h[b] EXCEPT !.previous = rest] ELSE h[b]
    BY <1>2, <2>3 DEF split
  <2> HIDE DEF g, rest, n
  <2>6. \A b \in DOMAIN h : h[b] \in HeaderRecords
    BY DEF Well, HeadersTyped
  <2>7. /\ g[e] \in HeaderRecords
        /\ g[e].size = size /\ g[e].next = rest
        /\ g[e].free = h[e].free /\ g[e].previous = h[e].previous
    <3>1. rest \in Nat
      BY <2>1, <2>2
    <3>2. h[e] \in HeaderRecords /\ g[e] = Resized(h[e], size, rest)
      BY <2>5, <2>6
    <3>3. QED
      BY <3>1, <3>2, HeaderResize
  <2>8. /\ g[rest] \in HeaderRecords
        /\ g[rest].size = h[e].size - size - HEADER_SIZE
        /\ g[rest].free = 1 /\ g[rest].next = n /\ g[rest].previous = e
    BY <2>1, <2>2, <2>5 DEF HeaderRecords
  <2>9. ASSUME NEW b \in DOMAIN h \ {e}
        PROVE  /\ g[b] \in HeaderRecords
               /\ g[b].size = h[b].size /\ g[b].free = h[b].free
               /\ g[b].next = h[b].next
               /\ g[b].previous = IF b = n THEN rest ELSE h[b].previous
    <3>1. rest \in Nat
      BY <2>1, <2>2
    <3>2. CASE b = n
      <4>1. h[b] \in HeaderRecords /\ g[b] = [h[b] EXCEPT !.previous = rest]
        BY <3>2, <2>5, <2>6
      <4>2. QED
        BY <3>1, <3>2, <4>1, HeaderRelink
    <3>3. CASE b # n
      BY <3>3, <2>5, <2>6
    <3>4. QED
      BY <3>2, <3>3
  <2>10. HeadersTyped(g)
    <3>1. g \in [DOMAIN g -> HeaderRecords]
      <4>1. g = [b \in DOMAIN g |-> g[b]]
        BY <1>2 DEF g, split
      <4>2. QED
        BY <4>1, <2>4, <2>7, <2>8, <2>9
    <3>2. rest \in Cells
      BY <2>1, <2>2 DEF Cells
    <3>3. QED
      BY <3>1, <3>2, <2>4 DEF Well, HeadersTyped
  <2>11. /\ End(g, e) = rest /\ End(g, rest) = End(h, e)
         /\ \A b \in DOMAIN h \ {e} : End(g, b) = End(h, b)
    BY <2>1, <2>2, <2>7, <2>8, <2>9 DEF End, payload
  <2>12. \A b \in DOMAIN h : b \in Int /\ End(h, b) \in Int /\ b < End(h, b)
    BY WellBlock
  <2>13. Disjoint(g)
    <3>1. Disjoint(h)
      BY DEF Well, Tiled
    <3>2. ASSUME NEW b \in DOMAIN g, NEW c \in DOMAIN g, b < c
          PROVE  End(g, b) <= c
      <4>1. CASE b = rest
        BY <3>1, <3>2, <4>1, <2>1, <2>2, <2>4, <2>11, <2>12 DEF Disjoint
      <4>2. CASE b = e
        BY <3>1, <3>2, <4>2, <2>1, <2>2, <2>4, <2>11, <2>12 DEF Disjoint
      <4>3. CASE b \in DOMAIN h \ {e}
        BY <3>1, <3>2, <4>3, <2>1, <2>2, <2>4, <2>11, <2>12 DEF Disjoint
      <4>4. QED
        BY <4>1, <4>2, <4>3, <2>4
    <3>3. QED
      BY <3>2 DEF Disjoint
  <2>14. NextLinks(g)
    <3>1. NextLinks(h)
      BY DEF Well, Tiled
    <3>2. QED
      BY <3>1, <2>1, <2>2, <2>4, <2>7, <2>8, <2>9, <2>11
         DEF NextLinks, n
  <2>15. PreviousLinks(g)
    <3>1. PreviousLinks(h) /\ Base \in DOMAIN h
      BY DEF Well, Tiled
    <3>2. ASSUME NEW b \in DOMAIN h, h[b].previous = e
          PROVE  b = n
      BY <3>1, <3>2, <2>1 DEF PreviousLinks, n
    <3>3. ASSUME NEW b \in DOMAIN g
          PROVE  \/ b = Base /\ g[b].previous = Null
                 \/ /\ b # Base
                    /\ g[b].previous \in DOMAIN g
                    /\ g[g[b].previous].next = b
      <4>1. CASE b = rest
        BY <4>1, <2>1, <2>2, <2>4, <2>7, <2>8
      <4>2. CASE b = e
        <5>1. h[e].previous # e
          BY <3>2, <2>1, <2>12
        <5>2. QED
          BY <4>2, <5>1, <3>1, <2>1, <2>4, <2>7, <2>9 DEF PreviousLinks
      <4>3. CASE b \in DOMAIN h \ {e} /\ b = n
        <5>1. b # Base
          BY <4>3, <2>1, <2>12
        <5>2. QED
          BY <4>3, <5>1, <2>4, <2>8, <2>9
      <4>4. CASE b \in DOMAIN h \ {e} /\ b # n
        <5>1. h[b].previous # e
          BY <4>4, <3>2
        <5>2. QED
          BY <4>4, <5>1, <3>1, <2>4, <2>9 DEF PreviousLinks
      <4>5. QED
        BY <4>1, <4>2, <4>3, <4>4, <2>4
    <3>4. QED
      BY <3>3 DEF PreviousLinks
  <2>16. Well(g)
    <3>1. PayloadsInside(g)
      BY <1>2, <2>1, <2>2, <2>4 DEF Well, Tiled, PayloadsInside, payload
    <3>2. QED
      BY <3>1, <2>4, <2>10, <2>13, <2>14, <2>15 DEF Well, Tiled
  <2>17. QED
    BY <2>4, <2>7, <2>8, <2>9, <2>16 DEF g
<1>3. QED
  BY <1>1, <1>2

\* Coalescing keeps the block list.  The block does not shrink, no other block
\* that stays on the list changes, and only a free block leaves it.
LEMMA CoalesceWell ==
  ASSUME NEW h, Well(h), NEW e \in DOMAIN h
  PROVE  LET g == coalesce(h, e)
         IN  /\ Well(g)
             /\ DOMAIN g \subseteq DOMAIN h
             /\ e \in DOMAIN g
             /\ h[e].size <= g[e].size
             /\ g[e].free = h[e].free
             /\ g[e].previous = h[e].previous
             /\ \A b \in DOMAIN g \ {e} : /\ g[b].size = h[b].size
                                          /\ g[b].free = h[b].free
             /\ \A b \in DOMAIN h \ DOMAIN g : h[b].free = 1
             /\ h[e].next # Null /\ h[h[e].next].free = 1 =>
                  g[e].size = h[e].size + HEADER_SIZE + h[h[e].next].size
<1> DEFINE g == coalesce(h, e)
           n == h[e].next
           m == h[n].next
<1> USE HeapAssumption DEF Limit, Null
<1>1. CASE n = Null \/ h[n].free = 0
  <2>1. g = h
    BY <1>1 DEF coalesce
  <2>2. h[e].size <= h[e].size
    BY WellBlock
  <2>3. QED
    BY <1>1, <2>1, <2>2, WellBlock
<1>2. CASE ~(n = Null \/ h[n].free = 0)
  <2>1. /\ e \in Int /\ Base <= e /\ h[e].size \in Nat /\ e # Null
        /\ End(h, e) = e + HEADER_SIZE + h[e].size /\ End(h, e) <= Limit
        /\ h[e].free \in {0, 1} /\ h[e].previous \in Nat
        /\ n \in Nat /\ n = End(h, e) /\ n \in DOMAIN h /\ e < n
    BY <1>2, WellBlock DEF End, payload
  <2>2. /\ h[n].size \in Nat /\ h[n].free = 1
        /\ End(h, n) = n + HEADER_SIZE + h[n].size /\ End(h, n) <= Limit
        /\ m \in Nat /\ (m # Null => m = End(h, n) /\ m \in DOMAIN h)
    BY <1>2, <2>1, WellBlock DEF End, payload
  <2>3. m # e /\ m # n /\ n # e
    BY <2>1, <2>2
  <2>4. DOMAIN g = DOMAIN h \ {n}
    BY <1>2 DEF coalesce
  <2>5. /\ g[e] = Resized(h[e], h[e].size + HEADER_SIZE + h[n].size, m)
        /\ \A b \in DOMAIN h \ {e, n} :
             g[b] = IF b = m THEN [h[b] EXCEPT !.previous = e] ELSE h[b]
    BY <1>2, <2>3 DEF coalesce
  <2>6. g = [b \in DOMAIN g |-> g[b]]
    BY <1>2 DEF coalesce
  <2>7. n # Null /\ h[n].free = 1
    BY <1>2, <2>2
  <2> HIDE DEF g, n, m
  <2>8. \A b \in DOMAIN h : h[b] \in HeaderRecords
    BY DEF Well, HeadersTyped
  <2>9. /\ g[e] \in HeaderRecords
        /\ g[e].size = h[e].size + HEADER_SIZE + h[n].size /\ g[e].next = m
        /\ g[e].free = h[e].free /\ g[e].previous = h[e].previous
    <3> DEFINE sum == h[e].size + HEADER_SIZE + h[n].size
    <3>1. sum \in Nat /\ m \in Nat /\ h[e] \in HeaderRecords
      BY <2>1, <2>2, <2>8
    <3>2. g[e] = Resized(h[e], sum, m)
      BY <2>5
    <3> HIDE DEF sum
    <3>3. QED
      <4>1. /\ g[e] \in HeaderRecords
            /\ g[e].size = sum /\ g[e].next = m
            /\ g[e].free = h[e].free /\ g[e].previous = h[e].previous
        BY <3>1, <3>2, HeaderResize
      <4>2. QED
        BY <4>1 DEF sum
  <2>10. ASSUME NEW b \in DOMAIN h \ {e, n}
         PROVE  /\ g[b] \in HeaderRecords
                /\ g[b].size = h[b].size /\ g[b].free = h[b].free
                /\ g[b].next = h[b].next
                /\ g[b].previous = IF b = m THEN e ELSE h[b].previous
    <3>1. e \in Nat
      BY <2>1
    <3>2. CASE b = m
      <4>1. h[b] \in HeaderRecords /\ g[b] = [h[b] EXCEPT !.previous = e]
        BY <3>2, <2>5, <2>8
      <4>2. QED
        BY <3>1, <3>2, <4>1, HeaderRelink
    <3>3. CASE b # m
      BY <3>3, <2>5, <2>8
    <3>4. QED
      BY <3>2, <3>3
  <2>11. HeadersTyped(g)
    <3>1. g \in [DOMAIN g -> HeaderRecords]
      BY <2>4, <2>6, <2>9, <2>10
    <3>2. QED
      BY <3>1, <2>4 DEF Well, HeadersTyped
  <2>12. /\ End(g, e) = End(h, n)
         /\ \A b \in DOMAIN h \ {e, n} : End(g, b) = End(h, b)
    BY <2>1, <2>2, <2>9, <2>10 DEF End, payload
  <2>13. \A b \in DOMAIN h : b \in Int /\ End(h, b) \in Int /\ b < End(h, b)
    BY WellBlock
  <2>14. Disjoint(g)
    <3>1. Disjoint(h)
      BY DEF Well, Tiled
    <3>2. ASSUME NEW b \in DOMAIN g, NEW c \in DOMAIN g, b < c
          PROVE  End(g, b) <= c
      <4>1. CASE b = e
        <5>1. End(h, e) <= c /\ c # n
          BY <3>1, <3>2, <4>1, <2>4 DEF Disjoint
        <5>2. n < c
          BY <5>1, <2>1, <2>4, <2>13
        <5>3. QED
          BY <3>1, <4>1, <5>2, <2>1, <2>4, <2>12 DEF Disjoint
      <4>2. CASE b # e
        BY <3>1, <3>2, <4>2, <2>4, <2>12 DEF Disjoint
      <4>3. QED
        BY <4>1, <4>2
    <3>3. QED
      BY <3>2 DEF Disjoint
  <2>15. NextLinks(g)
    <3>1. NextLinks(h)
      BY DEF Well, Tiled
    <3>2. ASSUME NEW b \in DOMAIN g
          PROVE  \/ End(g, b) = Limit /\ g[b].next = Null
                 \/ /\ End(g, b) < Limit
                    /\ g[b].next = End(g, b) /\ End(g, b) \in DOMAIN g
      <4>1. CASE b = e
        BY <3>1, <4>1, <2>1, <2>2, <2>3, <2>4, <2>9, <2>12 DEF NextLinks, m
      <4>2. CASE b # e
        <5>1. End(h, b) # n
          <6>1. b < e \/ e < b
            BY <4>2, <2>1, <2>4, <2>13
          <6>2. CASE b < e
            BY <6>2, <2>1, <2>4, <2>13 DEF Well, Tiled, Disjoint
          <6>3. CASE e < b
            BY <6>3, <2>1, <2>4, <2>13 DEF Well, Tiled, Disjoint
          <6>4. QED
            BY <6>1, <6>2, <6>3
        <5>2. QED
          BY <3>1, <4>2, <5>1, <2>4, <2>10, <2>12 DEF NextLinks
      <4>3. QED
        BY <4>1, <4>2
    <3>3. QED
      BY <3>2 DEF NextLinks
  <2>16. PreviousLinks(g)
    <3>1. PreviousLinks(h) /\ Base \in DOMAIN h
      BY DEF Well, Tiled
    <3>2. ASSUME NEW b \in DOMAIN h
          PROVE  /\ h[b].previous = n => b = m
                 /\ h[b].previous = e => b = n
      BY <3>1, <3>2, <2>1, <2>7 DEF PreviousLinks, n, m
    <3>3. ASSUME NEW b \in DOMAIN g
          PROVE  \/ b = Base /\ g[b].previous = Null
                 \/ /\ b # Base
                    /\ g[b].previous \in DOMAIN g
                    /\ g[g[b].previous].next = b
      <4>1. CASE b = e
        <5>1. h[e].previous # n /\ h[e].previous # e
          BY <3>2, <2>1, <2>3
        <5>2. QED
          BY <4>1, <5>1, <3>1, <2>1, <2>4, <2>9, <2>10 DEF PreviousLinks
      <4>2. CASE b # e /\ b = m
        <5>1. b # Base
          BY <4>2, <2>1, <2>2, <2>4, <2>13
        <5>2. QED
          BY <4>2, <5>1, <2>1, <2>3, <2>4, <2>9, <2>10
      <4>3. CASE b # e /\ b # m
        <5>1. h[b].previous # n /\ h[b].previous # e
          BY <4>3, <3>2, <2>4
        <5>2. QED
          BY <4>3, <5>1, <3>1, <2>4, <2>10 DEF PreviousLinks
      <4>4. QED
        BY <4>1, <4>2, <4>3
    <3>4. QED
      BY <3>3 DEF PreviousLinks
  <2>17. Well(g)
    <3>1. Base \in DOMAIN g
      BY <2>1, <2>4 DEF Well, Tiled
    <3>2. PayloadsInside(g)
      BY <2>4 DEF Well, Tiled, PayloadsInside
    <3>3. QED
      BY <3>1, <3>2, <2>11, <2>14, <2>15, <2>16 DEF Well, Tiled
  <2>18. h[e].size <= g[e].size
    BY <2>1, <2>2, <2>9
  <2>19. QED
    BY <2>1, <2>3, <2>4, <2>7, <2>9, <2>10, <2>17, <2>18 DEF g, n
<1>3. QED
  BY <1>1, <1>2

\* There is a first block among the ones that fit.
LEMMA FirstFitFits ==
  ASSUME NEW h, Well(h), NEW size, Fitting(h, size) # {}
  PROVE  /\ FirstFit(h, size) \in DOMAIN h
         /\ h[FirstFit(h, size)].free = 1
         /\ h[FirstFit(h, size)].size >= size
<1> DEFINE S == Fitting(h, size)
<1>1. S \subseteq Nat
  BY HeapAssumption, WellBlock DEF Fitting
<1>2. IsWellFoundedOn(OpToRel(<, Nat), Nat)
  BY NatLessThanWellFounded
<1>3. PICK b \in S : \A c \in S : ~ (<<c, b>> \in OpToRel(<, Nat))
  BY <1>1, <1>2, WFMin
<1>4. ASSUME NEW c \in S PROVE b <= c
  <2>1. b \in Nat /\ c \in Nat
    BY <1>1, <1>3
  <2>2. c < b => <<c, b>> \in OpToRel(<, Nat)
    BY <2>1 DEF OpToRel
  <2>3. <<c, b>> \notin OpToRel(<, Nat)
    BY <1>3
  <2>4. ~(c < b)
    BY <2>2, <2>3, Zenon
  <2>5. QED
    BY <2>1, <2>4
<1>5. FirstFit(h, size) \in S
  BY <1>4 DEF FirstFit
<1>6. QED
  BY <1>5 DEF Fitting

----------------------------------------------------------------------------
(* The cells of a block. *)

\* The first n cells of block b.
Part(b, n) == Span(payload(b), n)

\* What lies in a block is a cell of the heap.
LEMMA PartIsCells ==
  ASSUME NEW h, Well(h), NEW b \in DOMAIN h, NEW n \in Nat, n <= h[b].size
  PROVE  Part(b, n) \subseteq Cells
<1> USE HeapAssumption
<1>1. /\ b \in Int /\ Base <= b /\ h[b].size \in Nat
      /\ b + HEADER_SIZE + h[b].size <= Limit
  BY WellBlock DEF End, payload
<1>2. QED
  BY <1>1 DEF Part, Span, payload, Cells, Limit

\* Two blocks share no cell, and no block contains another's header.
LEMMA PartsApart ==
  ASSUME NEW h, Well(h), NEW b \in DOMAIN h, NEW c \in DOMAIN h, b # c,
         NEW n \in Nat, n <= h[b].size, NEW k \in Nat, k <= h[c].size
  PROVE  /\ Part(b, n) \cap Part(c, k) = {}
         /\ Part(b, n) \cap Span(c, HEADER_SIZE) = {}
<1> USE HeapAssumption
<1>1. /\ b \in Int /\ h[b].size \in Nat
      /\ c \in Int /\ h[c].size \in Nat
      /\ End(h, b) = b + HEADER_SIZE + h[b].size
      /\ End(h, c) = c + HEADER_SIZE + h[c].size
  BY WellBlock DEF End, payload
<1>2. End(h, b) <= c \/ End(h, c) <= b
  BY <1>1 DEF Well, Tiled, Disjoint
<1>3. QED
  BY <1>1, <1>2 DEF Part, Span, payload

----------------------------------------------------------------------------
(* What the calls do to the block list. *)

\* Taking a free block.
LEMMA TakenWell ==
  ASSUME NEW h, Well(h), NEW e \in DOMAIN h, h[e].free = 1,
         NEW size \in Nat, size <= h[e].size
  PROVE  LET g == Taken(h, e, size)
         IN  /\ Well(g)
             /\ DOMAIN h \subseteq DOMAIN g
             /\ size <= g[e].size
             /\ g[e].free = 0
             /\ \A b \in DOMAIN h \ {e} : /\ g[b].size = h[b].size
                                          /\ g[b].free = h[b].free
             /\ \A b \in DOMAIN g \ DOMAIN h : g[b].free = 1
<1> DEFINE k == split(h, e, size)
           g == Taken(h, e, size)
<1>1. g = [k EXCEPT ![e].free = 0]
  BY DEF Taken
<1>2. /\ Well(k) /\ DOMAIN h \subseteq DOMAIN k /\ size <= k[e].size
      /\ \A b \in DOMAIN h \ {e} : /\ k[b].size = h[b].size
                                   /\ k[b].free = h[b].free
      /\ \A b \in DOMAIN k \ DOMAIN h : k[b].free = 1
  BY SplitWell
<1> HIDE DEF k, g
<1>3. /\ Well(g) /\ DOMAIN g = DOMAIN k
      /\ g[e].size = k[e].size /\ g[e].free = 0
      /\ \A b \in DOMAIN k \ {e} : g[b] = k[b]
  BY <1>1, <1>2, MarkWell
<1>4. QED
  BY <1>2, <1>3 DEF g

\* Freeing a block: the blocks in use are the others, as they were.
LEMMA FreedWell ==
  ASSUME NEW h, Well(h), NEW e \in DOMAIN h, h[e].free = 0
  PROVE  LET g == Freed(h, e)
         IN  /\ Well(g)
             /\ DOMAIN g \subseteq DOMAIN h
             /\ \A b \in DOMAIN h \ {e} :
                  h[b].free = 0 => b \in DOMAIN g /\ g[b].free = 0
                                   /\ g[b].size = h[b].size
             /\ \A b \in DOMAIN g : g[b].free = 0 => b # e /\ h[b].free = 0
<1> DEFINE k == Marked(h, e)
           m == MergedUp(h, e)
           p == m[e].previous
           g == Freed(h, e)
<1>1. /\ Well(k) /\ DOMAIN k = DOMAIN h /\ k[e].free = 1
      /\ \A b \in DOMAIN h \ {e} : k[b] = h[b]
  BY MarkWell DEF Marked
<1>2. /\ Well(m) /\ DOMAIN m \subseteq DOMAIN h
      /\ e \in DOMAIN m /\ m[e].free = 1
      /\ \A b \in DOMAIN m \ {e} : /\ m[b].size = h[b].size
                                   /\ m[b].free = h[b].free
      /\ \A b \in DOMAIN h \ DOMAIN m : b # e /\ h[b].free = 1
  <2> HIDE DEF k
  <2>1. m = coalesce(k, e)
    BY DEF MergedUp, k
  <2>2. /\ Well(m) /\ DOMAIN m \subseteq DOMAIN k
        /\ e \in DOMAIN m /\ m[e].free = k[e].free
        /\ \A b \in DOMAIN m \ {e} : /\ m[b].size = k[b].size
                                     /\ m[b].free = k[b].free
        /\ \A b \in DOMAIN k \ DOMAIN m : k[b].free = 1
    BY <1>1, <2>1, CoalesceWell
  <2>3. QED
    BY <1>1, <2>2
<1> HIDE DEF k, m
<1>3. CASE p # Null /\ m[p].free = 1
  <2>1. g = coalesce(m, p) /\ p \in DOMAIN m
    BY <1>2, <1>3, WellBlock DEF Freed, m
  <2> HIDE DEF g, p
  <2>2. /\ Well(g) /\ DOMAIN g \subseteq DOMAIN m
        /\ p \in DOMAIN g /\ g[p].free = 1
        /\ \A b \in DOMAIN g \ {p} : /\ g[b].size = m[b].size
                                     /\ g[b].free = m[b].free
        /\ \A b \in DOMAIN m \ DOMAIN g : m[b].free = 1
    BY <1>2, <1>3, <2>1, CoalesceWell
  <2>3. QED
    BY <1>2, <1>3, <2>1, <2>2 DEF g
<1>4. CASE ~(p # Null /\ m[p].free = 1)
  <2>1. g = m
    BY <1>4 DEF Freed, m
  <2>2. QED
    BY <1>2, <2>1
<1>5. QED
  BY <1>3, <1>4

----------------------------------------------------------------------------
(* The blocks in use after each call, and their lengths. *)

\* Every block in use but e is still in use and as long as it was.
KeepsOthers(h, g, e) ==
  \A b \in Used(h) \ {e} : b \in Used(g) /\ g[b].size = h[b].size

LEMMA TakenUsed ==
  ASSUME NEW h, Well(h), NEW size \in Nat, Fitting(h, size) # {}
  PROVE  LET e == FirstFit(h, size)
             g == Taken(h, e, size)
         IN  /\ Well(g) /\ e \in DOMAIN h /\ e \notin Used(h)
             /\ Used(g) = Used(h) \cup {e}
             /\ size <= g[e].size
             /\ KeepsOthers(h, g, e)
<1> DEFINE e == FirstFit(h, size)
           g == Taken(h, e, size)
<1>1. e \in DOMAIN h /\ h[e].free = 1 /\ h[e].size >= size /\ h[e].size \in Nat
  BY FirstFitFits, WellBlock
<1> HIDE DEF e
<1>2. /\ Well(g) /\ DOMAIN h \subseteq DOMAIN g
      /\ size <= g[e].size /\ g[e].free = 0
      /\ \A b \in DOMAIN h \ {e} : /\ g[b].size = h[b].size
                                   /\ g[b].free = h[b].free
      /\ \A b \in DOMAIN g \ DOMAIN h : g[b].free = 1
  BY <1>1, TakenWell
<1> HIDE DEF g
<1>3. QED
  BY <1>1, <1>2 DEF Used, KeepsOthers, e, g

LEMMA FreedUsed ==
  ASSUME NEW h, Well(h), NEW e \in Used(h)
  PROVE  LET g == Freed(h, e)
         IN  /\ Well(g)
             /\ Used(g) = Used(h) \ {e}
             /\ KeepsOthers(h, g, e)
<1> DEFINE g == Freed(h, e)
<1>1. /\ Well(g) /\ DOMAIN g \subseteq DOMAIN h
      /\ \A b \in DOMAIN h \ {e} :
           h[b].free = 0 => b \in DOMAIN g /\ g[b].free = 0
                            /\ g[b].size = h[b].size
      /\ \A b \in DOMAIN g : g[b].free = 0 => b # e /\ h[b].free = 0
  BY FreedWell DEF Used
<1> HIDE DEF g
<1>2. QED
  BY <1>1 DEF Used, KeepsOthers, g

LEMMA SplitUsed ==
  ASSUME NEW h, Well(h), NEW e \in Used(h), NEW size \in Nat, size <= h[e].size
  PROVE  LET g == split(h, e, size)
         IN  /\ Well(g)
             /\ Used(g) = Used(h)
             /\ size <= g[e].size
             /\ KeepsOthers(h, g, e)
<1> DEFINE g == split(h, e, size)
<1>1. /\ Well(g) /\ DOMAIN h \subseteq DOMAIN g
      /\ size <= g[e].size /\ g[e].free = h[e].free
      /\ \A b \in DOMAIN h \ {e} : /\ g[b].size = h[b].size
                                   /\ g[b].free = h[b].free
      /\ \A b \in DOMAIN g \ DOMAIN h : g[b].free = 1
  BY SplitWell DEF Used
<1> HIDE DEF g
<1>2. QED
  BY <1>1 DEF Used, KeepsOthers, g

LEMMA GrownUsed ==
  ASSUME NEW h, Well(h), NEW e \in Used(h), NEW size \in Nat,
         CanGrow(h, e, size)
  PROVE  LET g == split(coalesce(h, e), e, size)
         IN  /\ Well(g)
             /\ Used(g) = Used(h)
             /\ size <= g[e].size
             /\ KeepsOthers(h, g, e)
<1> DEFINE k == coalesce(h, e)
           g == split(k, e, size)
<1>1. /\ Well(k) /\ DOMAIN k \subseteq DOMAIN h /\ e \in DOMAIN k
      /\ k[e].free = h[e].free
      /\ \A b \in DOMAIN k \ {e} : /\ k[b].size = h[b].size
                                   /\ k[b].free = h[b].free
      /\ \A b \in DOMAIN h \ DOMAIN k : h[b].free = 1
      /\ k[e].size = h[e].size + HEADER_SIZE + h[h[e].next].size
  BY CoalesceWell DEF Used, CanGrow
<1> HIDE DEF k
<1>2. Used(k) = Used(h) /\ e \in Used(k) /\ KeepsOthers(h, k, e)
  BY <1>1 DEF Used, KeepsOthers
<1>3. size <= k[e].size
  BY <1>1, WellBlock, HeapAssumption DEF CanGrow, Used
<1>4. /\ Well(g) /\ Used(g) = Used(k) /\ size <= g[e].size
      /\ KeepsOthers(k, g, e)
  BY <1>1, <1>2, <1>3, SplitUsed
<1>5. QED
  BY <1>2, <1>4 DEF KeepsOthers, k

----------------------------------------------------------------------------
(* The inductive invariant: the block list is well formed, and what the guest *)
(* holds is what the list says is in use.  UsedIsHeld is needed to know that  *)
(* the block a call computes from an address is one of the list.              *)

Contents == Objects \cup {Header, Junk}

HeapInv ==
  /\ Well(hdr)
  /\ ptr \in [Objects -> Nat]
  /\ asked \in [Objects -> Nat]
  /\ UsedIsHeld
  /\ SaneRequestsHonoured

\* The block of an object the guest holds.
LEMMA HeldBlock ==
  ASSUME HeapInv, NEW o \in Objects, ptr[o] # Null
  PROVE  LET e == block_of(ptr[o])
         IN  /\ e = ptr[o] - HEADER_SIZE /\ e # Null
             /\ e \in Used(hdr) /\ e \in DOMAIN hdr /\ payload(e) = ptr[o]
             /\ End(hdr, e) = ptr[o] + hdr[e].size
             /\ Base <= e /\ End(hdr, e) <= Limit
<1> USE HeapAssumption
<1> DEFINE b == ptr[o] - HEADER_SIZE
<1>1. b \in Used(hdr) /\ b \in DOMAIN hdr
  BY DEF HeapInv, UsedIsHeld, Held, Used
<1>2. ptr[o] \in Nat /\ b \in Int /\ Base <= b /\ End(hdr, b) <= Limit
  BY <1>1, WellBlock DEF HeapInv
<1>3. payload(b) = ptr[o] /\ payload(b) < Limit
  BY <1>1, <1>2 DEF payload, HeapInv, Well, Tiled, PayloadsInside
<1>4. block_of(ptr[o]) = b
  BY <1>2, <1>3 DEF block_of, Limit
<1>5. QED
  BY <1>1, <1>2, <1>3, <1>4 DEF End, Null

\* A call that gives o the block e of the new list, or keeps o where it is,
\* and leaves the blocks of the others alone, keeps the ownership facts.
LEMMA GivenBlock ==
  ASSUME HeapInv, NEW o \in Objects, NEW e, NEW n \in Nat, NEW g,
         Well(g), e \in Used(g),
         hdr' = g, Hold(o, payload(e), n),
         Sane(n) => n <= g[e].size,
         \A q \in Held \ {o} :
           /\ ptr[q] - HEADER_SIZE # e
           /\ ptr[q] - HEADER_SIZE \in Used(g)
           /\ g[ptr[q] - HEADER_SIZE].size = hdr[ptr[q] - HEADER_SIZE].size,
         Used(g) = {e} \cup {ptr[q] - HEADER_SIZE : q \in Held \ {o}}
  PROVE  HeapInv'
<1> USE HeapAssumption
<1>1. e \in Int /\ Base <= e /\ payload(e) \in Nat /\ payload(e) # Null
      /\ payload(e) - HEADER_SIZE = e
  BY WellBlock DEF Used, payload, Null
<1>2. /\ ptr' \in [Objects -> Nat] /\ asked' \in [Objects -> Nat]
      /\ ptr'[o] = payload(e) /\ asked'[o] = n
      /\ \A q \in Objects \ {o} : ptr'[q] = ptr[q] /\ asked'[q] = asked[q]
  BY <1>1 DEF HeapInv, Hold
<1>3. Held' = Held \cup {o}
  BY <1>1, <1>2 DEF Held
<1>4. UsedIsHeld'
  <2>1. Used(hdr') = {ptr'[q] - HEADER_SIZE : q \in Held'}
    BY <1>1, <1>2, <1>3 DEF Held
  <2>2. ASSUME NEW q \in Held', NEW r \in Held', ptr'[q] = ptr'[r]
        PROVE  q = r
    <3>1. q \in Held /\ r \in Held => q = o \/ r = o \/ ptr[q] # ptr[r] \/ q = r
      BY DEF HeapInv, UsedIsHeld
    <3>2. CASE q # o /\ r # o
      BY <2>2, <3>1, <3>2, <1>2, <1>3 DEF Held
    <3>3. CASE q = o /\ r # o
      BY <2>2, <3>3, <1>1, <1>2, <1>3 DEF Held
    <3>4. CASE q # o /\ r = o
      BY <2>2, <3>4, <1>1, <1>2, <1>3 DEF Held
    <3>5. QED
      BY <3>2, <3>3, <3>4
  <2>3. QED
    BY <2>1, <2>2 DEF UsedIsHeld
<1>5. SaneRequestsHonoured'
  <2>1. ASSUME NEW q \in Held', Sane(asked'[q])
        PROVE  asked'[q] <= hdr'[ptr'[q] - HEADER_SIZE].size
    <3>1. CASE q = o
      BY <2>1, <3>1, <1>1, <1>2
    <3>2. CASE q # o
      BY <2>1, <3>2, <1>2, <1>3 DEF HeapInv, SaneRequestsHonoured, Held
    <3>3. QED
      BY <3>1, <3>2
  <2>2. QED
    BY <2>1 DEF SaneRequestsHonoured, Sane
<1>6. QED
  BY <1>2, <1>4, <1>5 DEF HeapInv

\* The others' blocks, before a call for o.
LEMMA OthersBlocks ==
  ASSUME HeapInv, NEW o \in Objects
  PROVE  /\ \A q \in Held \ {o} : ptr[q] - HEADER_SIZE \in Used(hdr)
         /\ ptr[o] = Null =>
              Used(hdr) = {ptr[q] - HEADER_SIZE : q \in Held \ {o}}
         /\ ptr[o] # Null =>
              /\ Used(hdr) \ {block_of(ptr[o])}
                   = {ptr[q] - HEADER_SIZE : q \in Held \ {o}}
              /\ \A q \in Held \ {o} :
                   ptr[q] - HEADER_SIZE # block_of(ptr[o])
<1> USE HeapAssumption
<1>1. \A q \in Held : ptr[q] \in Nat
  BY DEF HeapInv, Held
<1>2. CASE ptr[o] = Null
  BY <1>2 DEF HeapInv, UsedIsHeld, Held
<1>3. CASE ptr[o] # Null
  <2>1. block_of(ptr[o]) = ptr[o] - HEADER_SIZE
    BY <1>3, HeldBlock
  <2>2. \A q \in Held \ {o} : ptr[q] - HEADER_SIZE # ptr[o] - HEADER_SIZE
    BY <1>1, <1>3 DEF HeapInv, UsedIsHeld, Held
  <2>3. QED
    BY <1>3, <2>1, <2>2 DEF HeapInv, UsedIsHeld, Held
<1>4. QED
  BY <1>2, <1>3

LEMMA RequestLength ==
  ASSUME NEW n \in Requests
  PROVE  /\ n \in Nat /\ Rounded(n) \in Nat
         /\ \A k \in Nat : Sane(n) /\ Rounded(n) <= k => n <= k
<1>1. n \in 0..(Word - 1) /\ Word \in Nat
  BY HeapAssumption
<1>2. QED
  BY <1>1, Rounding

LEMMA AllocKeeps ==
  ASSUME HeapInv, NEW o \in Objects, NEW n \in Requests, Alloc(o, n)
  PROVE  HeapInv'
<1> DEFINE size == Rounded(n)
           e == FirstFit(hdr, size)
           g == Taken(hdr, e, size)
<1>1. ptr[o] = Null /\ Fitting(hdr, size) # {} /\ hdr' = g
      /\ Hold(o, payload(e), n)
  BY DEF Alloc
<1>2. size \in Nat /\ n \in Nat /\ Well(hdr)
  BY RequestLength DEF HeapInv
<1> HIDE DEF size
<1>3. /\ Well(g) /\ e \notin Used(hdr) /\ Used(g) = Used(hdr) \cup {e}
      /\ size <= g[e].size /\ KeepsOthers(hdr, g, e)
  BY <1>1, <1>2, TakenUsed
<1> HIDE DEF e, g
<1>4. Sane(n) => n <= g[e].size
  BY <1>3, WellBlock, RequestLength DEF Used, size
<1>5. Used(hdr) = {ptr[q] - HEADER_SIZE : q \in Held \ {o}}
  BY <1>1, OthersBlocks
<1>6. \A q \in Held \ {o} :
        /\ ptr[q] - HEADER_SIZE # e
        /\ ptr[q] - HEADER_SIZE \in Used(g)
        /\ g[ptr[q] - HEADER_SIZE].size = hdr[ptr[q] - HEADER_SIZE].size
  BY <1>3, <1>5 DEF KeepsOthers
<1>7. QED
  BY <1>1, <1>2, <1>3, <1>4, <1>5, <1>6, GivenBlock

LEMMA FreeKeeps ==
  ASSUME HeapInv, NEW o \in Objects, Free(o)
  PROVE  HeapInv'
<1> USE HeapAssumption
<1> DEFINE e == block_of(ptr[o])
           g == Freed(hdr, e)
<1>1. ptr[o] # Null /\ hdr' = g /\ Hold(o, Null, 0)
  BY DEF Free
<1>2. e \in Used(hdr) /\ Well(hdr)
  BY <1>1, HeldBlock DEF HeapInv
<1>3. /\ Used(hdr) \ {e} = {ptr[q] - HEADER_SIZE : q \in Held \ {o}}
      /\ \A q \in Held \ {o} : ptr[q] - HEADER_SIZE # e
                               /\ ptr[q] - HEADER_SIZE \in Used(hdr)
  BY <1>1, OthersBlocks
<1> HIDE DEF e
<1>4. Well(g) /\ Used(g) = Used(hdr) \ {e} /\ KeepsOthers(hdr, g, e)
  BY <1>2, FreedUsed
<1> HIDE DEF g
<1>5. /\ ptr' \in [Objects -> Nat] /\ asked' \in [Objects -> Nat]
      /\ ptr'[o] = Null
      /\ \A q \in Objects \ {o} : ptr'[q] = ptr[q] /\ asked'[q] = asked[q]
  BY <1>1 DEF HeapInv, Hold, Null
<1>6. Held' = Held \ {o}
  BY <1>1, <1>5 DEF Held
<1>7. UsedIsHeld'
  <2>1. Used(hdr') = {ptr'[q] - HEADER_SIZE : q \in Held'}
    BY <1>1, <1>3, <1>4, <1>5, <1>6 DEF Held
  <2>2. \A q, r \in Held' : ptr'[q] = ptr'[r] => q = r
    BY <1>5, <1>6 DEF HeapInv, UsedIsHeld, Held
  <2>3. QED
    BY <2>1, <2>2 DEF UsedIsHeld
<1>8. SaneRequestsHonoured'
  <2>1. ASSUME NEW q \in Held', Sane(asked'[q])
        PROVE  asked'[q] <= hdr'[ptr'[q] - HEADER_SIZE].size
    <3>1. q \in Held /\ q # o /\ ptr'[q] = ptr[q] /\ asked'[q] = asked[q]
      BY <1>5, <1>6 DEF Held
    <3>2. hdr'[ptr[q] - HEADER_SIZE].size = hdr[ptr[q] - HEADER_SIZE].size
      BY <1>1, <1>3, <1>4, <3>1 DEF KeepsOthers
    <3>3. QED
      BY <2>1, <3>1, <3>2 DEF HeapInv, SaneRequestsHonoured
  <2>2. QED
    BY <2>1 DEF SaneRequestsHonoured, Sane
<1>9. QED
  BY <1>1, <1>4, <1>5, <1>7, <1>8 DEF HeapInv

\* A reallocation that leaves o in its block.
LEMMA InPlaceKeeps ==
  ASSUME HeapInv, NEW o \in Objects, NEW n \in Requests, ptr[o] # Null, NEW g,
         Well(g), Used(g) = Used(hdr),
         Rounded(n) <= g[block_of(ptr[o])].size,
         KeepsOthers(hdr, g, block_of(ptr[o])),
         hdr' = g, Hold(o, ptr[o], n)
  PROVE  HeapInv'
<1> DEFINE e == block_of(ptr[o])
<1>1. e \in Used(hdr) /\ payload(e) = ptr[o]
  BY HeldBlock
<1>2. n \in Nat /\ (Sane(n) => n <= g[e].size)
  BY <1>1, WellBlock, RequestLength DEF Used
<1>3. /\ Used(hdr) \ {e} = {ptr[q] - HEADER_SIZE : q \in Held \ {o}}
      /\ \A q \in Held \ {o} : ptr[q] - HEADER_SIZE # e
                               /\ ptr[q] - HEADER_SIZE \in Used(hdr)
  BY OthersBlocks
<1> HIDE DEF e
<1>4. Used(g) = {e} \cup {ptr[q] - HEADER_SIZE : q \in Held \ {o}}
  BY <1>1, <1>3
<1>5. \A q \in Held \ {o} :
        /\ ptr[q] - HEADER_SIZE # e
        /\ ptr[q] - HEADER_SIZE \in Used(g)
        /\ g[ptr[q] - HEADER_SIZE].size = hdr[ptr[q] - HEADER_SIZE].size
  BY <1>3 DEF KeepsOthers, e
<1>6. QED
  BY <1>1, <1>2, <1>4, <1>5, GivenBlock

LEMMA ReallocInPlaceKeeps ==
  ASSUME HeapInv, NEW o \in Objects, NEW n \in Requests, ReallocInPlace(o, n)
  PROVE  HeapInv'
<1> DEFINE e == block_of(ptr[o])
           g == split(hdr, e, Rounded(n))
<1>1. /\ ptr[o] # Null /\ hdr[e].size >= Rounded(n)
      /\ hdr' = g /\ Hold(o, ptr[o], n)
  BY DEF ReallocInPlace
<1>2. e \in Used(hdr) /\ Well(hdr) /\ Rounded(n) \in Nat /\ hdr[e].size \in Nat
  BY <1>1, HeldBlock, RequestLength, WellBlock DEF HeapInv
<1> HIDE DEF e
<1>3. /\ Well(g) /\ Used(g) = Used(hdr) /\ Rounded(n) <= g[e].size
      /\ KeepsOthers(hdr, g, e)
  BY <1>1, <1>2, SplitUsed
<1>4. QED
  BY <1>1, <1>3, InPlaceKeeps DEF e

LEMMA ReallocGrowKeeps ==
  ASSUME HeapInv, NEW o \in Objects, NEW n \in Requests, ReallocGrow(o, n)
  PROVE  HeapInv'
<1> DEFINE e == block_of(ptr[o])
           g == split(coalesce(hdr, e), e, Rounded(n))
<1>1. /\ ptr[o] # Null /\ CanGrow(hdr, e, Rounded(n))
      /\ hdr' = g /\ Hold(o, ptr[o], n)
  BY DEF ReallocGrow
<1>2. e \in Used(hdr) /\ Well(hdr) /\ Rounded(n) \in Nat
  BY <1>1, HeldBlock, RequestLength DEF HeapInv
<1> HIDE DEF e
<1>3. /\ Well(g) /\ Used(g) = Used(hdr) /\ Rounded(n) <= g[e].size
      /\ KeepsOthers(hdr, g, e)
  BY <1>1, <1>2, GrownUsed
<1>4. QED
  BY <1>1, <1>3, InPlaceKeeps DEF e

LEMMA ReallocMoveKeeps ==
  ASSUME HeapInv, NEW o \in Objects, NEW n \in Requests, ReallocMove(o, n)
  PROVE  HeapInv'
<1> DEFINE e == block_of(ptr[o])
           f == FirstFit(hdr, Rounded(n))
           k == Taken(hdr, f, Rounded(n))
           g == Freed(k, e)
<1>1. /\ ptr[o] # Null /\ Fitting(hdr, Rounded(n)) # {}
      /\ hdr' = g /\ Hold(o, payload(f), n)
  BY DEF ReallocMove
<1>2. e \in Used(hdr) /\ Well(hdr) /\ Rounded(n) \in Nat /\ n \in Nat
  BY <1>1, HeldBlock, RequestLength DEF HeapInv
<1>3. /\ Well(k) /\ f \notin Used(hdr) /\ Used(k) = Used(hdr) \cup {f}
      /\ Rounded(n) <= k[f].size /\ KeepsOthers(hdr, k, f)
  BY <1>1, <1>2, TakenUsed
<1>4. /\ Used(hdr) \ {e} = {ptr[q] - HEADER_SIZE : q \in Held \ {o}}
      /\ \A q \in Held \ {o} : ptr[q] - HEADER_SIZE # e
                               /\ ptr[q] - HEADER_SIZE \in Used(hdr)
  BY <1>1, OthersBlocks
<1> HIDE DEF e, f, k
<1>5. /\ Well(g) /\ Used(g) = Used(k) \ {e} /\ KeepsOthers(k, g, e)
  BY <1>2, <1>3, FreedUsed
<1> HIDE DEF g
<1>6. f \in Used(g) /\ g[f].size = k[f].size
  BY <1>2, <1>3, <1>5 DEF KeepsOthers
<1>7. Sane(n) => n <= g[f].size
  BY <1>3, <1>5, <1>6, WellBlock, RequestLength DEF Used
<1>8. Used(g) = {f} \cup {ptr[q] - HEADER_SIZE : q \in Held \ {o}}
  BY <1>2, <1>3, <1>4, <1>5
<1>9. \A q \in Held \ {o} :
        /\ ptr[q] - HEADER_SIZE # f
        /\ ptr[q] - HEADER_SIZE \in Used(g)
        /\ g[ptr[q] - HEADER_SIZE].size = hdr[ptr[q] - HEADER_SIZE].size
  BY <1>3, <1>4, <1>5 DEF KeepsOthers
<1>10. QED
  BY <1>1, <1>2, <1>5, <1>6, <1>7, <1>8, <1>9, GivenBlock

LEMMA InitHeapInv == Init => HeapInv
<1> USE HeapAssumption
<1> SUFFICES ASSUME Init PROVE HeapInv
  OBVIOUS
<1>1. /\ DOMAIN hdr = {Base} /\ Held = {}
      /\ hdr = [b \in {Base} |-> [size |-> HeapSize - HEADER_SIZE, free |-> 1,
                                  next |-> Null, previous |-> Null]]
  BY DEF Init, Held
<1>2. HeadersTyped(hdr)
  BY <1>1 DEF HeadersTyped, HeaderRecords, Cells, Limit, Null
<1>3. Tiled(hdr)
  <2>1. End(hdr, Base) = Limit
    BY <1>1 DEF End, payload, Limit
  <2>2. QED
    BY <1>1, <2>1 DEF Tiled, Disjoint, NextLinks, PreviousLinks, PayloadsInside,
                      payload, Limit, Null
<1>4. UsedIsHeld
  BY <1>1 DEF UsedIsHeld, Used
<1>5. QED
  BY <1>1, <1>2, <1>3, <1>4
     DEF Init, HeapInv, Well, SaneRequestsHonoured, Null

LEMMA NextHeapInv == HeapInv /\ [Next]_vars => HeapInv'
<1> SUFFICES ASSUME HeapInv, [Next]_vars PROVE HeapInv'
  OBVIOUS
<1>1. ASSUME NEW o \in Objects, NEW n \in Requests, Alloc(o, n) PROVE HeapInv'
  BY <1>1, AllocKeeps
<1>2. ASSUME NEW o \in Objects, Free(o) PROVE HeapInv'
  BY <1>2, FreeKeeps
<1>3. ASSUME NEW o \in Objects, NEW n \in Requests,
             \/ ReallocInPlace(o, n)
             \/ ReallocGrow(o, n)
             \/ ReallocMove(o, n)
      PROVE  HeapInv'
  BY <1>3, ReallocInPlaceKeeps, ReallocGrowKeeps, ReallocMoveKeeps
<1>4. CASE UNCHANGED vars
  BY <1>4 DEF vars, HeapInv, UsedIsHeld, SaneRequestsHonoured, Held
<1>5. ASSUME NEW o \in Objects, NEW n \in Requests,
             AllocRefused(o, n) \/ ReallocRefused(o, n)
      PROVE  HeapInv'
  BY <1>4, <1>5 DEF AllocRefused, ReallocRefused
<1>6. QED
  BY <1>1, <1>2, <1>3, <1>4, <1>5 DEF Next, AllocOrFree, Realloc

\* Whatever the layout, the heap's size and the calls the guest makes, the
\* block list tiles the heap with agreeing links (guest_heap.c:78-103).
THEOREM ChainTilesHeapAlways == Spec => []ChainTilesHeap
<1>1. HeapInv => ChainTilesHeap
  BY DEF HeapInv, Well, ChainTilesHeap
<1>2. QED
  BY <1>1, InitHeapInv, NextHeapInv, PTL DEF Spec

\* The blocks in use are exactly the ones the guest holds: no call leaks a
\* block, hands one out twice or frees another's (guest_heap.c:105-188).
THEOREM UsedIsHeldAlways == Spec => []UsedIsHeld
<1>1. HeapInv => UsedIsHeld
  BY DEF HeapInv
<1>2. QED
  BY <1>1, InitHeapInv, NextHeapInv, PTL DEF Spec

\* A request that survives rounding up is honoured in full, as long as the
\* guest holds the object (guest_heap.h:31-35).
THEOREM SaneRequestsHonouredAlways == Spec => []SaneRequestsHonoured
<1>1. HeapInv => SaneRequestsHonoured
  BY DEF HeapInv
<1>2. QED
  BY <1>1, InitHeapInv, NextHeapInv, PTL DEF Spec

----------------------------------------------------------------------------
(* The types.  Only the copy of a move reads a cell it has to compute: it     *)
(* lies in the block the object leaves.                                       *)

MemTyped(m) == m \in [Cells -> Contents]

LEMMA FilledTyped ==
  ASSUME NEW m, MemTyped(m), NEW cells, NEW value \in Contents
  PROVE  MemTyped(Filled(m, cells, value))
  BY DEF MemTyped, Filled

LEMMA WrittenTyped ==
  ASSUME NEW m, MemTyped(m), NEW h, NEW g
  PROVE  MemTyped(Written(m, h, g))
<1>1. Header \in Contents /\ Junk \in Contents
  BY DEF Contents
<1>2. MemTyped(Filled(m, NewHeaders(g, h), Junk))
  BY <1>1, FilledTyped
<1>3. QED
  BY <1>1, <1>2, FilledTyped DEF Written

LEMMA RefilledTyped ==
  ASSUME NEW m, MemTyped(m), NEW o \in Objects, NEW p, NEW n
  PROVE  MemTyped(Refilled(m, o, p, n))
  BY FilledTyped DEF Refilled, Contents

LEMMA MoveTyped ==
  ASSUME HeapInv, MemTyped(mem), NEW o \in Objects, NEW n \in Requests,
         ReallocMove(o, n)
  PROVE  MemTyped(mem')
<1> USE HeapAssumption
<1> DEFINE e == block_of(ptr[o])
           f == FirstFit(hdr, Rounded(n))
           k == Taken(hdr, f, Rounded(n))
           g == Freed(k, e)
           p == payload(f)
           w == Written(mem, hdr, k)
           copied == Copied(w, ptr[o], p, k[e].size)
           scrubbed == Filled(copied, Mine(ptr[o], asked[o]), Junk)
<1>1. /\ ptr[o] # Null /\ Fitting(hdr, Rounded(n)) # {}
      /\ mem' = Refilled(Written(scrubbed, k, g), o, p, n)
  BY DEF ReallocMove
<1>2. Well(hdr) /\ Rounded(n) \in Nat
  BY RequestLength DEF HeapInv
<1>3. e \in Used(hdr) /\ e \in DOMAIN hdr /\ payload(e) = ptr[o]
  BY <1>1, HeldBlock
<1>4. /\ Well(k) /\ f \in DOMAIN hdr /\ f \notin Used(hdr)
      /\ KeepsOthers(hdr, k, f)
  BY <1>1, <1>2, TakenUsed
<1> HIDE DEF e, f, k
<1>5. e \in DOMAIN k /\ k[e].size \in Nat /\ k[e].size <= k[e].size
  BY <1>3, <1>4, WellBlock DEF KeepsOthers, Used
<1>6. f \in Int /\ e \in Int
  BY <1>2, <1>3, <1>4, WellBlock
<1>7. Span(ptr[o], k[e].size) \subseteq Cells
  BY <1>3, <1>4, <1>5, PartIsCells DEF Part
<1>8. MemTyped(w)
  BY WrittenTyped
<1> HIDE DEF w
<1>9. MemTyped(copied)
  <2>1. ASSUME NEW c \in Cells PROVE copied[c] \in Contents
    <3>1. CASE c \in Span(p, k[e].size)
      <4>1. c - p + ptr[o] \in Span(ptr[o], k[e].size)
        BY <3>1, <1>3, <1>5, <1>6 DEF Span, payload
      <4>2. w[c - p + ptr[o]] \in Contents
        BY <4>1, <1>7, <1>8 DEF MemTyped
      <4>3. QED
        BY <3>1, <4>2 DEF Copied
    <3>2. CASE c \notin Span(p, k[e].size)
      BY <3>2, <1>8 DEF Copied, MemTyped
    <3>3. QED
      BY <3>1, <3>2
  <2>2. QED
    BY <2>1 DEF Copied, MemTyped
<1> HIDE DEF copied
<1>10. MemTyped(scrubbed)
  BY <1>9, FilledTyped DEF Contents
<1> HIDE DEF scrubbed
<1>11. MemTyped(Written(scrubbed, k, g))
  BY <1>10, WrittenTyped
<1>12. QED
  BY <1>1, <1>11, RefilledTyped

LEMMA NextMemTyped ==
  HeapInv /\ MemTyped(mem) /\ [Next]_vars => MemTyped(mem')
<1> SUFFICES ASSUME HeapInv, MemTyped(mem), [Next]_vars PROVE MemTyped(mem')
  OBVIOUS
<1>1. Objects \subseteq Contents /\ Junk \in Contents
  BY DEF Contents
<1>2. ASSUME NEW o \in Objects, NEW n \in Requests, Alloc(o, n)
      PROVE  MemTyped(mem')
  BY <1>1, <1>2, FilledTyped, WrittenTyped DEF Alloc
<1>3. ASSUME NEW o \in Objects, Free(o) PROVE MemTyped(mem')
  BY <1>1, <1>3, FilledTyped, WrittenTyped DEF Free
<1>4. ASSUME NEW o \in Objects, NEW n \in Requests, ReallocInPlace(o, n)
      PROVE  MemTyped(mem')
  <2> DEFINE trimmed == Filled(mem, Mine(ptr[o], asked[o]) \ Mine(ptr[o], n), Junk)
             g == split(hdr, block_of(ptr[o]), Rounded(n))
  <2>1. MemTyped(trimmed)
    BY <1>1, FilledTyped
  <2> HIDE DEF trimmed
  <2>2. MemTyped(Written(trimmed, hdr, g))
    BY <2>1, WrittenTyped
  <2>3. mem' = Refilled(Written(trimmed, hdr, g), o, ptr[o], n)
    BY <1>4 DEF ReallocInPlace, trimmed
  <2>4. QED
    BY <2>2, <2>3, RefilledTyped
<1>5. ASSUME NEW o \in Objects, NEW n \in Requests, ReallocGrow(o, n)
      PROVE  MemTyped(mem')
  BY <1>5, WrittenTyped, RefilledTyped DEF ReallocGrow
<1>6. ASSUME NEW o \in Objects, NEW n \in Requests, ReallocMove(o, n)
      PROVE  MemTyped(mem')
  BY <1>6, MoveTyped
<1>7. ASSUME NEW o \in Objects, NEW n \in Requests,
             AllocRefused(o, n) \/ ReallocRefused(o, n)
      PROVE  MemTyped(mem')
  BY <1>7 DEF AllocRefused, ReallocRefused, vars
<1>8. CASE UNCHANGED vars
  BY <1>8 DEF vars
<1>9. QED
  BY <1>2, <1>3, <1>4, <1>5, <1>6, <1>7, <1>8 DEF Next, AllocOrFree, Realloc

\* The variables keep their types, and no call reads or writes a cell outside
\* the heap: the copy of a move stays inside the block it leaves
\* (guest_heap.c:181-186).
THEOREM TypeOKAlways == Spec => []TypeOK
<1>1. Init => MemTyped(mem)
  BY DEF Init, MemTyped, Contents
<1>2. HeapInv /\ MemTyped(mem) => TypeOK
  BY DEF HeapInv, Well, MemTyped, Contents, TypeOK
<1>3. HeapInv /\ MemTyped(mem) /\ [Next]_vars => MemTyped(mem)'
  BY NextMemTyped DEF MemTyped, Cells, Contents, Limit
<1>5. QED
  BY <1>1, <1>2, <1>3, InitHeapInv, NextHeapInv, PTL DEF Spec

----------------------------------------------------------------------------
(* The cells of a block that stays. *)

\* Where the chain is rewritten, the cells of a block that stays are not.
LEMMA WrittenKeeps ==
  ASSUME NEW h, Well(h), NEW g, Well(g),
         NEW b \in DOMAIN h \cap DOMAIN g,
         NEW n \in Nat, n <= h[b].size, n <= g[b].size,
         NEW m, NEW c \in Part(b, n)
  PROVE  Written(m, h, g)[c] = m[c]
<1>1. c \in Cells
  BY PartIsCells
<1>2. c \notin NewHeaders(h, g)
  <2>1. \A d \in (DOMAIN g) \ (DOMAIN h) : c \notin Span(d, HEADER_SIZE)
    <3>1. ASSUME NEW d \in (DOMAIN g) \ (DOMAIN h)
          PROVE  c \notin Span(d, HEADER_SIZE)
      <4>1. d # b /\ d \in DOMAIN g /\ 0 <= g[d].size /\ 0 \in Nat
        BY WellBlock
      <4>2. Part(b, n) \cap Span(d, HEADER_SIZE) = {}
        BY <4>1, PartsApart
      <4>3. QED
        BY <4>2
    <3>2. QED
      BY <3>1
  <2>2. QED
    BY <2>1 DEF NewHeaders
<1>3. c \notin NewHeaders(g, h)
  <2>1. \A d \in (DOMAIN h) \ (DOMAIN g) : c \notin Span(d, HEADER_SIZE)
    <3>1. ASSUME NEW d \in (DOMAIN h) \ (DOMAIN g)
          PROVE  c \notin Span(d, HEADER_SIZE)
      <4>1. d # b /\ d \in DOMAIN h /\ 0 <= h[d].size /\ 0 \in Nat
        BY WellBlock
      <4>2. Part(b, n) \cap Span(d, HEADER_SIZE) = {}
        BY <4>1, PartsApart
      <4>3. QED
        BY <4>2
    <3>2. QED
      BY <3>1
  <2>2. QED
    BY <2>1 DEF NewHeaders
<1>4. QED
  BY <1>1, <1>2, <1>3 DEF Written, Filled

\* The cells an object uses, and its places in them.
LEMMA MineIsPart ==
  ASSUME NEW b \in Int, NEW n \in Nat
  PROVE  /\ Mine(payload(b), n) = IF Sane(n) THEN Part(b, n) ELSE {}
         /\ \A i \in Offsets(n) : /\ payload(b) + i \in Mine(payload(b), n)
                                  /\ i \in Nat /\ i < n /\ Sane(n)
<1> USE HeapAssumption
<1>1. payload(b) \in Int
  BY DEF payload
<1>2. QED
  BY <1>1 DEF Mine, Part, Span, Offsets

\* The block of an object that is held, and the cells it uses.
LEMMA HeldCells ==
  ASSUME HeapInv, NEW q \in Held
  PROVE  LET b == ptr[q] - HEADER_SIZE
         IN  /\ q \in Objects /\ b \in Used(hdr) /\ b \in DOMAIN hdr
             /\ b \in Int /\ payload(b) = ptr[q] /\ b = block_of(ptr[q])
             /\ asked[q] \in Nat
             /\ Sane(asked[q]) => asked[q] <= hdr[b].size
<1> USE HeapAssumption
<1>1. q \in Objects /\ ptr[q] # Null
  BY DEF Held
<1>2. /\ block_of(ptr[q]) = ptr[q] - HEADER_SIZE
      /\ block_of(ptr[q]) \in Used(hdr) /\ block_of(ptr[q]) \in DOMAIN hdr
      /\ payload(block_of(ptr[q])) = ptr[q]
  BY <1>1, HeldBlock
<1>3. ptr[q] - HEADER_SIZE \in Int
  BY <1>2, WellBlock DEF HeapInv
<1>4. QED
  BY <1>1, <1>2, <1>3 DEF HeapInv, SaneRequestsHonoured

\* The cells an object uses are cells of the heap.
LEMMA MineIsCells ==
  ASSUME HeapInv, NEW q \in Held
  PROVE  Mine(ptr[q], asked[q]) \subseteq Cells
<1> DEFINE b == ptr[q] - HEADER_SIZE
<1>1. /\ b \in DOMAIN hdr /\ b \in Int /\ payload(b) = ptr[q]
      /\ asked[q] \in Nat
      /\ Sane(asked[q]) => asked[q] <= hdr[b].size
  BY HeldCells
<1> HIDE DEF b
<1>2. Mine(ptr[q], asked[q]) = IF Sane(asked[q]) THEN Part(b, asked[q]) ELSE {}
  BY <1>1, MineIsPart
<1>3. QED
  BY <1>1, <1>2, PartIsCells DEF HeapInv

----------------------------------------------------------------------------
(* One call, for object o. *)

\* The cells of every other object are as they were.
OthersKept(o) ==
  \A q \in Held \ {o} : \A c \in Mine(ptr[q], asked[q]) : mem'[c] = mem[c]

\* A call for o that keeps the others' cells keeps what they have stored.
LEMMA OthersStored ==
  ASSUME HeapInv, NEW o \in Objects, NEW p \in Nat, NEW n \in Nat,
         Hold(o, p, n), OthersKept(o)
  PROVE  /\ ptr'[o] = p /\ asked'[o] = n
         /\ Held' \ {o} = Held \ {o}
         /\ Stored' = [Stored EXCEPT ![o] = Stored'[o]]
<1>1. /\ ptr'[o] = p /\ asked'[o] = n
      /\ \A q \in Objects \ {o} : ptr'[q] = ptr[q] /\ asked'[q] = asked[q]
  BY DEF HeapInv, Hold
<1>2. Held' \ {o} = Held \ {o}
  BY <1>1 DEF Held
<1>3. ASSUME NEW q \in Objects \ {o}
      PROVE  Stored'[q] = Stored[q]
  <2>1. CASE q \in Held
    <3>1. q \in Held' /\ ptr'[q] = ptr[q] /\ asked'[q] = asked[q]
      BY <1>1, <1>2, <2>1
    <3>2. \A i \in Offsets(asked[q]) : mem'[ptr[q] + i] = mem[ptr[q] + i]
      <4>1. \A i \in Offsets(asked[q]) : ptr[q] + i \in Mine(ptr[q], asked[q])
        BY <2>1, HeldCells, MineIsPart
      <4>2. QED
        BY <4>1, <2>1 DEF OthersKept
    <3>3. Stored[q] = [i \in Offsets(asked[q]) |-> mem[ptr[q] + i]]
      BY <2>1 DEF Stored
    <3>4. Stored'[q] = [i \in Offsets(asked[q]) |-> mem'[ptr[q] + i]]
      BY <3>1 DEF Stored, Offsets, Sane
    <3>5. QED
      BY <3>2, <3>3, <3>4
  <2>2. CASE q \notin Held
    <3>1. q \notin Held'
      BY <1>2, <2>2
    <3>2. QED
      BY <2>2, <3>1 DEF Stored
  <2>3. QED
    BY <2>1, <2>2
<1>4. /\ Stored' = [q \in Objects |-> Stored'[q]]
      /\ Stored = [q \in Objects |-> Stored[q]]
  BY DEF Stored
<1>5. QED
  BY <1>1, <1>2, <1>3, <1>4

\* The chain is rewritten from h to g around blocks that keep their length,
\* and the memory changes in no cell of them but through that.
LEMMA OthersWritten ==
  ASSUME HeapInv, NEW q \in Held, NEW h, Well(h), NEW g, Well(g), NEW m,
         LET b == ptr[q] - HEADER_SIZE
         IN  /\ b \in Used(h) /\ h[b].size = hdr[b].size
             /\ b \in Used(g) /\ g[b].size = hdr[b].size
  PROVE  \A c \in Mine(ptr[q], asked[q]) : Written(m, h, g)[c] = m[c]
<1> DEFINE b == ptr[q] - HEADER_SIZE
<1>1. /\ b \in DOMAIN h \cap DOMAIN g /\ b \in Int /\ payload(b) = ptr[q]
      /\ asked[q] \in Nat
      /\ Sane(asked[q]) => asked[q] <= h[b].size /\ asked[q] <= g[b].size
  BY HeldCells DEF Used
<1> HIDE DEF b
<1>2. Mine(ptr[q], asked[q]) = IF Sane(asked[q]) THEN Part(b, asked[q]) ELSE {}
  BY <1>1, MineIsPart
<1>3. QED
  BY <1>1, <1>2, WrittenKeeps

\* What o uses of block e and what q uses of its own are apart.
LEMMA MineApart ==
  ASSUME HeapInv, NEW q \in Held, NEW h, Well(h), NEW e \in DOMAIN h,
         NEW n \in Nat, n <= h[e].size, e # ptr[q] - HEADER_SIZE,
         ptr[q] - HEADER_SIZE \in Used(h),
         h[ptr[q] - HEADER_SIZE].size = hdr[ptr[q] - HEADER_SIZE].size
  PROVE  Mine(ptr[q], asked[q]) \cap Part(e, n) = {}
<1> DEFINE b == ptr[q] - HEADER_SIZE
<1>1. /\ b \in DOMAIN h /\ b \in Int /\ payload(b) = ptr[q]
      /\ asked[q] \in Nat
      /\ Sane(asked[q]) => asked[q] <= h[b].size
  BY HeldCells DEF Used
<1> HIDE DEF b
<1>2. Mine(ptr[q], asked[q]) = IF Sane(asked[q]) THEN Part(b, asked[q]) ELSE {}
  BY <1>1, MineIsPart
<1>3. b # e
  BY DEF b
<1>4. QED
  BY <1>1, <1>2, <1>3, PartsApart

\* What o stores after a call that leaves it at p.
LEMMA NowStored ==
  ASSUME NEW o \in Objects, NEW p \in Nat, p # Null, NEW n,
         ptr'[o] = p, asked'[o] = n
  PROVE  o \in Held' /\ Stored'[o] = [i \in Offsets(n) |-> mem'[p + i]]
  BY DEF Stored, Held, Offsets, Sane

LEMMA PlacesAreOffsets ==
  ASSUME NEW n \in Requests
  PROVE  Store!Places(n) = Offsets(n)
  BY DEF Store!Places, Offsets

LEMMA AllocPuts ==
  ASSUME HeapInv, NEW o \in Objects, NEW n \in Requests, Alloc(o, n)
  PROVE  Store!Put(o, n)
<1> USE HeapAssumption
<1> DEFINE size == Rounded(n)
           e == FirstFit(hdr, size)
           g == Taken(hdr, e, size)
           p == payload(e)
<1>1. /\ ptr[o] = Null /\ Fitting(hdr, size) # {} /\ Hold(o, p, n)
      /\ mem' = Filled(Written(mem, hdr, g), Mine(p, n), o)
  BY DEF Alloc
<1>2. size \in Nat /\ n \in Nat /\ Well(hdr)
  BY RequestLength DEF HeapInv
<1> HIDE DEF size
<1>3. /\ Well(g) /\ e \notin Used(hdr) /\ Used(g) = Used(hdr) \cup {e}
      /\ size <= g[e].size /\ KeepsOthers(hdr, g, e)
  BY <1>1, <1>2, TakenUsed
<1> HIDE DEF e, g
<1>4. /\ e \in DOMAIN g /\ e \in Int /\ g[e].size \in Nat
      /\ p \in Nat /\ p # Null
  BY <1>3, WellBlock DEF Used, payload, Null
<1>5. Sane(n) => n <= g[e].size
  BY <1>3, <1>4, RequestLength DEF size
<1>6. Mine(p, n) = IF Sane(n) THEN Part(e, n) ELSE {}
  BY <1>2, <1>4, MineIsPart
<1>7. OthersKept(o)
  <2> SUFFICES ASSUME NEW q \in Held \ {o}, NEW c \in Mine(ptr[q], asked[q])
               PROVE  mem'[c] = mem[c]
    BY DEF OthersKept
  <2> DEFINE b == ptr[q] - HEADER_SIZE
  <2>1. b \in Used(hdr) /\ b # e /\ b \in Used(g) /\ g[b].size = hdr[b].size
    BY <1>3, HeldCells DEF KeepsOthers
  <2>2. Written(mem, hdr, g)[c] = mem[c]
    BY <1>2, <1>3, <2>1, OthersWritten
  <2>3. c \notin Mine(p, n)
    BY <1>2, <1>3, <1>4, <1>5, <1>6, <2>1, MineApart
  <2>4. c \in Cells
    BY MineIsCells
  <2>5. QED
    BY <1>1, <2>2, <2>3, <2>4 DEF Filled
<1> HIDE DEF p
<1>8. /\ ptr'[o] = p /\ asked'[o] = n /\ Held' \ {o} = Held \ {o}
      /\ Stored' = [Stored EXCEPT ![o] = Stored'[o]]
  BY <1>1, <1>2, <1>4, <1>7, OthersStored
<1>9. o \in Held' /\ Stored'[o] = [i \in Offsets(n) |-> mem'[p + i]]
  BY <1>4, <1>8, NowStored
<1>10. \A i \in Offsets(n) : mem'[p + i] = o
  <2> SUFFICES ASSUME NEW i \in Offsets(n) PROVE mem'[p + i] = o
    OBVIOUS
  <2>1. p + i \in Mine(p, n) /\ Sane(n)
    BY <1>2, <1>4, MineIsPart DEF p
  <2>2. p + i \in Cells
    BY <1>2, <1>3, <1>4, <1>5, <1>6, <2>1, PartIsCells
  <2>3. QED
    BY <1>1, <2>1, <2>2 DEF Filled
<1>11. o \notin Held /\ Held' = Held \cup {o}
  BY <1>1, <1>8, <1>9 DEF Held
<1>12. Stored' = [Stored EXCEPT ![o] = [i \in Store!Places(n) |-> o]]
  BY <1>8, <1>9, <1>10, PlacesAreOffsets
<1>13. QED
  BY <1>11, <1>12 DEF Store!Put

LEMMA FreeDrops ==
  ASSUME HeapInv, NEW o \in Objects, Free(o)
  PROVE  Store!Drop(o)
<1> USE HeapAssumption
<1> DEFINE e == block_of(ptr[o])
           g == Freed(hdr, e)
<1>1. /\ ptr[o] # Null /\ Hold(o, Null, 0)
      /\ mem' = Filled(Written(mem, hdr, g), Mine(ptr[o], asked[o]), Junk)
  BY DEF Free
<1>2. Well(hdr) /\ o \in Held
  BY <1>1 DEF HeapInv, Held
<1>3. /\ e = ptr[o] - HEADER_SIZE /\ e \in Used(hdr) /\ e \in DOMAIN hdr /\ e \in Int
      /\ payload(e) = ptr[o] /\ asked[o] \in Nat
      /\ Sane(asked[o]) => asked[o] <= hdr[e].size
  BY <1>2, HeldCells
<1>4. \A q \in Held \ {o} : ptr[q] - HEADER_SIZE \in Used(hdr)
                            /\ ptr[q] - HEADER_SIZE # e
  BY <1>1, OthersBlocks
<1> HIDE DEF e
<1>5. Well(g) /\ Used(g) = Used(hdr) \ {e} /\ KeepsOthers(hdr, g, e)
  BY <1>2, <1>3, FreedUsed
<1> HIDE DEF g
<1>6. Mine(ptr[o], asked[o]) = IF Sane(asked[o]) THEN Part(e, asked[o]) ELSE {}
  BY <1>3, MineIsPart
<1>7. OthersKept(o)
  <2> SUFFICES ASSUME NEW q \in Held \ {o}, NEW c \in Mine(ptr[q], asked[q])
               PROVE  mem'[c] = mem[c]
    BY DEF OthersKept
  <2> DEFINE b == ptr[q] - HEADER_SIZE
  <2>1. b \in Used(hdr) /\ b # e /\ b \in Used(g) /\ g[b].size = hdr[b].size
    BY <1>4, <1>5 DEF KeepsOthers
  <2>2. Written(mem, hdr, g)[c] = mem[c]
    BY <1>2, <1>5, <2>1, OthersWritten
  <2>3. c \notin Mine(ptr[o], asked[o])
    BY <1>2, <1>3, <1>6, <2>1, MineApart
  <2>4. c \in Cells
    BY MineIsCells
  <2>5. QED
    BY <1>1, <2>2, <2>3, <2>4 DEF Filled
<1>8. /\ ptr'[o] = Null /\ Held' \ {o} = Held \ {o}
      /\ Stored' = [Stored EXCEPT ![o] = Stored'[o]]
  BY <1>1, <1>7, OthersStored DEF Null
<1>9. Held' = Held \ {o}
  BY <1>8 DEF Held
<1>10. Stored'[o] = Store!Blank
  BY <1>9 DEF Stored, Store!Blank
<1>11. QED
  BY <1>2, <1>8, <1>9, <1>10 DEF Store!Drop

\* A call that leaves o at p with n places, the first of them as they were.
LEMMA Resizes ==
  ASSUME HeapInv, NEW o \in Held, NEW p \in Nat, p # Null, NEW n \in Requests,
         Hold(o, p, n), OthersKept(o),
         \A i \in Offsets(n) :
           mem'[p + i] = IF i \in Offsets(asked[o]) THEN mem[ptr[o] + i] ELSE o
  PROVE  Store!Resize(o, n)
<1>1. o \in Objects /\ n \in Nat
  BY RequestLength DEF Held
<1>2. /\ ptr'[o] = p /\ asked'[o] = n /\ Held' \ {o} = Held \ {o}
      /\ Stored' = [Stored EXCEPT ![o] = Stored'[o]]
  BY <1>1, OthersStored
<1>3. o \in Held' /\ Stored'[o] = [i \in Offsets(n) |-> mem'[p + i]]
  BY <1>1, <1>2, NowStored
<1>4. Stored[o] = [i \in Offsets(asked[o]) |-> mem[ptr[o] + i]]
  BY <1>1 DEF Stored
<1>5. Stored'[o] = [i \in Store!Places(n) |->
                      IF i \in DOMAIN Stored[o] THEN Stored[o][i] ELSE o]
  BY <1>3, <1>4, PlacesAreOffsets
<1>6. Held' = Held
  <2>1. Held' = (Held' \ {o}) \cup {o} /\ Held = (Held \ {o}) \cup {o}
    BY <1>3
  <2>2. QED
    BY <1>2, <2>1
<1>7. Stored' = [Stored EXCEPT ![o] =
                   [i \in Store!Places(n) |->
                      IF i \in DOMAIN Stored[o] THEN Stored[o][i] ELSE o]]
  BY <1>2, <1>5, Zenon
<1>8. QED
  BY <1>6, <1>7 DEF Store!Resize

\* A reallocation that leaves o in its block: it writes nothing of what o
\* keeps but through the chain, and fills what o gained.
LEMMA InPlaceResizes ==
  ASSUME HeapInv, NEW o \in Objects, NEW n \in Requests, ptr[o] # Null, NEW g,
         Well(g), Used(g) = Used(hdr),
         Rounded(n) <= g[block_of(ptr[o])].size,
         KeepsOthers(hdr, g, block_of(ptr[o])),
         Hold(o, ptr[o], n), NEW m,
         \A c \in Cells : c \notin Mine(ptr[o], asked[o]) \ Mine(ptr[o], n)
                            => m[c] = mem[c],
         mem' = Refilled(Written(m, hdr, g), o, ptr[o], n)
  PROVE  Store!Resize(o, n)
<1> USE HeapAssumption
<1> DEFINE e == block_of(ptr[o])
<1>1. Well(hdr) /\ o \in Held /\ n \in Nat
  BY RequestLength DEF HeapInv, Held
<1>2. /\ e = ptr[o] - HEADER_SIZE /\ e \in Used(hdr) /\ e \in DOMAIN hdr /\ e \in Int
      /\ payload(e) = ptr[o] /\ asked[o] \in Nat
      /\ Sane(asked[o]) => asked[o] <= hdr[e].size
  BY <1>1, HeldCells
<1>3. \A q \in Held \ {o} : ptr[q] - HEADER_SIZE \in Used(hdr)
                            /\ ptr[q] - HEADER_SIZE # e
  BY OthersBlocks
<1>4. e \in DOMAIN g /\ g[e].size \in Nat /\ hdr[e].size \in Nat
  BY <1>1, <1>2, WellBlock DEF Used
<1>5. Sane(n) => n <= g[e].size
  BY <1>4, RequestLength
<1>6. KeepsOthers(hdr, g, e)
  OBVIOUS
<1> HIDE DEF e
<1>7. /\ Mine(ptr[o], asked[o]) = IF Sane(asked[o]) THEN Part(e, asked[o]) ELSE {}
      /\ Mine(ptr[o], n) = IF Sane(n) THEN Part(e, n) ELSE {}
  BY <1>1, <1>2, MineIsPart
<1>8. OthersKept(o)
  <2> SUFFICES ASSUME NEW q \in Held \ {o}, NEW c \in Mine(ptr[q], asked[q])
               PROVE  mem'[c] = mem[c]
    BY DEF OthersKept
  <2> DEFINE b == ptr[q] - HEADER_SIZE
  <2>1. b \in Used(hdr) /\ b # e /\ b \in Used(g) /\ g[b].size = hdr[b].size
    BY <1>3, <1>6 DEF KeepsOthers
  <2>2. Written(m, hdr, g)[c] = m[c]
    BY <1>1, <2>1, OthersWritten
  <2>3. c \notin Mine(ptr[o], asked[o])
    BY <1>1, <1>2, <1>7, <2>1, MineApart
  <2>4. c \notin Mine(ptr[o], n)
    BY <1>1, <1>4, <1>5, <1>7, <2>1, MineApart
  <2>5. c \in Cells
    BY MineIsCells
  <2>6. m[c] = mem[c]
    BY <2>3, <2>5
  <2>7. QED
    BY <2>2, <2>4, <2>5, <2>6 DEF Refilled, Filled
<1>9. ASSUME NEW i \in Offsets(n)
      PROVE  mem'[ptr[o] + i] = IF i \in Offsets(asked[o]) THEN mem[ptr[o] + i]
                                                             ELSE o
  <2> DEFINE c == ptr[o] + i
  <2>1. c \in Mine(ptr[o], n) /\ i \in Nat /\ i < n /\ Sane(n)
    BY <1>1, <1>2, MineIsPart
  <2>2. c \in Cells /\ c \in Part(e, n)
    BY <1>1, <1>4, <1>5, <1>7, <2>1, PartIsCells
  <2>3. i \in Offsets(asked[o]) <=> c \in Mine(ptr[o], asked[o])
    BY <1>2, <2>1 DEF Offsets, Mine, Span, payload
  <2> HIDE DEF c
  <2>4. CASE c \in Mine(ptr[o], asked[o])
    <3>1. Sane(asked[o]) /\ c \in Part(e, asked[o])
      BY <1>7, <2>4
    <3>2. Written(m, hdr, g)[c] = m[c]
      <4>1. CASE n <= asked[o]
        BY <1>1, <1>2, <1>4, <1>5, <2>1, <2>2, <3>1, <4>1, WrittenKeeps
      <4>2. CASE ~(n <= asked[o])
        BY <1>1, <1>2, <1>4, <1>5, <2>1, <3>1, <4>2, WrittenKeeps
      <4>3. QED
        BY <4>1, <4>2
    <3>3. m[c] = mem[c]
      BY <2>1, <2>2
    <3>4. QED
      BY <2>2, <2>3, <2>4, <3>2, <3>3 DEF Refilled, Filled, c
  <2>5. CASE c \notin Mine(ptr[o], asked[o])
    BY <2>1, <2>2, <2>3, <2>5 DEF Refilled, Filled, c
  <2>6. QED
    BY <2>4, <2>5
<1>10. ptr[o] \in Nat
  BY DEF HeapInv
<1>11. QED
  BY <1>1, <1>8, <1>9, <1>10, Resizes

LEMMA ReallocInPlaceResizes ==
  ASSUME HeapInv, NEW o \in Objects, NEW n \in Requests, ReallocInPlace(o, n)
  PROVE  Store!Resize(o, n)
<1> DEFINE e == block_of(ptr[o])
           g == split(hdr, e, Rounded(n))
           m == Filled(mem, Mine(ptr[o], asked[o]) \ Mine(ptr[o], n), Junk)
<1>1. /\ ptr[o] # Null /\ hdr[e].size >= Rounded(n) /\ Hold(o, ptr[o], n)
      /\ mem' = Refilled(Written(m, hdr, g), o, ptr[o], n)
  BY DEF ReallocInPlace
<1>2. e \in Used(hdr) /\ Well(hdr) /\ Rounded(n) \in Nat /\ hdr[e].size \in Nat
  BY <1>1, HeldBlock, RequestLength, WellBlock DEF HeapInv
<1>3. \A c \in Cells : c \notin Mine(ptr[o], asked[o]) \ Mine(ptr[o], n)
                         => m[c] = mem[c]
  BY DEF Filled
<1> HIDE DEF e, m
<1>4. /\ Well(g) /\ Used(g) = Used(hdr) /\ Rounded(n) <= g[e].size
      /\ KeepsOthers(hdr, g, e)
  BY <1>1, <1>2, SplitUsed
<1> HIDE DEF g
<1>5. QED
  BY <1>1, <1>3, <1>4, InPlaceResizes DEF e

LEMMA ReallocGrowResizes ==
  ASSUME HeapInv, NEW o \in Objects, NEW n \in Requests, ReallocGrow(o, n)
  PROVE  Store!Resize(o, n)
<1> DEFINE e == block_of(ptr[o])
           g == split(coalesce(hdr, e), e, Rounded(n))
<1>1. /\ ptr[o] # Null /\ CanGrow(hdr, e, Rounded(n)) /\ Hold(o, ptr[o], n)
      /\ mem' = Refilled(Written(mem, hdr, g), o, ptr[o], n)
  BY DEF ReallocGrow
<1>2. e \in Used(hdr) /\ Well(hdr) /\ Rounded(n) \in Nat
  BY <1>1, HeldBlock, RequestLength DEF HeapInv
<1> HIDE DEF e
<1>3. /\ Well(g) /\ Used(g) = Used(hdr) /\ Rounded(n) <= g[e].size
      /\ KeepsOthers(hdr, g, e)
  BY <1>1, <1>2, GrownUsed
<1> HIDE DEF g
<1>4. QED
  BY <1>1, <1>3, InPlaceResizes DEF e

\* The move: a new block is taken, the old length is copied, which fits, and
\* the old block is freed.
LEMMA ReallocMoveResizes ==
  ASSUME HeapInv, NEW o \in Objects, NEW n \in Requests, ReallocMove(o, n)
  PROVE  Store!Resize(o, n)
<1> USE HeapAssumption
<1> DEFINE e == block_of(ptr[o])
           f == FirstFit(hdr, Rounded(n))
           k == Taken(hdr, f, Rounded(n))
           g == Freed(k, e)
           p == payload(f)
           w == Written(mem, hdr, k)
           copied == Copied(w, ptr[o], p, k[e].size)
           scrubbed == Filled(copied, Mine(ptr[o], asked[o]), Junk)
<1>1. /\ ptr[o] # Null /\ Fitting(hdr, Rounded(n)) # {} /\ Hold(o, p, n)
      /\ MustMove(hdr, e, Rounded(n))
      /\ mem' = Refilled(Written(scrubbed, k, g), o, p, n)
  BY DEF ReallocMove
<1>2. Well(hdr) /\ o \in Held /\ n \in Nat /\ Rounded(n) \in Nat
  BY <1>1, RequestLength DEF HeapInv, Held
<1>3. /\ e = ptr[o] - HEADER_SIZE /\ e \in Used(hdr) /\ e \in DOMAIN hdr /\ e \in Int
      /\ payload(e) = ptr[o] /\ asked[o] \in Nat
      /\ Sane(asked[o]) => asked[o] <= hdr[e].size
  BY <1>2, HeldCells
<1>4. /\ Well(k) /\ f \notin Used(hdr) /\ Used(k) = Used(hdr) \cup {f}
      /\ Rounded(n) <= k[f].size /\ KeepsOthers(hdr, k, f)
  BY <1>1, <1>2, TakenUsed
<1>5. \A q \in Held \ {o} : ptr[q] - HEADER_SIZE \in Used(hdr)
                            /\ ptr[q] - HEADER_SIZE # e
  BY <1>1, OthersBlocks
<1> HIDE DEF e, f, k
<1>6. /\ Well(g) /\ Used(g) = Used(k) \ {e} /\ KeepsOthers(k, g, e)
  BY <1>2, <1>3, <1>4, FreedUsed
<1>7. /\ e # f /\ f \in Used(g) /\ g[f].size = k[f].size
      /\ e \in Used(k) /\ k[e].size = hdr[e].size
  BY <1>3, <1>4, <1>6 DEF KeepsOthers
<1>8. /\ f \in DOMAIN k /\ f \in DOMAIN g /\ f \in Int /\ k[f].size \in Nat
      /\ e \in DOMAIN k /\ k[e].size \in Nat
      /\ p \in Nat /\ p # Null
  BY <1>4, <1>6, <1>7, WellBlock DEF Used, payload, Null
<1>9. k[e].size <= k[f].size
  BY <1>1, <1>2, <1>4, <1>7, <1>8 DEF MustMove
<1>10. Sane(n) => n <= k[f].size
  BY <1>4, <1>8, RequestLength
<1> HIDE DEF g
<1>11. /\ Mine(ptr[o], asked[o]) = IF Sane(asked[o]) THEN Part(e, asked[o]) ELSE {}
       /\ Mine(p, n) = IF Sane(n) THEN Part(f, n) ELSE {}
       /\ Span(p, k[e].size) = Part(f, k[e].size)
  BY <1>2, <1>3, <1>8, MineIsPart DEF Part
<1>12. OthersKept(o)
  <2> SUFFICES ASSUME NEW q \in Held \ {o}, NEW c \in Mine(ptr[q], asked[q])
               PROVE  mem'[c] = mem[c]
    BY DEF OthersKept
  <2> DEFINE b == ptr[q] - HEADER_SIZE
  <2>1. /\ b \in Used(hdr) /\ b # e /\ b # f
        /\ b \in Used(k) /\ k[b].size = hdr[b].size
        /\ b \in Used(g) /\ g[b].size = hdr[b].size
    BY <1>4, <1>5, <1>6 DEF KeepsOthers
  <2>2. c \in Cells
    BY MineIsCells
  <2>3. w[c] = mem[c]
    BY <1>2, <1>4, <2>1, OthersWritten
  <2>4. c \notin Mine(ptr[o], asked[o])
    BY <1>2, <1>3, <1>11, <2>1, MineApart
  <2>5. c \notin Span(p, k[e].size) /\ c \notin Mine(p, n)
    <3>1. Mine(ptr[q], asked[q]) \cap Part(f, k[e].size) = {}
      BY <1>4, <1>8, <1>9, <2>1, MineApart
    <3>2. Sane(n) => Mine(ptr[q], asked[q]) \cap Part(f, n) = {}
      BY <1>2, <1>4, <1>8, <1>10, <2>1, MineApart
    <3>3. QED
      BY <1>11, <3>1, <3>2
  <2> HIDE DEF w
  <2>6. scrubbed[c] = mem[c]
    BY <2>2, <2>3, <2>4, <2>5 DEF Filled, Copied
  <2> HIDE DEF scrubbed
  <2>7. Written(scrubbed, k, g)[c] = scrubbed[c]
    BY <1>4, <1>6, <2>1, OthersWritten
  <2>8. QED
    BY <1>1, <2>2, <2>5, <2>6, <2>7 DEF Refilled, Filled
<1>13. ASSUME NEW i \in Offsets(n)
       PROVE  mem'[p + i] = IF i \in Offsets(asked[o]) THEN mem[ptr[o] + i] ELSE o
  <2> DEFINE c == p + i
  <2>1. c \in Mine(p, n) /\ i \in Nat /\ i < n /\ Sane(n)
    BY <1>2, <1>8, MineIsPart
  <2>2. c \in Cells /\ c \in Part(f, n)
    BY <1>2, <1>4, <1>8, <1>10, <1>11, <2>1, PartIsCells
  <2>3. i \in Offsets(asked[o]) <=> c \in Mine(p, asked[o])
    BY <1>3, <1>8, <2>1 DEF Offsets, Mine, Span
  <2>4. CASE i \in Offsets(asked[o])
    <3>1. Sane(asked[o]) /\ i < asked[o] /\ asked[o] <= k[e].size
      BY <1>3, <1>7, <2>4, MineIsPart
    <3>2. c \in Span(p, k[e].size) /\ c - p + ptr[o] = ptr[o] + i
      BY <1>3, <1>8, <2>1, <3>1 DEF Span, HeapInv
    <3>3. copied[c] = w[ptr[o] + i]
      BY <2>2, <3>2 DEF Copied
    <3>4. w[ptr[o] + i] = mem[ptr[o] + i]
      <4>1. ptr[o] + i \in Part(e, asked[o])
        BY <1>3, <1>11, <2>4, <3>1, MineIsPart
      <4>2. asked[o] <= hdr[e].size /\ e \in DOMAIN hdr \cap DOMAIN k
        BY <1>3, <1>8, <3>1
      <4>3. QED
        BY <1>2, <1>3, <1>4, <3>1, <4>1, <4>2, WrittenKeeps
    <3>5. c \notin Mine(ptr[o], asked[o])
      <4>1. Part(f, n) \cap Part(e, asked[o]) = {}
        BY <1>2, <1>3, <1>4, <1>7, <1>8, <1>10, <2>1, <3>1, PartsApart
      <4>2. QED
        BY <1>11, <2>2, <3>1, <4>1
    <3>6. scrubbed[c] = mem[ptr[o] + i]
      BY <2>2, <3>3, <3>4, <3>5 DEF Filled
    <3> HIDE DEF scrubbed, c
    <3>7. Written(scrubbed, k, g)[c] = scrubbed[c]
      BY <1>2, <1>4, <1>6, <1>7, <1>8, <1>10, <2>1, <2>2, WrittenKeeps
    <3>8. QED
      BY <1>1, <2>2, <2>3, <2>4, <3>6, <3>7 DEF Refilled, Filled, c
  <2>5. CASE i \notin Offsets(asked[o])
    <3> HIDE DEF scrubbed
    <3>1. QED
      BY <1>1, <2>1, <2>2, <2>3, <2>5 DEF Refilled, Filled
  <2>6. QED
    BY <2>4, <2>5
<1>14. QED
  BY <1>1, <1>2, <1>8, <1>12, <1>13, Resizes

----------------------------------------------------------------------------
(* The refinement. *)

LEMMA InitStores == Init => Store!StoreInit
<1> SUFFICES ASSUME Init PROVE Store!StoreInit
  OBVIOUS
<1>1. Held = {}
  BY DEF Init, Held
<1>2. Stored = [o \in Objects |-> Store!Blank]
  BY <1>1 DEF Stored, Store!Blank
<1>3. QED
  BY <1>1, <1>2 DEF Store!StoreInit

LEMMA NextStores == HeapInv /\ [Next]_vars => [Store!StoreNext]_(Store!svars)
<1> SUFFICES ASSUME HeapInv, [Next]_vars
             PROVE  [Store!StoreNext]_(Store!svars)
  OBVIOUS
<1>1. CASE UNCHANGED vars
  <2>1. Held' = Held /\ Stored' = Stored
    BY <1>1 DEF vars, Held, Stored, Offsets, Sane
  <2>2. QED
    BY <2>1 DEF Store!svars
<1>2. ASSUME NEW o \in Objects, NEW n \in Requests, Alloc(o, n)
      PROVE  Store!StoreNext
  BY <1>2, AllocPuts DEF Store!StoreNext
<1>3. ASSUME NEW o \in Objects, Free(o) PROVE Store!StoreNext
  BY <1>3, FreeDrops DEF Store!StoreNext
<1>4. ASSUME NEW o \in Objects, NEW n \in Requests,
             \/ ReallocInPlace(o, n)
             \/ ReallocGrow(o, n)
             \/ ReallocMove(o, n)
      PROVE  Store!StoreNext
  BY <1>4, ReallocInPlaceResizes, ReallocGrowResizes, ReallocMoveResizes
     DEF Store!StoreNext
<1>5. ASSUME NEW o \in Objects, NEW n \in Requests,
             AllocRefused(o, n) \/ ReallocRefused(o, n)
      PROVE  [Store!StoreNext]_(Store!svars)
  BY <1>1, <1>5 DEF AllocRefused, ReallocRefused
<1>6. QED
  BY <1>1, <1>2, <1>3, <1>4, <1>5 DEF Next, AllocOrFree, Realloc

\* The allocator implements the store of objects: whatever the layout, the
\* heap's size and the calls, every object keeps what its owner stored until
\* its owner resizes or frees it (guest_heap.c:105-188).
THEOREM StoresObjectsAlways == Spec => StoresObjects
<1>1. Spec => []HeapInv
  BY InitHeapInv, NextHeapInv, PTL DEF Spec
<1>2. QED
  BY <1>1, InitStores, NextStores, PTL DEF Spec, StoresObjects, Store!StoreSpec
=============================================================================
