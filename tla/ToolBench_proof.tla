--------------------------- MODULE ToolBench_proof ---------------------------
(* Three of the tools keep what they promise, for every value of the         *)
(* constants: lifted 16-bit code goes where the program goes, the function   *)
(* ranges of a 64-bit image share no bytes unseen and miss nothing, and a    *)
(* name is never another function's.                                         *)
EXTENDS ToolBench, SequenceTheorems, FiniteSetTheorems, WellFoundedInduction, TLAPS

----------------------------------------------------------------------------
(* 16-bit control flow, for every layout of functions, size of segments and  *)
(* paragraphs and every program: whatever jumps, loops, calls, returns and   *)
(* overlay calls the guest makes, the C is at the same instruction, in a     *)
(* function of the same segment, with one C call under way for each of the   *)
(* guest's.                                                                  *)
(*                                                                           *)
(* The invariant ties the stacks together word by word: the n-th return      *)
(* address on the guest's stack is where the C continues behind the n-th     *)
(* call under way.                                                           *)
Kinds == {"ip", "cs", "data"}
Words == [k : Kinds, v : Int]
CallsOn == [f : layout.funcs, next : Int]
Guests == [at : Int, seg : Int, cx : Int, stack : Seq(Words)]
Lifteds == [f : layout.funcs, at : Int, cx : Int, stack : Seq(Words),
            calls : Seq(CallsOn), ticked : BOOLEAN]

\* How many return addresses are among the first n words of stack s.
Ips(s, n) == Cardinality({m \in 1 .. n : s[m].k = "ip"})

\* Where the C goes on at t behind an instruction of f, the guest is followed.
Lands(f, t) ==
    t \in DOMAIN f.code \/ known(t) \/ layout.bias = 0 \/ ~known(layout.bias + t)

\* The C call that stands for the return address at n.
Returns(s, n, c) ==
    /\ c.next = SegBase(c.f.seg) + s[n].v
    /\ n > 1 /\ s[n - 1].k = "cs" => s[n - 1].v = c.f.seg
    /\ Lands(c.f, c.next)

SameWord(w, u) ==
    /\ u.k = w.k
    /\ w.k = "data" => u = w /\ w.v >= 0
    /\ w.k = "ip" => u.v = Sentinel

\* The guest's stack s, the lifted one t and the C calls under way.
Matched(s, t, calls) ==
    /\ Len(t) = Len(s)
    /\ \A n \in 1 .. Len(s) : SameWord(s[n], t[n])
    /\ Len(calls) = Ips(s, Len(s))
    /\ \A n \in 1 .. Len(s) : s[n].k = "ip" => Returns(s, n, calls[Ips(s, n)])

\* A code segment on the stack is half of a far return address.
Coupled(s) == \A n \in 1 .. Len(s) : s[n].k = "cs" => n < Len(s) /\ s[n + 1].k = "ip"

\* The guest and the C that carry the same data, wherever they are.
Carries(g, l) ==
    /\ g \in Guests /\ l \in Lifteds
    /\ l.cx = g.cx
    /\ Matched(g.stack, l.stack, l.calls) /\ Coupled(g.stack)

\* The C is where the guest is.
Beside(g, l) ==
    /\ Carries(g, l)
    /\ l.at \in DOMAIN l.f.code
    /\ l.at = g.at /\ l.f.seg = g.seg

Tracks(g, l) == IF l.at = Nowhere THEN ~known(g.at) ELSE Beside(g, l)

FlowInv ==
    /\ layout \in Layouts
    /\ Tracks(guest, lifted)
    /\ lifted.at # Nowhere => (back => lifted.ticked)

----------------------------------------------------------------------------
(* Counting return addresses. *)

LEMMA IpsCount ==
  ASSUME NEW s, NEW n \in Nat
  PROVE  /\ IsFiniteSet({m \in 1 .. n : s[m].k = "ip"})
         /\ Ips(s, n) \in Nat
<1>1. IsFiniteSet(1 .. n)
  BY FS_Interval
<1>2. QED
  BY <1>1, FS_Subset, FS_CardinalityType DEF Ips

LEMMA IpsNone == ASSUME NEW s PROVE Ips(s, 0) = 0
<1>1. {m \in 1 .. 0 : s[m].k = "ip"} = {}
  OBVIOUS
<1>2. QED
  BY <1>1, FS_EmptySet DEF Ips

LEMMA IpsNext ==
  ASSUME NEW s, NEW n \in Nat
  PROVE  Ips(s, n + 1) = Ips(s, n) + IF s[n + 1].k = "ip" THEN 1 ELSE 0
<1> DEFINE A == {m \in 1 .. n : s[m].k = "ip"}
           B == {m \in 1 .. n + 1 : s[m].k = "ip"}
<1>1. IsFiniteSet(A) /\ Cardinality(A) \in Nat
  BY IpsCount DEF Ips
<1>2. CASE s[n + 1].k = "ip"
  <2>1. B = A \cup {n + 1} /\ n + 1 \notin A
    BY <1>2
  <2>2. Cardinality(B) = Cardinality(A) + 1
    BY <1>1, <2>1, FS_AddElement
  <2>3. Ips(s, n) = Cardinality(A) /\ Ips(s, n + 1) = Cardinality(B)
    BY DEF Ips
  <2> HIDE DEF A, B
  <2>4. QED
    BY <1>1, <1>2, <2>2, <2>3, Zenon
<1>3. CASE s[n + 1].k # "ip"
  <2>1. B = A
    BY <1>3
  <2>2. Ips(s, n) = Cardinality(A) /\ Ips(s, n + 1) = Cardinality(B)
    BY DEF Ips
  <2> HIDE DEF A, B
  <2>3. QED
    BY <1>1, <1>3, <2>1, <2>2
<1>4. QED
  BY <1>2, <1>3

LEMMA IpsGrow ==
  ASSUME NEW s, NEW n \in Nat, NEW m \in Nat, m <= n
  PROVE  Ips(s, m) <= Ips(s, n)
<1>1. {j \in 1 .. m : s[j].k = "ip"} \subseteq {j \in 1 .. n : s[j].k = "ip"}
  OBVIOUS
<1>2. QED
  BY <1>1, IpsCount, FS_Subset DEF Ips

LEMMA IpsSame ==
  ASSUME NEW s, NEW t, NEW n \in Nat, \A m \in 1 .. n : s[m].k = t[m].k
  PROVE  Ips(s, n) = Ips(t, n)
<1>1. {j \in 1 .. n : s[j].k = "ip"} = {j \in 1 .. n : t[j].k = "ip"}
  OBVIOUS
<1>2. QED
  BY <1>1 DEF Ips

\* A return address has a number among those below and including it.
LEMMA IpsAt ==
  ASSUME NEW s, NEW n \in Nat, NEW m \in 1 .. n, s[m].k = "ip"
  PROVE  Ips(s, m) \in 1 .. Ips(s, n)
<1>1. m - 1 \in Nat /\ m = (m - 1) + 1
  OBVIOUS
<1>2. Ips(s, m) = Ips(s, m - 1) + 1
  BY <1>1, IpsNext
<1>3. Ips(s, m - 1) \in Nat /\ Ips(s, n) \in Nat
  BY <1>1, IpsCount
<1>4. Ips(s, m) <= Ips(s, n)
  BY IpsGrow
<1>5. QED
  BY <1>2, <1>3, <1>4

----------------------------------------------------------------------------
(* Pushing and popping. *)

\* A word that is no return address.
LEMMA PushWord ==
  ASSUME NEW s \in Seq(Words), NEW t \in Seq(Words), NEW calls \in Seq(CallsOn),
         Matched(s, t, calls), NEW w \in Words, NEW u \in Words,
         SameWord(w, u), w.k # "ip"
  PROVE  Matched(Append(s, w), Append(t, u), calls)
<1> DEFINE S == Append(s, w)
           T == Append(t, u)
<1>1. /\ Len(s) \in Nat /\ Len(t) = Len(s)
      /\ Len(S) = Len(s) + 1 /\ Len(T) = Len(s) + 1
      /\ S[Len(s) + 1] = w /\ T[Len(s) + 1] = u
      /\ \A n \in 1 .. Len(s) : S[n] = s[n] /\ T[n] = t[n]
  BY DEF Matched
<1> HIDE DEF S, T
<1>2. \A n \in 1 .. Len(s) : Ips(S, n) = Ips(s, n)
  BY <1>1, IpsSame
<1>3. Ips(S, Len(s)) = Ips(s, Len(s))
  BY <1>1, IpsSame
<1>4. Ips(S, Len(S)) = Ips(s, Len(s))
  <2>1. Ips(S, Len(s)) \in Nat
    BY <1>1, IpsCount
  <2>2. QED
    BY <1>1, <1>3, <2>1, IpsNext
<1>5. ASSUME NEW n \in 1 .. Len(S)
      PROVE  /\ SameWord(S[n], T[n])
             /\ S[n].k = "ip" => Returns(S, n, calls[Ips(S, n)])
  <2>1. CASE n \in 1 .. Len(s)
    <3>1. SameWord(S[n], T[n])
      BY <1>1, <2>1 DEF Matched
    <3>2. S[n].k = "ip" => Returns(s, n, calls[Ips(S, n)])
      BY <1>1, <1>2, <2>1 DEF Matched
    <3>3. n > 1 => S[n - 1] = s[n - 1]
      BY <1>1, <2>1
    <3>4. QED
      BY <1>1, <2>1, <3>1, <3>2, <3>3 DEF Returns
  <2>2. CASE n = Len(s) + 1
    BY <1>1, <2>2
  <2>3. QED
    BY <1>1, <2>1, <2>2
<1>6. QED
  BY <1>1, <1>4, <1>5 DEF Matched, S, T

\* A return address, with the call that stands for it.
LEMMA PushReturn ==
  ASSUME NEW s \in Seq(Words), NEW t \in Seq(Words), NEW calls \in Seq(CallsOn),
         Matched(s, t, calls), NEW w \in Words, NEW u \in Words, NEW c \in CallsOn,
         SameWord(w, u), w.k = "ip",
         c.next = SegBase(c.f.seg) + w.v, Lands(c.f, c.next),
         Len(s) > 0 /\ s[Len(s)].k = "cs" => s[Len(s)].v = c.f.seg
  PROVE  Matched(Append(s, w), Append(t, u), Append(calls, c))
<1> DEFINE S == Append(s, w)
           T == Append(t, u)
           C == Append(calls, c)
           k == Len(calls)
<1>1. /\ Len(s) \in Nat /\ Len(t) = Len(s)
      /\ Len(S) = Len(s) + 1 /\ Len(T) = Len(s) + 1
      /\ S[Len(s) + 1] = w /\ T[Len(s) + 1] = u
      /\ \A n \in 1 .. Len(s) : S[n] = s[n] /\ T[n] = t[n]
  BY DEF Matched
<1>2. /\ k \in Nat /\ Len(C) = k + 1 /\ C[k + 1] = c
      /\ \A n \in 1 .. k : C[n] = calls[n]
  OBVIOUS
<1> HIDE DEF S, T, C, k
<1>3. k = Ips(s, Len(s))
  BY DEF Matched, k
<1>4. \A n \in 1 .. Len(s) : Ips(S, n) = Ips(s, n)
  BY <1>1, IpsSame
<1>5. Ips(S, Len(s)) = Ips(s, Len(s))
  BY <1>1, IpsSame
<1>6. Ips(S, Len(s) + 1) = k + 1
  BY <1>1, <1>3, <1>5, IpsNext
<1>7. ASSUME NEW n \in 1 .. Len(S)
      PROVE  /\ SameWord(S[n], T[n])
             /\ S[n].k = "ip" => Returns(S, n, C[Ips(S, n)])
  <2>1. CASE n \in 1 .. Len(s)
    <3>1. SameWord(S[n], T[n])
      BY <1>1, <2>1 DEF Matched
    <3>2. S[n].k = "ip" => Returns(s, n, calls[Ips(S, n)])
      BY <1>1, <1>4, <2>1 DEF Matched
    <3>3. S[n].k = "ip" => Ips(S, n) \in 1 .. k
      BY <1>1, <1>3, <1>4, <2>1, IpsAt
    <3>4. n > 1 => S[n - 1] = s[n - 1]
      BY <1>1, <2>1
    <3>5. QED
      BY <1>1, <1>2, <2>1, <3>1, <3>2, <3>3, <3>4 DEF Returns
  <2>2. CASE n = Len(s) + 1
    <3>1. n > 1 => S[n - 1] = s[Len(s)] /\ Len(s) > 0
      BY <1>1, <2>2
    <3>2. C[Ips(S, n)] = c
      BY <1>2, <1>6, <2>2
    <3>3. QED
      BY <1>1, <2>2, <3>1, <3>2 DEF Returns
  <2>3. QED
    BY <1>1, <2>1, <2>2
<1>8. QED
  BY <1>1, <1>2, <1>6, <1>7 DEF Matched, S, T, C, k

\* What is left of both stacks when as many words are dropped from each.
LEMMA Popped ==
  ASSUME NEW s \in Seq(Words), NEW t \in Seq(Words), NEW calls \in Seq(CallsOn),
         Matched(s, t, calls), NEW d \in Nat, d <= Len(s), NEW rest \in Seq(CallsOn),
         Len(rest) = Ips(s, Len(s) - d),
         \A n \in 1 .. Len(rest) : rest[n] = calls[n]
  PROVE  /\ Drop(s, d) \in Seq(Words) /\ Drop(t, d) \in Seq(Words)
         /\ Matched(Drop(s, d), Drop(t, d), rest)
<1> DEFINE S == Drop(s, d)
           T == Drop(t, d)
           m == Len(s) - d
<1>1. Len(s) \in Nat /\ Len(t) = Len(s) /\ m \in Nat /\ m <= Len(s)
  BY DEF Matched
<1>2. /\ S \in Seq(Words) /\ T \in Seq(Words) /\ Len(S) = m /\ Len(T) = m
      /\ \A n \in 1 .. m : S[n] = s[n] /\ T[n] = t[n]
  BY <1>1 DEF Drop
<1> HIDE DEF S, T, m
<1>3. ASSUME NEW n \in 1 .. m PROVE Ips(S, n) = Ips(s, n)
  <2>1. n \in Nat /\ \A j \in 1 .. n : S[j].k = s[j].k
    BY <1>1, <1>2
  <2>2. QED
    BY <2>1, IpsSame
<1>4. Ips(S, m) = Ips(s, m)
  BY <1>1, <1>2, IpsSame
<1>5. ASSUME NEW n \in 1 .. m
      PROVE  /\ SameWord(S[n], T[n])
             /\ S[n].k = "ip" => Returns(S, n, rest[Ips(S, n)])
  <2>1. n \in 1 .. Len(s)
    BY <1>1
  <2>2. SameWord(S[n], T[n])
    BY <1>2, <2>1 DEF Matched
  <2>3. S[n].k = "ip" => Returns(s, n, calls[Ips(S, n)])
    BY <1>2, <1>3, <2>1 DEF Matched
  <2>4. S[n].k = "ip" => Ips(S, n) \in 1 .. Len(rest)
    BY <1>1, <1>2, <1>4, IpsAt DEF m
  <2>5. n > 1 => S[n - 1] = s[n - 1]
    BY <1>1, <1>2
  <2>6. QED
    BY <1>2, <2>1, <2>2, <2>3, <2>4, <2>5 DEF Returns
<1>6. QED
  BY <1>1, <1>2, <1>4, <1>5 DEF Matched, S, T, m

LEMMA IpsOver ==
  ASSUME NEW s, NEW a \in Nat, NEW b \in Nat, a <= b,
         \A n \in (a + 1) .. b : s[n].k # "ip"
  PROVE  Ips(s, b) = Ips(s, a)
<1>1. {j \in 1 .. a : s[j].k = "ip"} = {j \in 1 .. b : s[j].k = "ip"}
  OBVIOUS
<1>2. QED
  BY <1>1 DEF Ips

\* A word on top, which the code segment below it, if there is one, waits for.
LEMMA CoupledAppend ==
  ASSUME NEW s \in Seq(Words), NEW w \in Words, w.k # "cs",
         \A n \in 1 .. Len(s) : s[n].k = "cs" => \/ n < Len(s) /\ s[n + 1].k = "ip"
                                                 \/ n = Len(s) /\ w.k = "ip"
  PROVE  Coupled(Append(s, w))
<1> DEFINE S == Append(s, w)
           k == Len(s)
<1>1. k \in Nat /\ Len(S) = k + 1 /\ S[k + 1] = w /\ \A n \in 1 .. k : S[n] = s[n]
  OBVIOUS
<1>2. \A n \in 1 .. k : s[n].k = "cs" => \/ n < k /\ s[n + 1].k = "ip"
                                         \/ n = k /\ w.k = "ip"
  OBVIOUS
<1> HIDE DEF S, k
<1>3. ASSUME NEW n \in 1 .. Len(S), S[n].k = "cs" PROVE n < Len(S) /\ S[n + 1].k = "ip"
  <2>1. n \in 1 .. k /\ s[n].k = "cs"
    BY <1>1, <1>3
  <2>2. CASE n < k /\ s[n + 1].k = "ip"
    <3>1. n + 1 \in 1 .. k
      BY <1>1, <2>1, <2>2
    <3>2. QED
      BY <1>1, <2>1, <2>2, <3>1
  <2>3. CASE n = k /\ w.k = "ip"
    BY <1>1, <2>3
  <2>4. QED
    BY <1>2, <2>1, <2>2, <2>3
<1>4. Coupled(S)
  BY <1>3 DEF Coupled
<1>5. QED
  BY <1>4 DEF S

LEMMA CoupledDrop ==
  ASSUME NEW s \in Seq(Words), Coupled(s), NEW d \in Nat, d <= Len(s), d > 0,
         \/ s[Len(s) - d + 1].k # "ip"
         \/ Len(s) > d => s[Len(s) - d].k # "cs"
  PROVE  Coupled(Drop(s, d))
<1> DEFINE S == Drop(s, d)
           m == Len(s) - d
<1>1. Len(s) \in Nat /\ m \in Nat /\ m < Len(s) /\ (Len(s) > d <=> m > 0)
  OBVIOUS
<1>2. Len(S) = m /\ \A n \in 1 .. m : S[n] = s[n]
  BY <1>1 DEF Drop
<1>3. s[m + 1].k # "ip" \/ (m > 0 => s[m].k # "cs")
  BY <1>1
<1> HIDE DEF S, m
<1>4. ASSUME NEW n \in 1 .. m, s[n].k = "cs" PROVE n < m /\ s[n + 1].k = "ip"
  <2>1. n \in 1 .. Len(s)
    BY <1>1
  <2>2. s[n + 1].k = "ip"
    BY <1>4, <2>1 DEF Coupled
  <2>3. n # m
    BY <1>1, <1>3, <1>4, <2>2
  <2>4. QED
    BY <1>1, <2>2, <2>3
<1>5. ASSUME NEW n \in 1 .. m, S[n].k = "cs" PROVE n < m /\ S[n + 1].k = "ip"
  <2>1. s[n].k = "cs"
    BY <1>2, <1>5
  <2>2. n < m /\ s[n + 1].k = "ip"
    BY <1>4, <2>1
  <2>3. n + 1 \in 1 .. m
    BY <1>1, <2>2
  <2>4. QED
    BY <1>2, <2>2, <2>3
<1>6. Coupled(S)
  BY <1>2, <1>5 DEF Coupled
<1>7. QED
  BY <1>6 DEF S

----------------------------------------------------------------------------
(* Arriving. *)

LEMMA Laid ==
  ASSUME layout \in Layouts
  PROVE  /\ layout.bias \in Int
         /\ IF layout.far_base # Absent THEN layout.far_base = layout.bias
                                       ELSE layout.bias \in {-Corr, HdrSize}
         /\ \A f \in layout.funcs :
              /\ f.start \in Int /\ f.seg \in Nat
              /\ SegBase(f.seg) \in Int /\ SegBase(f.seg) >= 0
              /\ DOMAIN f.code \subseteq Nat /\ \A a \in DOMAIN f.code : f.code[a] \in Nat
              /\ f.entry \in DOMAIN f.code /\ Start(f) = f.entry
<1>1. WellLaid(layout) /\ Para \in Nat
  BY Flow16Assumption
<1> HIDE DEF Start
<1>2. QED
  BY <1>1 DEF WellLaid, SegBase

LEMMA FuncAtIs ==
  ASSUME layout \in Layouts, NEW lin, known(lin)
  PROVE  /\ FuncAt(lin) \in layout.funcs
         /\ Start(FuncAt(lin)) = lin /\ lin \in DOMAIN FuncAt(lin).code
         /\ lin \in Nat
<1>1. PICK f \in layout.funcs : f.entry = lin
  BY DEF known
<1>2. FuncAt(lin) \in layout.funcs /\ FuncAt(lin).entry = lin
  BY <1>1 DEF FuncAt
<1> HIDE DEF Start, FuncAt
<1>3. QED
  BY <1>2, Laid

LEMMA BesideTracks ==
  ASSUME layout \in Layouts, NEW g, NEW l, Beside(g, l)
  PROVE  Tracks(g, l) /\ l.at # Nowhere
<1>1. l.f \in layout.funcs
  BY DEF Beside, Carries, Lifteds
<1>2. l.at \in Nat
  BY <1>1, Laid DEF Beside
<1>3. l.at # Nowhere
  BY <1>2 DEF Nowhere
<1>4. QED
  BY <1>3 DEF Tracks

LEMMA LostTracks ==
  ASSUME NEW g, NEW l \in Lifteds, ~known(g.at)
  PROVE  Tracks(g, Lost(l))
BY DEF Tracks, Lost, Lifteds

LEMMA EnterTracks ==
  ASSUME layout \in Layouts, NEW g, NEW l, Carries(g, l), OneSegment(g), known(g.at)
  PROVE  Tracks(g, Enter(l, g.at))
<1>1. /\ FuncAt(g.at) \in layout.funcs /\ FuncAt(g.at).seg = g.seg
      /\ Start(FuncAt(g.at)) = g.at /\ g.at \in DOMAIN FuncAt(g.at).code
      /\ g.at \in Nat
  BY FuncAtIs DEF OneSegment
<1> DEFINE f == FuncAt(g.at)
           e == Enter(l, g.at)
<1>2. e = [l EXCEPT !.f = f, !.at = g.at] /\ f \in layout.funcs
  BY <1>1 DEF Enter
<1> HIDE DEF f, e
<1>3. /\ e \in Lifteds /\ e.f = f /\ e.at = g.at
      /\ e.cx = l.cx /\ e.stack = l.stack /\ e.calls = l.calls
  <2>1. g.at \in Int /\ l \in Lifteds
    BY <1>1 DEF Carries
  <2>2. QED
    BY <1>2, <2>1 DEF Lifteds
<1>4. Beside(g, e)
  BY <1>1, <1>3 DEF Beside, Carries, f
<1>5. QED
  BY <1>4, BesideTracks DEF e

LEMMA DispatchTracks ==
  ASSUME layout \in Layouts, NEW g, NEW l, Carries(g, l), OneSegment(g),
         NEW seg, NEW off, SegBase(seg) + off = g.at
  PROVE  Tracks(g, recomp_dispatch(l, seg, off))
<1>1. CASE known(g.at)
  BY <1>1, EnterTracks DEF recomp_dispatch
<1>2. CASE ~known(g.at)
  BY <1>2, LostTracks DEF recomp_dispatch, Carries
<1>3. QED
  BY <1>1, <1>2

LEMMA TailTracks ==
  ASSUME layout \in Layouts, NEW g, NEW l, Carries(g, l), OneSegment(g),
         known(g.at) \/ layout.bias = 0 \/ ~known(layout.bias + g.at)
  PROVE  Tracks(g, _tail_jump(l, g.at))
<1>1. CASE known(g.at)
  BY <1>1, EnterTracks DEF _tail_jump
<1>2. CASE ~known(g.at)
  <2> DEFINE seg == g.at \div Para
             off == g.at % Para
  <2>1. g.at \in Int /\ layout.bias \in Int /\ Para \in Nat \ {0}
    BY Laid, Flow16Assumption DEF Carries, Guests
  <2>2. seg * Para + off = g.at /\ seg \in Int /\ off \in Int /\ seg * Para \in Int
    BY <2>1, Z3
  <2>3. _tail_jump(l, g.at) = recomp_dispatch(l, seg, off)
    BY <1>2 DEF _tail_jump
  <2> HIDE DEF seg, off
  <2>4. SegBase(seg) + off = layout.bias + g.at
    <3> DEFINE sp == seg * Para
    <3>1. sp + off = g.at /\ sp \in Int /\ off \in Int
      BY <2>2
    <3>2. SegBase(seg) = layout.bias + sp
      BY DEF SegBase
    <3> HIDE DEF sp
    <3>3. QED
      BY <2>1, <3>1, <3>2
  <2>5. CASE layout.bias = 0
    <3>1. SegBase(seg) + off = g.at
      BY <2>1, <2>4, <2>5
    <3>2. QED
      BY <2>3, <3>1, DispatchTracks
  <2>6. CASE ~known(layout.bias + g.at)
    <3>1. _tail_jump(l, g.at) = Lost(l)
      BY <2>3, <2>4, <2>6 DEF recomp_dispatch
    <3>2. QED
      BY <1>2, <3>1, LostTracks DEF Carries
  <2>7. QED
    BY <1>2, <2>5, <2>6
<1>3. QED
  BY <1>1, <1>2

LEMMA OnwardsTracks ==
  ASSUME layout \in Layouts, NEW g, NEW l, Carries(g, l), OneSegment(g),
         NEW f \in layout.funcs, f.seg = g.seg, Lands(f, g.at)
  PROVE  Tracks(g, Onwards(l, f, g.at))
<1>1. CASE g.at \in DOMAIN f.code
  <2>1. PICK e : e = [l EXCEPT !.f = f, !.at = g.at]
    OBVIOUS
  <2>2. g.at \in Int
    BY DEF Carries, Guests
  <2>3. /\ e \in Lifteds /\ e.f = f /\ e.at = g.at
        /\ e.cx = l.cx /\ e.stack = l.stack /\ e.calls = l.calls
    BY <2>1, <2>2 DEF Carries, Lifteds
  <2>4. Tracks(g, e)
    BY <1>1, <2>3, BesideTracks DEF Beside, Carries
  <2>5. QED
    BY <1>1, <2>1, <2>4 DEF Onwards
<1>2. CASE g.at \notin DOMAIN f.code
  BY <1>2, TailTracks DEF Onwards, Lands
<1>3. QED
  BY <1>1, <1>2

\* A branch, which polls where it goes back inside its function.
LEMMA BranchTracks ==
  ASSUME layout \in Layouts, NEW g, NEW l, Carries(g, l), OneSegment(g),
         l.f.seg = g.seg, Lands(l.f, g.at), NEW target \in Int, l.f.start + target = g.at
  PROVE  /\ Tracks(g, Branch(l, target))
         /\ g.at \in DOMAIN l.f.code /\ g.at <= l.at => Branch(l, target).ticked
<1>1. l.f \in layout.funcs /\ l.at \in Int /\ g.at \in Int /\ l \in Lifteds
  BY DEF Carries, Lifteds, Guests
<1>2. l.f.start \in Int /\ DOMAIN l.f.code \subseteq Nat
  BY <1>1, Laid
<1>3. target \in valid_addrs(l.f) <=> g.at \in DOMAIN l.f.code
  BY <1>1, <1>2 DEF valid_addrs
<1>4. CASE g.at \in DOMAIN l.f.code
  <2>1. PICK e : e = [l EXCEPT !.at = g.at, !.ticked = target <= l.at - l.f.start]
    OBVIOUS
  <2>2. /\ e \in Lifteds /\ e.f = l.f /\ e.at = g.at
        /\ e.cx = l.cx /\ e.stack = l.stack /\ e.calls = l.calls
        /\ e.ticked = (target <= l.at - l.f.start)
    <3>1. (target <= l.at - l.f.start) \in BOOLEAN
      OBVIOUS
    <3>2. QED
      BY <1>1, <2>1, <3>1 DEF Lifteds
  <2>3. Tracks(g, e)
    BY <1>4, <2>2, BesideTracks DEF Beside, Carries
  <2>4. ASSUME g.at <= l.at PROVE e.ticked
    <3>1. target <= l.at - l.f.start
      BY <1>1, <1>2, <2>4
    <3>2. QED
      BY <2>2, <3>1, Zenon
  <2>5. Branch(l, target) = e
    BY <1>3, <1>4, <2>1 DEF Branch, Goto
  <2>6. QED
    BY <2>3, <2>4, <2>5
<1>5. CASE g.at \notin DOMAIN l.f.code
  <2>1. Branch(l, target) = _tail_jump(l, g.at)
    BY <1>3, <1>5 DEF Branch
  <2>2. QED
    BY <1>5, <2>1, TailTracks DEF Lands
<1>6. QED
  BY <1>4, <1>5

----------------------------------------------------------------------------
(* Calling and returning. *)

\* What an instruction is made of.
LEMMA Fields ==
  ASSUME layout \in Layouts, NEW i \in Instructions
  PROVE  /\ i.op \in NearOps \cup {"call"} => i.rel \in Rels
         /\ i.op \in {"call_far", "jmp_far", "pushfar"} =>
              /\ i.off \in Nat /\ i.seg \in Nat /\ SegBase(i.seg) \in Nat
              /\ i.seg * Para \in Int /\ SegBase(i.seg) = layout.bias + i.seg * Para
         /\ i.op \in {"call_far", "jmp_far"} => i.form \in {"direct", "mem"}
         /\ i.op = "int3f" => known(i.at) /\ i.at \in Nat
         /\ i.op \in {"jmp_ind", "call_ind", "jmp_table"} => i.off \in Nat
         /\ i.op \in {"ret", "retf"} => i.drop \in {0, 2}
         /\ i.op \in NearOps \cup {"call", "call_far", "jmp_far", "int3f", "jmp_ind", "call_ind",
                                  "jmp_table", "ret", "retf", "pushfar", "plain"}
<1>1. SegSize \in Nat /\ Para \in Nat /\ Offsets \subseteq Nat /\ layout.bias \in Int
  BY Laid, Flow16Assumption DEF Offsets
<1>2. \A seg \in Segs : seg \in Nat /\ SegBase(seg) \in Nat /\ seg * Para \in Int
  BY <1>1, Laid DEF Segs
<1>3. \A f \in layout.funcs : known(f.entry) /\ f.entry \in Nat
  BY Laid DEF known
<1>4. CASE i \in NearForms
  BY <1>4 DEF NearForms, NearOps, Counted
<1>5. CASE i \in FarForms
  BY <1>1, <1>2, <1>3, <1>5 DEF FarForms, NearOps, Counted, SegBase
<1>6. CASE i \in IndirectForms
  BY <1>1, <1>6 DEF IndirectForms, NearOps, Counted
<1>7. CASE i \in StackForms
  BY <1>1, <1>2, <1>7 DEF StackForms, NearOps, Counted, Dropped, SegBase
<1>8. CASE i = [op |-> "plain"]
  BY <1>8 DEF NearOps, Counted
<1>9. QED
  BY <1>4, <1>5, <1>6, <1>7, <1>8 DEF Instructions

LEMMA CallCarries ==
  ASSUME layout \in Layouts, NEW g, NEW l, Beside(g, l), NEW far \in BOOLEAN,
         NEW next \in Int, Lands(l.f, next), NEW seg \in Int, NEW at \in Int
  PROVE  Carries(GuestGoes(g, seg, at, ReturnWords(g, next, far)), Called(l, next, far))
<1>1. /\ g \in Guests /\ l \in Lifteds /\ l.f \in layout.funcs /\ l.f.seg = g.seg /\ l.cx = g.cx
      /\ g.stack \in Seq(Words) /\ l.stack \in Seq(Words) /\ l.calls \in Seq(CallsOn)
      /\ Matched(g.stack, l.stack, l.calls) /\ Coupled(g.stack)
  BY DEF Beside, Carries, Guests, Lifteds
<1>2. g.seg \in Int /\ SegBase(g.seg) \in Int
  BY <1>1, Laid
<1> DEFINE cs == Word("cs", g.seg)
           ip == Word("ip", next - SegBase(g.seg))
           ucs == Word("cs", Absent)
           uip == Word("ip", Sentinel)
           c == [f |-> l.f, next |-> next]
<1>3. /\ cs \in Words /\ ip \in Words /\ ucs \in Words /\ uip \in Words /\ c \in CallsOn
      /\ cs.k = "cs" /\ cs.v = l.f.seg /\ ip.k = "ip" /\ c.f = l.f /\ c.next = next
      /\ SameWord(cs, ucs) /\ SameWord(ip, uip)
      /\ c.next = SegBase(c.f.seg) + ip.v
  BY <1>1, <1>2 DEF Word, Words, Kinds, CallsOn, SameWord, Absent, Sentinel
<1> DEFINE s == IF far THEN Append(g.stack, cs) ELSE g.stack
           t == IF far THEN Append(l.stack, ucs) ELSE l.stack
           S == Append(s, ip)
           T == Append(t, uip)
           C == Append(l.calls, c)
<1>4. PICK G : G = GuestGoes(g, seg, at, ReturnWords(g, next, far))
  OBVIOUS
<1>5. PICK L : L = Called(l, next, far)
  OBVIOUS
<1>6. G = [g EXCEPT !.seg = seg, !.at = at, !.stack = S]
  <2>1. g.stack \o ReturnWords(g, next, far) = S
    <3>1. CASE far
      BY <1>1, <1>3, <3>1 DEF ReturnWords
    <3>2. CASE ~far
      BY <1>1, <1>3, <3>2 DEF ReturnWords
    <3>3. QED
      BY <3>1, <3>2
  <2> HIDE DEF S
  <2>2. QED
    BY <1>4, <2>1 DEF GuestGoes
<1>7. L = [l EXCEPT !.stack = T, !.calls = C]
  <2>1. l.stack \o Frame(l, far) = T
    <3>1. CASE far
      BY <1>1, <1>3, <3>1 DEF Frame
    <3>2. CASE ~far
      BY <1>1, <1>3, <3>2 DEF Frame
    <3>3. QED
      BY <3>1, <3>2
  <2> HIDE DEF T
  <2>2. QED
    BY <1>5, <2>1 DEF Called
<1> HIDE DEF cs, ip, ucs, uip, c
<1>8. s \in Seq(Words) /\ t \in Seq(Words) /\ Matched(s, t, l.calls)
  <2>1. CASE far
    BY <1>1, <1>3, <2>1, PushWord
  <2>2. CASE ~far
    BY <1>1, <2>2
  <2>3. QED
    BY <2>1, <2>2
<1>9. /\ Len(s) > 0 /\ s[Len(s)].k = "cs" => s[Len(s)].v = l.f.seg
      /\ \A n \in 1 .. Len(s) : s[n].k = "cs" => \/ n < Len(s) /\ s[n + 1].k = "ip"
                                                 \/ n = Len(s) /\ ip.k = "ip"
  <2> DEFINE k == Len(g.stack)
  <2>1. k \in Nat /\ \A n \in 1 .. k : g.stack[n].k = "cs" => n < k /\ g.stack[n + 1].k = "ip"
    BY <1>1 DEF Coupled
  <2>2. CASE far
    <3>1. Len(s) = k + 1 /\ s[k + 1] = cs /\ \A n \in 1 .. k : s[n] = g.stack[n]
      BY <1>1, <1>3, <2>2
    <3> HIDE DEF k, s
    <3>2. ASSUME NEW n \in 1 .. Len(s), s[n].k = "cs", n # Len(s) PROVE n < Len(s) /\ s[n + 1].k = "ip"
      <4>1. n \in 1 .. k /\ g.stack[n].k = "cs"
        BY <2>1, <3>1, <3>2
      <4>2. n < k /\ g.stack[n + 1].k = "ip"
        BY <2>1, <4>1
      <4>3. n + 1 \in 1 .. k
        BY <2>1, <4>1, <4>2
      <4>4. QED
        BY <2>1, <3>1, <4>2, <4>3
    <3>3. QED
      BY <1>3, <2>1, <3>1, <3>2
  <2>3. CASE ~far
    <3>1. s = g.stack /\ Len(s) = k
      BY <2>3
    <3> HIDE DEF k, s
    <3>2. ASSUME k > 0, g.stack[k].k = "cs" PROVE FALSE
      <4>1. k \in 1 .. k
        BY <2>1, <3>2
      <4>2. k < k
        BY <2>1, <3>2, <4>1
      <4>3. QED
        BY <2>1, <4>2
    <3>3. \A n \in 1 .. Len(s) : s[n].k = "cs" => n < Len(s) /\ s[n + 1].k = "ip"
      BY <2>1, <3>1
    <3>4. Len(s) > 0 /\ s[Len(s)].k = "cs" => FALSE
      BY <3>1, <3>2
    <3>5. Len(s) > 0 /\ s[Len(s)].k = "cs" => s[Len(s)].v = l.f.seg
      BY <3>4, Zenon
    <3>6. \A n \in 1 .. Len(s) : s[n].k = "cs" => \/ n < Len(s) /\ s[n + 1].k = "ip"
                                                  \/ n = Len(s) /\ ip.k = "ip"
      BY <3>3, Zenon
    <3>7. QED
      BY <3>5, <3>6, Zenon
  <2>4. QED
    BY <2>2, <2>3
<1>10. Coupled(S)
  BY <1>3, <1>8, <1>9, CoupledAppend
<1> HIDE DEF s, t
<1>11. Matched(S, T, C)
  BY <1>1, <1>3, <1>8, <1>9, PushReturn
<1>12. S \in Seq(Words) /\ T \in Seq(Words) /\ C \in Seq(CallsOn)
  BY <1>1, <1>3, <1>8
<1> HIDE DEF S, T, C
<1>13. G \in Guests /\ G.cx = g.cx /\ G.stack = S
  BY <1>1, <1>6, <1>12 DEF Guests
<1>14. L \in Lifteds /\ L.cx = l.cx /\ L.stack = T /\ L.calls = C
  BY <1>1, <1>7, <1>12 DEF Lifteds
<1>15. Carries(G, L)
  BY <1>1, <1>10, <1>11, <1>13, <1>14 DEF Carries
<1>16. QED
  BY <1>4, <1>5, <1>15

\* Two words pushed at once are pushed one behind the other.
LEMMA TwoWords ==
    ASSUME NEW s \in Seq(Words), NEW a \in Words, NEW b \in Words
    PROVE  /\ s \o <<a, b>> = Append(Append(s, a), b)
           /\ Append(Append(s, a), b) \in Seq(Words)
<1>1. Append(s, a) \in Seq(Words)
  BY AppendProperties
<1>2. Append(Append(s, a), b) = Append(s, a) \o <<b>>
  BY <1>1, AppendIsConcat
<1>3. Append(s, a) = s \o <<a>>
  BY AppendIsConcat
<1>4. <<a>> \in Seq(Words) /\ <<b>> \in Seq(Words)
  OBVIOUS
<1>5. (s \o <<a>>) \o <<b>> = s \o (<<a>> \o <<b>>)
  BY <1>4, ConcatAssociative
<1>6. <<a>> \o <<b>> = <<a, b>>
  <2> DEFINE p == <<a>>
             q == <<b>>
             r == <<a, b>>
             c == p \o q
  <2>1. p \in Seq(Words) /\ Len(p) = 1 /\ p[1] = a /\ q \in Seq(Words) /\ Len(q) = 1 /\ q[1] = b
    OBVIOUS
  <2>2. r \in Seq(Words) /\ Len(r) = 2 /\ r[1] = a /\ r[2] = b
    OBVIOUS
  <2> HIDE DEF p, q, r
  <2>3. /\ c \in Seq(Words) /\ Len(c) = Len(p) + Len(q)
        /\ \A k \in 1 .. Len(p) + Len(q) : c[k] = IF k <= Len(p) THEN p[k] ELSE q[k - Len(p)]
    BY <2>1, ConcatProperties
  <2> HIDE DEF c
  <2>4. Len(c) = 2 /\ c[1] = a /\ c[2] = b
    BY <2>1, <2>3
  <2>5. \A k \in 1 .. Len(c) : c[k] = r[k]
    <3>1. \A k \in 1 .. 2 : k = 1 \/ k = 2
      OBVIOUS
    <3>2. QED
      BY <2>2, <2>4, <3>1
  <2>6. c = r
    BY <2>2, <2>3, <2>4, <2>5, SeqEqual
  <2>7. QED
    BY <2>6 DEF c, p, q, r
<1>7. Append(Append(s, a), b) \in Seq(Words)
  BY <1>1, AppendProperties
<1>8. QED
  BY <1>2, <1>3, <1>5, <1>6, <1>7

\* What is carried when d words are dropped and rest are the calls under way.
LEMMA DropCarries ==
  ASSUME NEW g, NEW l, Carries(g, l), NEW d \in Nat, d > 0, d <= Len(g.stack),
         NEW rest \in Seq(CallsOn), Len(rest) = Ips(g.stack, Len(g.stack) - d),
         \A n \in 1 .. Len(rest) : rest[n] = l.calls[n],
         \/ g.stack[Len(g.stack) - d + 1].k # "ip"
         \/ Len(g.stack) > d => g.stack[Len(g.stack) - d].k # "cs",
         NEW seg \in Int, NEW at \in Int
  PROVE  Carries([g EXCEPT !.seg = seg, !.at = at, !.stack = Drop(@, d)],
                 [l EXCEPT !.stack = Drop(@, d), !.calls = rest])
<1>1. /\ g \in Guests /\ l \in Lifteds /\ l.cx = g.cx
      /\ g.stack \in Seq(Words) /\ l.stack \in Seq(Words) /\ l.calls \in Seq(CallsOn)
      /\ Matched(g.stack, l.stack, l.calls) /\ Coupled(g.stack)
  BY DEF Carries, Guests, Lifteds
<1> DEFINE S == Drop(g.stack, d)
           T == Drop(l.stack, d)
<1>2. S \in Seq(Words) /\ T \in Seq(Words) /\ Matched(S, T, rest)
  BY <1>1, Popped
<1>3. Coupled(S)
  BY <1>1, CoupledDrop
<1>4. PICK G : G = [g EXCEPT !.seg = seg, !.at = at, !.stack = S]
  OBVIOUS
<1>5. PICK L : L = [l EXCEPT !.stack = T, !.calls = rest]
  OBVIOUS
<1> HIDE DEF S, T
<1>6. G \in Guests /\ G.cx = g.cx /\ G.stack = S
  BY <1>1, <1>2, <1>4 DEF Guests
<1>7. L \in Lifteds /\ L.cx = l.cx /\ L.stack = T /\ L.calls = rest
  BY <1>1, <1>2, <1>5 DEF Lifteds
<1>8. Carries(G, L)
  BY <1>1, <1>2, <1>3, <1>6, <1>7 DEF Carries
<1>9. QED
  BY <1>4, <1>5, <1>8 DEF S, T

----------------------------------------------------------------------------
(* One instruction of the guest and the C it became. *)

\* The branch went back inside the function.
Backs(g, l, i, h) ==
    /\ i.op \in NearOps /\ Taken(i, g.cx)
    /\ h.at <= g.at /\ h.at \in DOMAIN l.f.code
Answers(g, l, i, h, m) == Tracks(h, m) /\ (Backs(g, l, i, h) => m.at = Nowhere \/ m.ticked)

\* The guest and the C at an instruction that none of the differences is about.
Ready(g, l, i, len) ==
    /\ Beside(g, l) /\ i \in Instructions
    /\ len = l.f.code[l.at]
    /\ Sound(g, i)
    /\ ~WrapsWrongly(g, i, len) /\ ~Misjudged(i)
    /\ l.f = lifted.f /\ l.calls = lifted.calls
    /\ ~Unbiased(g, i, len) /\ ~WrongArm(i)

\* An offset inside a segment does not wrap.
LEMMA Within == ASSUME NEW n \in Nat \ {0}, NEW k \in 0 .. n - 1 PROVE k % n = k
  OBVIOUS

LEMMA ReadyFacts ==
  ASSUME layout \in Layouts, NEW g, NEW l, NEW i, NEW len, Ready(g, l, i, len)
  PROVE  /\ l.f \in layout.funcs /\ l.at \in Nat /\ len \in Nat
         /\ l.f.seg = g.seg /\ l.at = g.at /\ l.cx = g.cx
         /\ l.f.start \in Int /\ g.seg \in Nat /\ g.cx \in Int
         /\ SegBase(g.seg) \in Nat
         /\ g \in Guests /\ l \in Lifteds
         /\ SegSize \in Nat \ {0} /\ CxTop \in Nat \ {0}
         /\ InSegment(g.seg, g.at + len - SegBase(g.seg)) = g.at + len
         /\ Lands(l.f, g.at + len)
<1>1. /\ l.f \in layout.funcs /\ l.at \in DOMAIN l.f.code /\ len = l.f.code[l.at]
      /\ l.f.seg = g.seg /\ l.at = g.at /\ l.cx = g.cx /\ g.cx \in Int
      /\ g \in Guests /\ l \in Lifteds
  BY DEF Ready, Beside, Carries, Lifteds, Guests
<1>2. /\ SegSize \in Nat \ {0} /\ CxTop \in Nat \ {0}
      /\ l.at \in Nat /\ len \in Nat /\ l.f.start \in Int /\ g.seg \in Nat /\ SegBase(g.seg) \in Nat
  BY <1>1, Laid, Flow16Assumption
<1>3. InSegment(g.seg, g.at + len - SegBase(g.seg)) = g.at + len
  <2> DEFINE b == SegBase(g.seg)
             ip == g.at - b + len
  <2>1. ip \in Offsets
    BY DEF Ready, WrapsWrongly
  <2>2. g.at + len - b = ip /\ b + ip = g.at + len /\ b \in Int
    BY <1>1, <1>2
  <2> HIDE DEF ip
  <2>3. ip % SegSize = ip
    BY <1>2, <2>1, Within DEF Offsets
  <2>4. QED
    BY <2>2, <2>3 DEF InSegment
<1>4. Lands(l.f, g.at + len)
  <2> DEFINE t == g.at + len
  <2>1. layout.bias # 0 => \/ known(t) \/ t \in DOMAIN l.f.code \/ ~known(layout.bias + t)
    BY DEF Ready, Unbiased
  <2> HIDE DEF t
  <2>2. Lands(l.f, t)
    BY <2>1 DEF Lands
  <2>3. QED
    BY <2>2 DEF t
<1>5. QED
  BY <1>1, <1>2, <1>3, <1>4

LEMMA GuestNear ==
  ASSUME NEW g, NEW i, NEW len, i.op \in NearOps
  PROVE  GuestStep(g, i, len) =
           [g EXCEPT !.at = IF Taken(i, g.cx) THEN InSegment(g.seg, g.at + len + i.rel - SegBase(g.seg))
                                              ELSE InSegment(g.seg, g.at + len - SegBase(g.seg)),
                     !.cx = CxAfter(i, g.cx)]
BY DEF GuestStep, NearOps, Counted

LEMMA LiftNear ==
  ASSUME NEW l, NEW i, NEW len, i.op \in NearOps
  PROVE  lift_instruction(l, i, len) =
           IF Loops(i, l.cx) THEN Branch([l EXCEPT !.cx = CxAfter(i, l.cx)], Rel(l, i, len))
                             ELSE Onwards([l EXCEPT !.cx = CxAfter(i, l.cx)], l.f, l.at + len)
BY DEF lift_instruction, NearOps, Counted

\* Jumps and loops.
LEMMA NearTracks ==
  ASSUME layout \in Layouts, NEW g, NEW l, NEW i, NEW len, Ready(g, l, i, len),
         i.op \in NearOps, OneSegment(GuestStep(g, i, len))
  PROVE  Answers(g, l, i, GuestStep(g, i, len), lift_instruction(l, i, len))
<1>1. /\ l.f \in layout.funcs /\ l.at \in Nat /\ len \in Nat
      /\ l.f.seg = g.seg /\ l.at = g.at /\ l.cx = g.cx
      /\ l.f.start \in Int /\ g.seg \in Nat /\ g.cx \in Int
      /\ SegBase(g.seg) \in Nat
      /\ g \in Guests /\ l \in Lifteds
      /\ SegSize \in Nat \ {0} /\ CxTop \in Nat \ {0}
      /\ InSegment(g.seg, g.at + len - SegBase(g.seg)) = g.at + len
      /\ Lands(l.f, g.at + len)
  BY ReadyFacts
<1>2. i.rel \in Int
  <2>1. i.rel \in Rels
    BY Fields DEF Ready
  <2>2. SegSize \div 2 \in Int
    BY <1>1
  <2>3. QED
    BY <2>1, <2>2 DEF Rels
<1> DEFINE to == g.at + len + i.rel
           next == g.at + len
<1>3. InSegment(g.seg, g.at + len + i.rel - SegBase(g.seg)) = to
  <2> DEFINE b == SegBase(g.seg)
             ip == g.at - b + len + i.rel
  <2>1. ip \in Offsets
    <3>1. i.op # "call"
      BY DEF NearOps, Counted
    <3>2. QED
      BY <3>1 DEF Ready, WrapsWrongly
  <2>2. g.at + len + i.rel - b = ip /\ b + ip = to /\ b \in Int
    BY <1>1, <1>2
  <2> HIDE DEF ip, to
  <2>3. ip % SegSize = ip
    BY <1>1, <2>1, Within DEF Offsets
  <2>4. QED
    BY <2>2, <2>3 DEF InSegment
<1>4. Lands(l.f, to)
  <2>1. layout.bias # 0 => \/ known(to) \/ to \in DOMAIN l.f.code \/ ~known(layout.bias + to)
    BY DEF Ready, Unbiased
  <2> HIDE DEF to
  <2>2. QED
    BY <2>1 DEF Lands
<1>5. to \in Int /\ next \in Int /\ i.op # "call"
  BY <1>1, <1>2 DEF NearOps, Counted
<1>6. CxAfter(i, g.cx) \in Int
  <2>1. Dec(g.cx) \in Int
    BY <1>1 DEF Dec
  <2>2. QED
    BY <1>1, <2>1 DEF CxAfter
<1>7. Taken(i, g.cx) = Loops(i, g.cx)
  BY DEF Taken, Loops
<1> DEFINE cx == CxAfter(i, g.cx)
<1>8. PICK h : h = GuestStep(g, i, len)
  OBVIOUS
<1>9. PICK u : u = [l EXCEPT !.cx = cx]
  OBVIOUS
<1>10. h = [g EXCEPT !.at = IF Taken(i, g.cx) THEN to ELSE next, !.cx = cx]
  <2>1. h = [g EXCEPT !.at = IF Taken(i, g.cx) THEN InSegment(g.seg, g.at + len + i.rel - SegBase(g.seg))
                                               ELSE InSegment(g.seg, g.at + len - SegBase(g.seg)),
                      !.cx = cx]
    BY <1>8, GuestNear, Zenon
  <2>2. InSegment(g.seg, g.at + len - SegBase(g.seg)) = next
    BY <1>1
  <2> HIDE DEF to, next, cx
  <2>3. QED
    BY <1>3, <2>1, <2>2
<1>11. lift_instruction(l, i, len) =
          IF Loops(i, g.cx) THEN Branch(u, Rel(l, i, len)) ELSE Onwards(u, l.f, next)
  BY <1>1, <1>9, LiftNear
<1>12. Rel(l, i, len) \in Int /\ l.f.start + Rel(l, i, len) = to
  BY <1>1, <1>2 DEF Rel
<1> HIDE DEF cx, to, next
<1>13. /\ u \in Lifteds /\ u.f = l.f /\ u.at = l.at /\ u.cx = cx
       /\ u.stack = l.stack /\ u.calls = l.calls
  BY <1>1, <1>6, <1>9 DEF Lifteds, cx
<1>14. /\ h \in Guests /\ h.seg = g.seg /\ h.cx = cx /\ h.stack = g.stack
       /\ h.at = IF Taken(i, g.cx) THEN to ELSE next
  BY <1>1, <1>5, <1>6, <1>10 DEF Guests, cx
<1>15. Carries(h, u)
  BY <1>13, <1>14 DEF Carries, Ready, Beside
<1>16. OneSegment(h)
  BY <1>8
<1>17. CASE Taken(i, g.cx)
  <2>1. lift_instruction(l, i, len) = Branch(u, Rel(l, i, len))
    BY <1>7, <1>11, <1>17
  <2>2. h.at = to
    BY <1>14, <1>17
  <2>3. /\ Tracks(h, Branch(u, Rel(l, i, len)))
        /\ h.at \in DOMAIN u.f.code /\ h.at <= u.at => Branch(u, Rel(l, i, len)).ticked
    BY <1>1, <1>4, <1>12, <1>13, <1>14, <1>15, <1>16, <2>2, BranchTracks
  <2>4. QED
    BY <1>1, <1>8, <1>13, <2>1, <2>3 DEF Answers, Backs
<1>18. CASE ~Taken(i, g.cx)
  <2>1. lift_instruction(l, i, len) = Onwards(u, l.f, next)
    BY <1>7, <1>11, <1>18
  <2>2. h.at = next
    BY <1>14, <1>18
  <2>3. Tracks(h, Onwards(u, l.f, next))
    BY <1>1, <1>14, <1>15, <1>16, <2>2, OnwardsTracks DEF next
  <2>4. QED
    BY <1>8, <1>18, <2>1, <2>3 DEF Answers, Backs
<1>19. QED
  BY <1>17, <1>18

LEMMA CallKnownTracks ==
  ASSUME layout \in Layouts, NEW g, NEW l, Beside(g, l), NEW far \in BOOLEAN,
         NEW next \in Int, Lands(l.f, next), NEW seg \in Int, NEW at \in Int,
         NEW h, h = GuestGoes(g, seg, at, ReturnWords(g, next, far)), OneSegment(h),
         NEW lin, known(lin) \/ known(at) => lin = at
  PROVE  Tracks(h, CallKnown(l, next, far, lin))
<1>1. Carries(h, Called(l, next, far))
  BY CallCarries
<1>2. h.at = at
  BY DEF GuestGoes, Beside, Carries, Guests
<1>3. CASE known(lin)
  BY <1>1, <1>2, <1>3, EnterTracks DEF CallKnown
<1>4. CASE ~known(lin)
  <2>1. ~known(h.at) /\ l \in Lifteds
    BY <1>2, <1>4 DEF Beside, Carries
  <2>2. QED
    BY <1>4, <2>1, LostTracks DEF CallKnown
<1>5. QED
  BY <1>3, <1>4

LEMMA GuestCalls ==
  ASSUME NEW g, NEW i, NEW len, NEW next, next = InSegment(g.seg, g.at + len - SegBase(g.seg))
  PROVE  /\ i.op = "call" =>
              GuestStep(g, i, len) = GuestGoes(g, g.seg, InSegment(g.seg, g.at + len + i.rel - SegBase(g.seg)),
                                               ReturnWords(g, next, FALSE))
         /\ i.op = "call_far" =>
              GuestStep(g, i, len) = GuestGoes(g, i.seg, SegBase(i.seg) + i.off, ReturnWords(g, next, TRUE))
         /\ i.op = "int3f" =>
              GuestStep(g, i, len) = GuestGoes(g, FuncAt(i.at).seg, i.at, ReturnWords(g, next, TRUE))
         /\ i.op = "call_ind" =>
              GuestStep(g, i, len) = GuestGoes(g, g.seg, SegBase(g.seg) + i.off, ReturnWords(g, next, FALSE))
BY DEF GuestStep, NearOps, Counted

LEMMA LiftCalls ==
  ASSUME NEW l, NEW i, NEW len
  PROVE  /\ i.op = "call" =>
              lift_instruction(l, i, len) = CallKnown(l, l.at + len, FALSE, NearTarget(l.f.start + Rel(l, i, len)))
         /\ i.op = "call_far" /\ i.form = "direct" =>
              lift_instruction(l, i, len) = CallKnown(l, l.at + len, TRUE, FarTarget(i))
         /\ i.op = "call_far" /\ i.form = "mem" =>
              lift_instruction(l, i, len) = recomp_dispatch(Called(l, l.at + len, TRUE), i.seg, i.off)
         /\ i.op = "int3f" =>
              lift_instruction(l, i, len) = CallKnown(l, l.at + len, TRUE, i.at)
         /\ i.op = "call_ind" =>
              lift_instruction(l, i, len) = recomp_dispatch(Called(l, l.at + len, FALSE), l.f.seg, i.off)
<1>1. CASE i.op = "call"
  BY <1>1 DEF lift_instruction, NearOps, Counted
<1>2. CASE i.op = "call_far" /\ i.form = "direct"
  BY <1>2 DEF lift_instruction, NearOps, Counted
<1>3. CASE i.op = "call_far" /\ i.form = "mem"
  BY <1>3 DEF lift_instruction, NearOps, Counted
<1>4. CASE i.op = "int3f"
  BY <1>4 DEF lift_instruction, NearOps, Counted
<1>5. CASE i.op = "call_ind"
  BY <1>5 DEF lift_instruction, NearOps, Counted
<1>6. QED
  BY <1>1, <1>2, <1>3, <1>4, <1>5

\* The target of a near call is the guest's, wrapped in the first segment.
LEMMA NearTargetIs ==
  ASSUME layout \in Layouts, NEW g, NEW l, NEW i, NEW len, Ready(g, l, i, len), i.op = "call",
         NEW at, at = InSegment(g.seg, g.at + len + i.rel - SegBase(g.seg)),
         NEW lin, lin = NearTarget(l.f.start + Rel(l, i, len))
  PROVE  at \in Int /\ (known(lin) \/ known(at) => lin = at)
<1>1. /\ l.at \in Nat /\ len \in Nat /\ l.at = g.at /\ l.f.start \in Int
      /\ SegBase(g.seg) \in Nat /\ SegSize \in Nat \ {0}
  BY ReadyFacts
<1>2. i.rel \in Rels
  BY Fields DEF Ready
<1>3. i.rel \in Int /\ i.rel >= -SegSize
  BY <1>1, <1>2 DEF Rels
<1> DEFINE b == SegBase(g.seg)
           ip == g.at - b + len
           to == ip + i.rel
<1>4. ip \in Offsets /\ (to \in Offsets \/ (to < 0 /\ b = 0))
  <2>1. i.op \in NearOps \cup {"call"} /\ ~WrapsWrongly(g, i, len)
    BY DEF Ready
  <2>2. ip \in Offsets
    BY <2>1 DEF WrapsWrongly
  <2>3. to \in Offsets \/ (to < 0 /\ b = 0)
    BY <2>1, Zenon DEF WrapsWrongly
  <2>4. QED
    BY <2>2, <2>3, Zenon
<1>5. /\ g.at + len + i.rel - b = to /\ l.f.start + Rel(l, i, len) = b + to
      /\ to \in Int /\ b \in Nat /\ to >= -SegSize
  <2>1. ip \in Int /\ ip >= 0
    BY <1>1, <1>4 DEF Offsets
  <2>2. QED
    BY <1>1, <1>3, <2>1 DEF Rel
<1>6. at = b + (to % SegSize) /\ lin = NearTarget(b + to)
  BY <1>5 DEF InSegment
<1> HIDE DEF ip, to, b
<1>7. CASE to \in Offsets
  <2>1. to % SegSize = to /\ to >= 0
    BY <1>1, <1>7 DEF Offsets
  <2>2. lin = b + to
    <3>1. ~(b + to < 0)
      BY <1>5, <2>1
    <3>2. QED
      BY <1>6, <3>1 DEF NearTarget
  <2>3. QED
    BY <1>5, <1>6, <2>1, <2>2
<1>8. CASE to < 0 /\ b = 0
  <2>1. to % SegSize = to + SegSize
    <3>1. CASE to = -SegSize
      BY <1>1, <1>5, <1>8, <3>1
    <3>2. CASE to > -SegSize
      BY <1>1, <1>5, <1>8, <3>2
    <3>3. QED
      BY <1>1, <1>5, <3>1, <3>2
  <2>2. at = to + SegSize /\ at \in Int /\ b + to = to
    BY <1>1, <1>5, <1>6, <1>8, <2>1
  <2>3. ~known(to)
    BY <1>5, <1>8, FuncAtIs
  <2>4. lin = IF known(at) THEN at ELSE to
    BY <1>5, <1>6, <1>8, <2>2 DEF NearTarget
  <2>5. QED
    BY <2>2, <2>3, <2>4
<1>9. QED
  BY <1>4, <1>7, <1>8

\* The target of a direct far call: far_base, or the guess that finds a
\* function, is where the segments lie.
LEMMA FarTargetIs ==
  ASSUME layout \in Layouts, NEW i \in Instructions, i.op = "call_far", i.form = "direct", ~Misjudged(i),
         NEW at, at = SegBase(i.seg) + i.off
  PROVE  known(FarTarget(i)) \/ known(at) => FarTarget(i) = at
<1> DEFINE lin == i.seg * Para + i.off
<1>1. /\ layout.bias \in Int /\ lin \in Int /\ at = layout.bias + lin
      /\ HdrSize \in Int /\ Corr \in Int
  <2>1. layout.bias \in Int /\ HdrSize \in Int /\ Corr \in Int
    BY Laid, Flow16Assumption
  <2>2. i.off \in Nat /\ i.seg * Para \in Int /\ SegBase(i.seg) = layout.bias + i.seg * Para
    BY Fields
  <2>3. PICK sp : sp = i.seg * Para
    OBVIOUS
  <2>4. lin = sp + i.off /\ at = (layout.bias + sp) + i.off /\ sp \in Int
    BY <2>2, <2>3
  <2> HIDE DEF lin
  <2>5. QED
    BY <2>1, <2>2, <2>4
<1>2. known(FarTarget(i)) => FarTarget(i) = at
  BY DEF Misjudged
<1>3. CASE layout.far_base # Absent
  BY <1>1, <1>3, Laid DEF FarTarget
<1>4. CASE layout.far_base = Absent
  <2> HIDE DEF lin
  <2>1. FarTarget(i) = IF known(lin - Corr) THEN lin - Corr ELSE HdrSize + lin
    BY <1>4 DEF FarTarget, lin
  <2>2. layout.bias \in {-Corr, HdrSize}
    BY <1>4, Laid
  <2>3. at = lin - Corr \/ at = HdrSize + lin
    <3>1. CASE layout.bias = -Corr
      BY <1>1, <3>1
    <3>2. CASE layout.bias = HdrSize
      BY <1>1, <3>2
    <3>3. QED
      BY <2>2, <3>1, <3>2
  <2>4. QED
    BY <1>2, <2>1, <2>3
<1>5. QED
  BY <1>3, <1>4

\* Calls.
LEMMA CallTracks ==
  ASSUME layout \in Layouts, NEW g, NEW l, NEW i, NEW len, Ready(g, l, i, len),
         i.op \in {"call", "call_far", "int3f", "call_ind"}, OneSegment(GuestStep(g, i, len))
  PROVE  Tracks(GuestStep(g, i, len), lift_instruction(l, i, len))
<1>1. /\ l.f \in layout.funcs /\ l.at \in Nat /\ len \in Nat
      /\ l.f.seg = g.seg /\ l.at = g.at
      /\ g.seg \in Nat /\ SegBase(g.seg) \in Nat
      /\ InSegment(g.seg, g.at + len - SegBase(g.seg)) = g.at + len
      /\ Lands(l.f, g.at + len)
  BY ReadyFacts
<1>2. Beside(g, l) /\ i \in Instructions
  BY DEF Ready
<1>3. PICK h : h = GuestStep(g, i, len)
  OBVIOUS
<1>4. PICK next : next = g.at + len
  OBVIOUS
<1>5. /\ next \in Int /\ l.at + len = next /\ Lands(l.f, next) /\ OneSegment(h)
      /\ g.seg \in Int /\ FALSE \in BOOLEAN /\ TRUE \in BOOLEAN
  <2>1. next \in Int /\ l.at + len = next /\ g.seg \in Int
    BY <1>1, <1>4
  <2>2. Lands(l.f, next)
    BY <1>1, <1>4, Zenon
  <2>3. OneSegment(h)
    BY <1>3, Zenon
  <2>4. QED
    BY <2>1, <2>2, <2>3
<1>6. CASE i.op = "call"
  <2>1. PICK at : at = InSegment(g.seg, g.at + len + i.rel - SegBase(g.seg))
    OBVIOUS
  <2>2. PICK lin : lin = NearTarget(l.f.start + Rel(l, i, len))
    OBVIOUS
  <2>3. at \in Int /\ (known(lin) \/ known(at) => lin = at)
    BY <1>6, <2>1, <2>2, NearTargetIs
  <2>4. h = GuestGoes(g, g.seg, at, ReturnWords(g, next, FALSE))
    BY <1>1, <1>3, <1>4, <1>6, <2>1, GuestCalls
  <2>5. lift_instruction(l, i, len) = CallKnown(l, next, FALSE, lin)
    BY <1>5, <1>6, <2>2, LiftCalls
  <2>6. Tracks(h, CallKnown(l, next, FALSE, lin))
    BY <1>1, <1>2, <1>5, <2>3, <2>4, CallKnownTracks
  <2>7. QED
    BY <1>3, <2>5, <2>6
<1>7. CASE i.op = "call_far"
  <2>1. PICK at : at = SegBase(i.seg) + i.off
    OBVIOUS
  <2>2. i.seg \in Int /\ at \in Int
    <3>1. i.seg \in Nat /\ i.off \in Nat /\ SegBase(i.seg) \in Nat
      BY <1>2, <1>7, Fields
    <3>2. QED
      BY <2>1, <3>1
  <2>3. h = GuestGoes(g, i.seg, at, ReturnWords(g, next, TRUE))
    BY <1>1, <1>3, <1>4, <1>7, <2>1, GuestCalls
  <2>4. CASE i.form = "direct"
    <3>1. known(FarTarget(i)) \/ known(at) => FarTarget(i) = at
      BY <1>2, <1>7, <2>1, <2>4, FarTargetIs DEF Ready
    <3>2. Tracks(h, CallKnown(l, next, TRUE, FarTarget(i)))
      BY <1>1, <1>2, <1>5, <2>2, <2>3, <3>1, CallKnownTracks
    <3>3. QED
      BY <1>3, <1>5, <1>7, <2>4, <3>2, LiftCalls
  <2>5. CASE i.form = "mem"
    <3>1. Carries(h, Called(l, next, TRUE))
      BY <1>1, <1>2, <1>5, <2>2, <2>3, CallCarries
    <3>2. h.at = at
      BY <1>2, <2>3 DEF GuestGoes, Beside, Carries, Guests
    <3>3. Tracks(h, recomp_dispatch(Called(l, next, TRUE), i.seg, i.off))
      BY <1>5, <2>1, <3>1, <3>2, DispatchTracks
    <3>4. QED
      BY <1>3, <1>5, <1>7, <2>5, <3>3, LiftCalls
  <2>6. i.form \in {"direct", "mem"}
    BY <1>2, <1>7, Fields
  <2>7. QED
    BY <2>4, <2>5, <2>6
<1>8. CASE i.op = "int3f"
  <2>1. known(i.at) /\ i.at \in Int
    <3>1. known(i.at) /\ i.at \in Nat
      BY <1>2, <1>8, Fields
    <3>2. QED
      BY <3>1
  <2>2. FuncAt(i.at).seg \in Int
    <3>1. FuncAt(i.at) \in layout.funcs
      BY <2>1, FuncAtIs
    <3> HIDE DEF FuncAt
    <3>2. QED
      BY <3>1, Laid
  <2>3. h = GuestGoes(g, FuncAt(i.at).seg, i.at, ReturnWords(g, next, TRUE))
    BY <1>1, <1>3, <1>4, <1>8, GuestCalls
  <2>4. Tracks(h, CallKnown(l, next, TRUE, i.at))
    BY <1>1, <1>2, <1>5, <2>1, <2>2, <2>3, CallKnownTracks
  <2>5. QED
    BY <1>3, <1>5, <1>8, <2>4, LiftCalls
<1>9. CASE i.op = "call_ind"
  <2>1. PICK at : at = SegBase(g.seg) + i.off
    OBVIOUS
  <2>2. at \in Int
    <3>1. i.off \in Nat
      BY <1>2, <1>9, Fields
    <3>2. QED
      BY <1>1, <2>1, <3>1
  <2>3. h = GuestGoes(g, g.seg, at, ReturnWords(g, next, FALSE))
    BY <1>1, <1>3, <1>4, <1>9, <2>1, GuestCalls
  <2>4. Carries(h, Called(l, next, FALSE))
    BY <1>1, <1>2, <1>5, <2>2, <2>3, CallCarries
  <2>5. h.at = at
    BY <1>2, <2>3 DEF GuestGoes, Beside, Carries, Guests
  <2>6. Tracks(h, recomp_dispatch(Called(l, next, FALSE), l.f.seg, i.off))
    BY <1>1, <1>5, <2>1, <2>4, <2>5, DispatchTracks
  <2>7. QED
    BY <1>3, <1>5, <1>9, <2>6, LiftCalls
<1>10. QED
  BY <1>6, <1>7, <1>8, <1>9

LEMMA GuestJumps ==
  ASSUME NEW g, NEW i, NEW len, NEW next, next = InSegment(g.seg, g.at + len - SegBase(g.seg))
  PROVE  /\ i.op = "jmp_far" => GuestStep(g, i, len) = GuestGoes(g, i.seg, SegBase(i.seg) + i.off, <<>>)
         /\ i.op \in {"jmp_ind", "jmp_table"} =>
              GuestStep(g, i, len) = GuestGoes(g, g.seg, SegBase(g.seg) + i.off, <<>>)
         /\ i.op = "pushfar" =>
              GuestStep(g, i, len) =
                GuestGoes(g, g.seg, next, <<Word("data", i.seg), Word("data", i.off)>>)
         /\ i.op = "plain" => GuestStep(g, i, len) = [g EXCEPT !.at = next]
BY DEF GuestStep, NearOps, Counted

LEMMA LiftJumps ==
  ASSUME NEW l, NEW i, NEW len
  PROVE  /\ i.op = "jmp_far" => lift_instruction(l, i, len) = jmp_far(l, i)
         /\ i.op = "jmp_ind" => lift_instruction(l, i, len) = recomp_dispatch(l, l.f.seg, i.off)
         /\ i.op = "jmp_table" => lift_instruction(l, i, len) = jmp_table(l, i)
         /\ i.op = "pushfar" =>
              lift_instruction(l, i, len) =
                Onwards([l EXCEPT !.stack = @ \o <<Word("data", i.seg), Word("data", i.off)>>], l.f, l.at + len)
         /\ i.op = "plain" => lift_instruction(l, i, len) = Onwards(l, l.f, l.at + len)
<1>1. CASE i.op = "jmp_far"
  BY <1>1 DEF lift_instruction, NearOps, Counted
<1>2. CASE i.op = "jmp_ind"
  BY <1>2 DEF lift_instruction, NearOps, Counted
<1>3. CASE i.op = "jmp_table"
  BY <1>3 DEF lift_instruction, NearOps, Counted
<1>4. CASE i.op = "pushfar"
  BY <1>4 DEF lift_instruction, NearOps, Counted
<1>5. CASE i.op = "plain"
  BY <1>5 DEF lift_instruction, NearOps, Counted
<1>6. QED
  BY <1>1, <1>2, <1>3, <1>4, <1>5

\* Far, indirect and table jumps, and what only goes on.
LEMMA JumpTracks ==
  ASSUME layout \in Layouts, NEW g, NEW l, NEW i, NEW len, Ready(g, l, i, len),
         i.op \in {"jmp_far", "jmp_ind", "jmp_table", "pushfar", "plain"}, OneSegment(GuestStep(g, i, len))
  PROVE  Tracks(GuestStep(g, i, len), lift_instruction(l, i, len))
<1>1. /\ l.f \in layout.funcs /\ l.at \in Nat /\ len \in Nat
      /\ l.f.seg = g.seg /\ l.at = g.at
      /\ g.seg \in Nat /\ SegBase(g.seg) \in Nat
      /\ g \in Guests /\ l \in Lifteds
      /\ InSegment(g.seg, g.at + len - SegBase(g.seg)) = g.at + len
      /\ Lands(l.f, g.at + len)
  BY ReadyFacts
<1>2. Beside(g, l) /\ i \in Instructions
  BY DEF Ready
<1>3. /\ l.cx = g.cx /\ g.stack \in Seq(Words) /\ l.stack \in Seq(Words) /\ l.calls \in Seq(CallsOn)
      /\ Matched(g.stack, l.stack, l.calls) /\ Coupled(g.stack) /\ g.seg \in Int
  BY <1>2 DEF Beside, Carries, Guests, Lifteds
<1>4. PICK h : h = GuestStep(g, i, len)
  OBVIOUS
<1>5. OneSegment(h)
  BY <1>4, Zenon
<1>6. PICK next : next = g.at + len
  OBVIOUS
<1>7. next \in Int /\ l.at + len = next /\ Lands(l.f, next)
  <2>1. next \in Int /\ l.at + len = next
    BY <1>1, <1>6
  <2>2. Lands(l.f, next)
    BY <1>1, <1>6, Zenon
  <2>3. QED
    BY <2>1, <2>2
\* A guest that goes elsewhere carries what it did.
<1>8. ASSUME NEW seg \in Int, NEW at \in Int, NEW k, k = GuestGoes(g, seg, at, <<>>)
      PROVE  Carries(k, l) /\ k.at = at /\ k.seg = seg
  <2>1. k = [g EXCEPT !.seg = seg, !.at = at, !.stack = g.stack]
    <3>1. g.stack \o <<>> = g.stack
      BY <1>3
    <3>2. QED
      BY <1>8, <3>1 DEF GuestGoes
  <2>2. k \in Guests /\ k.cx = g.cx /\ k.stack = g.stack /\ k.at = at /\ k.seg = seg
    BY <1>1, <1>3, <2>1 DEF Guests
  <2>3. QED
    BY <1>1, <1>3, <2>2 DEF Carries
<1>9. CASE i.op = "jmp_far"
  <2>1. PICK at : at = SegBase(i.seg) + i.off
    OBVIOUS
  <2>2. i.seg \in Int /\ at \in Int
    <3>1. i.seg \in Nat /\ i.off \in Nat /\ SegBase(i.seg) \in Nat
      BY <1>2, <1>9, Fields
    <3>2. QED
      BY <2>1, <3>1
  <2>3. h = GuestGoes(g, i.seg, at, <<>>)
    BY <1>4, <1>9, <2>1, GuestJumps
  <2>4. Carries(h, l) /\ h.at = at
    BY <1>8, <2>2, <2>3
  <2>5. PICK lin : lin = i.seg * Para + i.off
    OBVIOUS
  <2>6. lift_instruction(l, i, len) =
           IF i.form = "direct" /\ known(lin) THEN Enter(l, lin) ELSE recomp_dispatch(l, i.seg, i.off)
    BY <1>9, <2>5, LiftJumps DEF jmp_far
  <2>7. i.form = "direct" /\ known(lin) => lin = at
    BY <1>9, <2>1, <2>5 DEF Ready, Misjudged
  <2>8. Tracks(h, recomp_dispatch(l, i.seg, i.off))
    BY <1>5, <2>1, <2>4, DispatchTracks
  <2>9. CASE i.form = "direct" /\ known(lin)
    <3>1. Tracks(h, Enter(l, lin))
      BY <1>5, <2>4, <2>7, <2>9, EnterTracks
    <3>2. QED
      BY <1>4, <2>6, <2>9, <3>1
  <2>10. CASE ~(i.form = "direct" /\ known(lin))
    BY <1>4, <2>6, <2>8, <2>10
  <2>11. QED
    BY <2>9, <2>10
<1>10. CASE i.op \in {"jmp_ind", "jmp_table"}
  <2>1. PICK at : at = SegBase(g.seg) + i.off
    OBVIOUS
  <2>2. at \in Int
    <3>1. i.off \in Nat
      BY <1>2, <1>10, Fields
    <3>2. QED
      BY <1>1, <2>1, <3>1
  <2>3. h = GuestGoes(g, g.seg, at, <<>>)
    BY <1>4, <1>10, <2>1, GuestJumps
  <2>4. Carries(h, l) /\ h.at = at /\ h.seg = g.seg
    BY <1>3, <1>8, <2>2, <2>3
  <2>5. Tracks(h, recomp_dispatch(l, l.f.seg, i.off))
    BY <1>1, <1>5, <2>1, <2>4, DispatchTracks
  <2>6. CASE i.op = "jmp_ind"
    BY <1>4, <2>5, <2>6, LiftJumps
  <2>7. CASE i.op = "jmp_table"
    <3>1. lift_instruction(l, i, len) =
             IF Switched(l.f, i.off) THEN [l EXCEPT !.at = Arm(l.f, i.off)]
             ELSE recomp_dispatch(l, l.f.seg, i.off)
      BY <2>7, LiftJumps DEF jmp_table
    <3>2. ASSUME Switched(l.f, i.off)
          PROVE  Arm(l.f, i.off) = at /\ at \in DOMAIN l.f.code
      <4>1. l.f.start \in Int /\ DOMAIN l.f.code \subseteq Nat
        BY <1>1, Laid
      <4>2. layout.bias = 0
        BY <2>7, <3>2 DEF Ready, WrongArm
      <4>3. PICK p : p = g.seg * Para
        OBVIOUS
      <4>4. p \in Int /\ i.off \in Nat
        BY <1>1, <1>2, <1>10, <4>3, Fields, Flow16Assumption
      <4>5. Arm(l.f, i.off) = p + i.off /\ at = 0 + p + i.off
        BY <1>1, <2>1, <4>2, <4>3 DEF Arm, SegBase
      <4>6. Arm(l.f, i.off) = at
        BY <4>4, <4>5
      <4>7. at - l.f.start \in valid_addrs(l.f)
        BY <3>2, <4>6 DEF Switched
      <4>8. QED
        BY <2>2, <4>1, <4>6, <4>7 DEF valid_addrs
    <3>3. CASE Switched(l.f, i.off)
      <4>1. PICK e : e = [l EXCEPT !.at = at]
        OBVIOUS
      <4>2. /\ e \in Lifteds /\ e.f = l.f /\ e.at = at
            /\ e.cx = l.cx /\ e.stack = l.stack /\ e.calls = l.calls
        BY <1>1, <2>2, <4>1 DEF Lifteds
      <4>3. Tracks(h, e)
        BY <1>1, <2>4, <3>2, <3>3, <4>2, BesideTracks DEF Beside, Carries
      <4>4. QED
        BY <1>4, <3>1, <3>2, <3>3, <4>1, <4>3
    <3>4. CASE ~Switched(l.f, i.off)
      BY <1>4, <2>5, <3>1, <3>4
    <3>5. QED
      BY <3>3, <3>4
  <2>8. QED
    BY <1>10, <2>6, <2>7
<1>11. CASE i.op = "pushfar"
  <2> DEFINE a == Word("data", i.seg)
             b == Word("data", i.off)
  <2>1. a \in Words /\ b \in Words /\ SameWord(a, a) /\ SameWord(b, b) /\ a.k = "data" /\ b.k = "data"
    <3>1. i.seg \in Nat /\ i.off \in Nat
      BY <1>2, <1>11, Fields
    <3>2. QED
      BY <3>1 DEF Word, Words, Kinds, SameWord
  <2> DEFINE S == Append(Append(g.stack, a), b)
             T == Append(Append(l.stack, a), b)
  <2>2. h = GuestGoes(g, g.seg, next, <<a, b>>)
    BY <1>1, <1>4, <1>6, <1>11, GuestJumps
  <2>3. lift_instruction(l, i, len) = Onwards([l EXCEPT !.stack = @ \o <<a, b>>], l.f, next)
    BY <1>7, <1>11, LiftJumps
  <2> HIDE DEF a, b
  <2>4. g.stack \o <<a, b>> = S /\ l.stack \o <<a, b>> = T /\ S \in Seq(Words) /\ T \in Seq(Words)
    <3>1. g.stack \in Seq(Words) /\ l.stack \in Seq(Words)
      BY <1>3
    <3>2. QED
      BY <2>1, <3>1, TwoWords
  <2>5. Matched(S, T, l.calls)
    <3>1. Matched(Append(g.stack, a), Append(l.stack, a), l.calls)
      BY <1>3, <2>1, PushWord
    <3>2. Append(g.stack, a) \in Seq(Words) /\ Append(l.stack, a) \in Seq(Words)
      BY <1>3, <2>1
    <3>3. QED
      BY <1>3, <2>1, <3>1, <3>2, PushWord
  <2>6. Coupled(S)
    <3> DEFINE s == Append(g.stack, a)
    <3>1. s \in Seq(Words)
      BY <1>3, <2>1
    <3>2. Coupled(s)
      BY <1>3, <2>1, CoupledAppend DEF Coupled
    <3> HIDE DEF s
    <3>3. Coupled(Append(s, b))
      BY <2>1, <3>1, <3>2, CoupledAppend DEF Coupled
    <3>4. QED
      BY <3>3 DEF s
  <2>7. PICK u : u = [l EXCEPT !.stack = @ \o <<a, b>>]
    OBVIOUS
  <2>8. u = [l EXCEPT !.stack = T] /\ h = [g EXCEPT !.seg = g.seg, !.at = next, !.stack = S]
    <3> HIDE DEF S, T
    <3>1. QED
      BY <2>2, <2>4, <2>7 DEF GuestGoes
  <2> HIDE DEF S, T
  <2>9. u \in Lifteds /\ u.f = l.f /\ u.cx = l.cx /\ u.stack = T /\ u.calls = l.calls
    BY <1>1, <2>4, <2>8 DEF Lifteds
  <2>10. h \in Guests /\ h.cx = g.cx /\ h.stack = S /\ h.at = next /\ h.seg = g.seg
    BY <1>1, <1>3, <1>7, <2>4, <2>8 DEF Guests
  <2>11. Carries(h, u)
    BY <1>3, <2>5, <2>6, <2>9, <2>10 DEF Carries
  <2>12. Tracks(h, Onwards(u, l.f, next))
    BY <1>1, <1>5, <1>7, <2>10, <2>11, OnwardsTracks
  <2>13. QED
    BY <1>4, <2>3, <2>7, <2>12
<1>12. CASE i.op = "plain"
  <2>1. h = [g EXCEPT !.at = next]
    <3>1. next = InSegment(g.seg, g.at + len - SegBase(g.seg))
      BY <1>1, <1>6
    <3>2. QED
      BY <1>4, <1>12, <3>1 DEF GuestStep, NearOps, Counted
  <2>2. h \in Guests /\ h.cx = g.cx /\ h.stack = g.stack /\ h.at = next /\ h.seg = g.seg
    BY <1>1, <1>7, <2>1 DEF Guests
  <2>3. Carries(h, l)
    BY <1>1, <1>3, <2>2 DEF Carries
  <2>4. Tracks(h, Onwards(l, l.f, next))
    BY <1>1, <1>5, <1>7, <2>2, <2>3, OnwardsTracks
  <2>5. QED
    BY <1>4, <1>7, <1>12, <2>4, LiftJumps
<1>13. QED
  BY <1>9, <1>10, <1>11, <1>12

LEMMA GuestReturns ==
  ASSUME NEW g, NEW i, NEW len
  PROVE  /\ i.op = "ret" =>
              GuestStep(g, i, len) =
                [g EXCEPT !.at = SegBase(g.seg) + g.stack[Len(g.stack)].v, !.stack = Drop(@, 1 + i.drop)]
         /\ i.op = "retf" =>
              GuestStep(g, i, len) =
                [g EXCEPT !.seg = g.stack[Len(g.stack) - 1].v,
                          !.at = SegBase(g.stack[Len(g.stack) - 1].v) + g.stack[Len(g.stack)].v,
                          !.stack = Drop(@, 2 + i.drop)]
BY DEF GuestStep, NearOps, Counted

LEMMA LiftReturns ==
  ASSUME NEW l, NEW i, NEW len
  PROVE  /\ i.op = "ret" => lift_instruction(l, i, len) = Return(l, 1 + i.drop)
         /\ i.op = "retf" => lift_instruction(l, i, len) = retf(l, i)
<1>1. CASE i.op = "ret"
  BY <1>1 DEF lift_instruction, NearOps, Counted
<1>2. CASE i.op = "retf"
  BY <1>2 DEF lift_instruction, NearOps, Counted
<1>3. QED
  BY <1>1, <1>2

\* Behind the last call under way, with the words of its return dropped.
LEMMA ReturnTracks ==
  ASSUME layout \in Layouts, NEW g, NEW l, Beside(g, l), NEW d \in Nat, d > 0, d <= Len(g.stack),
         g.stack[Len(g.stack)].k = "ip",
         \A n \in (Len(g.stack) - d + 1) .. (Len(g.stack) - 1) : g.stack[n].k # "ip",
         \/ g.stack[Len(g.stack) - d + 1].k # "ip"
         \/ Len(g.stack) > d => g.stack[Len(g.stack) - d].k # "cs",
         NEW h,
         Last(l.calls).f.seg = h.seg,
         h = [g EXCEPT !.seg = Last(l.calls).f.seg,
                       !.at = SegBase(Last(l.calls).f.seg) + g.stack[Len(g.stack)].v, !.stack = Drop(@, d)],
         OneSegment(h)
  PROVE  Tracks(h, Return(l, d))
<1> DEFINE k == Len(g.stack)
           c == Last(l.calls)
           top == g.stack[Len(g.stack)].v
<1>1. /\ g \in Guests /\ l \in Lifteds /\ Carries(g, l)
      /\ g.stack \in Seq(Words) /\ l.calls \in Seq(CallsOn)
      /\ Len(l.calls) = Ips(g.stack, k)
      /\ \A n \in 1 .. k : g.stack[n].k = "ip" => Returns(g.stack, n, l.calls[Ips(g.stack, n)])
  BY DEF Beside, Carries, Guests, Lifteds, Matched
<1>2. k \in Nat /\ k > 0 /\ k \in 1 .. k /\ top \in Int
  <2>1. k \in Nat /\ k > 0
    BY <1>1
  <2>2. k \in 1 .. k
    BY <2>1
  <2>3. g.stack[k] \in Words
    BY <1>1, <2>2
  <2>4. QED
    BY <2>1, <2>2, <2>3 DEF Words
<1>3. Ips(g.stack, k) \in 1 .. Ips(g.stack, k) /\ Ips(g.stack, k) \in Nat
  BY <1>2, IpsAt, IpsCount
<1>4. l.calls # <<>> /\ c = l.calls[Ips(g.stack, k)] /\ c \in CallsOn
  BY <1>1, <1>3 DEF Last
<1>5. Returns(g.stack, k, c)
  BY <1>1, <1>2, <1>4
<1>6. Ips(g.stack, k - d) = Ips(g.stack, k) - 1
  <2>1. Ips(g.stack, k) = Ips(g.stack, k - 1) + 1
    <3>1. k - 1 \in Nat /\ (k - 1) + 1 = k
      BY <1>2
    <3>2. Ips(g.stack, k - 1) \in Nat
      BY <3>1, IpsCount
    <3>3. Ips(g.stack, (k - 1) + 1) = Ips(g.stack, k - 1) + 1
      BY <3>1, IpsNext
    <3>4. QED
      BY <3>1, <3>3
  <2>2. Ips(g.stack, k - 1) = Ips(g.stack, k - d)
    <3>1. k - 1 \in Nat /\ k - d \in Nat /\ k - d <= k - 1
      BY <1>2
    <3>2. QED
      BY <3>1, IpsOver
  <2>3. Ips(g.stack, k - 1) \in Nat
    <3>1. k - 1 \in Nat
      BY <1>2
    <3>2. QED
      BY <3>1, IpsCount
  <2>4. QED
    BY <2>1, <2>2, <2>3
<1> DEFINE rest == Front(l.calls)
<1>7. /\ rest \in Seq(CallsOn) /\ Len(rest) = Len(l.calls) - 1
      /\ \A n \in 1 .. Len(rest) : rest[n] = l.calls[n]
  BY <1>1, <1>3 DEF Front
<1>8. c.f \in layout.funcs /\ c.next \in Int /\ c.f.seg \in Nat /\ SegBase(c.f.seg) \in Nat
  <2>1. c.f \in layout.funcs /\ c.next \in Int
    BY <1>4 DEF CallsOn
  <2> HIDE DEF c
  <2>2. QED
    BY <2>1, Laid
<1>9. c.next = SegBase(c.f.seg) + top /\ Lands(c.f, c.next)
  BY <1>5 DEF Returns
<1>10. PICK u : u = [l EXCEPT !.stack = Drop(@, d), !.calls = rest]
  OBVIOUS
<1>11. Len(rest) = Ips(g.stack, k - d)
  BY <1>1, <1>6, <1>7
<1>12. h = [g EXCEPT !.seg = c.f.seg, !.at = c.next, !.stack = Drop(@, d)]
  BY <1>9
<1>13. c.f.seg = h.seg
  OBVIOUS
<1> HIDE DEF c, rest
<1>14. Carries(h, u)
  <2>1. c.f.seg \in Int
    BY <1>8
  <2>2. Carries([g EXCEPT !.seg = c.f.seg, !.at = c.next, !.stack = Drop(@, d)],
                [l EXCEPT !.stack = Drop(@, d), !.calls = rest])
    BY <1>1, <1>7, <1>8, <1>11, <2>1, DropCarries
  <2>3. QED
    BY <1>10, <1>12, <2>2
<1>15. h.at = c.next
  BY <1>1, <1>12 DEF Guests
<1>16. Return(l, d) = Onwards(u, c.f, c.next)
  BY <1>4, <1>10 DEF Return, c, rest
<1>17. Tracks(h, Onwards(u, c.f, h.at))
  BY <1>8, <1>9, <1>13, <1>14, <1>15, OnwardsTracks
<1>18. QED
  BY <1>15, <1>16, <1>17

\* What a return takes off the stacks.
LEMMA SoundReturn ==
  ASSUME NEW g, NEW l, NEW i, NEW len, Ready(g, l, i, len), g.stack \in Seq(Words),
         i.drop \in {0, 2}
  PROVE  /\ i.op = "ret" =>
              /\ Last(l.calls).f.seg = g.seg
              /\ 1 + i.drop <= Len(g.stack)
              /\ g.stack[Len(g.stack)].k = "ip"
              /\ \A n \in 1 .. i.drop : g.stack[Len(g.stack) - n].k = "data"
              /\ Len(g.stack) > 1 => g.stack[Len(g.stack) - 1].k # "cs"
         /\ i.op = "retf" =>
              /\ 2 + i.drop <= Len(g.stack)
              /\ \/ /\ g.stack[Len(g.stack)].k = "ip" /\ g.stack[Len(g.stack) - 1].k = "cs"
                 \/ /\ g.stack[Len(g.stack)].k = "data" /\ g.stack[Len(g.stack) - 1].k = "data"
                    /\ g.stack[Len(g.stack)].v # 0
              /\ \A n \in 2 .. (i.drop + 1) : g.stack[Len(g.stack) - n].k = "data"
<1> DEFINE s == g.stack
           k == Len(g.stack)
<1>1. k \in Nat /\ s[k] = g.stack[Len(g.stack)] /\ s[k - 0] = s[k]
  OBVIOUS
<1>2. \A n \in Nat : Kind(s, n) \in {"ip", "cs", "data"} => n < k
  BY <1>1 DEF Kind
<1>3. \A n \in Nat : n < k => Kind(s, n) = s[k - n].k
  BY <1>1 DEF Kind
<1>4. Sound(g, i) /\ l.calls = lifted.calls
  BY DEF Ready
<1>5. CASE i.op = "ret"
  <2>1. /\ Kind(s, 0) = "ip" /\ Kind(s, 1) # "cs" /\ Last(l.calls).f.seg = g.seg
        /\ \A n \in 1 .. i.drop : Kind(s, n) = "data"
    BY <1>4, <1>5 DEF Sound
  <2> HIDE DEF s, k
  <2>2. 0 < k /\ s[k].k = "ip"
    BY <1>1, <1>2, <1>3, <2>1
  <2>3. ASSUME NEW n \in 1 .. i.drop PROVE n < k /\ s[k - n].k = "data"
    <3>1. n \in Nat /\ Kind(s, n) = "data"
      BY <2>1
    <3>2. QED
      BY <1>2, <1>3, <3>1
  <2>4. 1 + i.drop <= k
    <3>1. CASE i.drop = 0
      BY <1>1, <2>2, <3>1
    <3>2. CASE i.drop = 2
      <4>1. 2 \in 1 .. i.drop
        BY <3>2
      <4>2. QED
        BY <1>1, <2>3, <3>2, <4>1
    <3>3. QED
      BY <3>1, <3>2
  <2>5. k > 1 => s[k - 1].k # "cs"
    BY <1>1, <1>3, <2>1
  <2>6. QED
    BY <1>5, <2>1, <2>2, <2>3, <2>4, <2>5 DEF s, k
<1>6. CASE i.op = "retf"
  <2>1. /\ \/ Kind(s, 0) = "ip" /\ Kind(s, 1) = "cs"
           \/ /\ Kind(s, 0) = "data" /\ Kind(s, 1) = "data"
              /\ s[k].v # 0
        /\ \A n \in 2 .. (i.drop + 1) : Kind(s, n) = "data"
    BY <1>4, <1>6 DEF Sound, Last
  <2> HIDE DEF s, k
  <2>2. 0 < k /\ 1 < k /\ Kind(s, 0) = s[k].k /\ Kind(s, 1) = s[k - 1].k
    <3>1. 0 < k /\ 1 < k
      BY <1>2, <2>1
    <3>2. QED
      BY <1>1, <1>3, <3>1
  <2>3. ASSUME NEW n \in 2 .. (i.drop + 1) PROVE n < k /\ s[k - n].k = "data"
    <3>1. n \in Nat /\ Kind(s, n) = "data"
      BY <2>1
    <3>2. QED
      BY <1>2, <1>3, <3>1
  <2>4. 2 + i.drop <= k
    <3>1. CASE i.drop = 0
      BY <1>1, <2>2, <3>1
    <3>2. CASE i.drop = 2
      <4>1. 3 \in 2 .. (i.drop + 1)
        BY <3>2
      <4>2. QED
        BY <1>1, <2>3, <3>2, <4>1
    <3>3. QED
      BY <3>1, <3>2
  <2>5. QED
    BY <1>6, <2>1, <2>2, <2>3, <2>4 DEF s, k
<1>7. QED
  BY <1>5, <1>6

\* A near return, to behind the call under way.
LEMMA RetTracks ==
  ASSUME layout \in Layouts, NEW g, NEW l, NEW i, NEW len, Ready(g, l, i, len),
         i.op = "ret", OneSegment(GuestStep(g, i, len))
  PROVE  Tracks(GuestStep(g, i, len), lift_instruction(l, i, len))
<1>1. Beside(g, l) /\ i \in Instructions
  BY DEF Ready
<1>2. g \in Guests /\ g.stack \in Seq(Words) /\ i.drop \in {0, 2}
  BY <1>1, Fields DEF Beside, Carries, Guests
<1> DEFINE k == Len(g.stack)
           d == 1 + i.drop
<1>3. /\ Last(l.calls).f.seg = g.seg
      /\ d <= k /\ g.stack[k].k = "ip"
      /\ \A n \in 1 .. i.drop : g.stack[k - n].k = "data"
      /\ k > 1 => g.stack[k - 1].k # "cs"
  BY <1>2, SoundReturn
<1>4. k \in Nat /\ d \in Nat /\ d > 0 /\ d \in {1, 3}
  BY <1>2
<1>5. PICK h : h = GuestStep(g, i, len)
  OBVIOUS
<1>6. OneSegment(h)
  BY <1>5, Zenon
<1>7. h = [g EXCEPT !.seg = Last(l.calls).f.seg,
                    !.at = SegBase(Last(l.calls).f.seg) + g.stack[k].v, !.stack = Drop(@, d)]
  <2>1. h = [g EXCEPT !.at = SegBase(g.seg) + g.stack[k].v, !.stack = Drop(@, d)]
    BY <1>5, GuestReturns
  <2>2. PICK at : at = SegBase(g.seg) + g.stack[k].v
    OBVIOUS
  <2>3. PICK s : s = Drop(g.stack, d)
    OBVIOUS
  <2>4. h = [g EXCEPT !.at = at, !.stack = s]
    BY <2>1, <2>2, <2>3
  <2>5. h = [g EXCEPT !.seg = g.seg, !.at = at, !.stack = s]
    BY <1>2, <2>4 DEF Guests
  <2>6. QED
    BY <1>3, <2>2, <2>3, <2>5
<1>8. Last(l.calls).f.seg = h.seg
  BY <1>2, <1>3, <1>7 DEF Guests
<1>9. lift_instruction(l, i, len) = Return(l, d)
  BY LiftReturns
<1> HIDE DEF d
<1>10. \A n \in (k - d + 1) .. (k - 1) : g.stack[n].k # "ip"
  <2> HIDE DEF k
  <2>1. ASSUME NEW n \in (k - d + 1) .. (k - 1) PROVE g.stack[n].k # "ip"
    <3>1. k - n \in 1 .. i.drop /\ k - (k - n) = n
      BY <1>2, <1>4 DEF d
    <3>2. g.stack[k - (k - n)].k = "data"
      BY <1>3, <3>1
    <3>3. QED
      BY <3>1, <3>2
  <2>2. QED
    BY <2>1
<1>11. \/ g.stack[k - d + 1].k # "ip"
       \/ k > d => g.stack[k - d].k # "cs"
  <2>1. CASE d = 1
    <3>1. k > d => g.stack[k - 1].k # "cs"
      BY <1>3, <2>1
    <3>2. QED
      BY <2>1, <3>1
  <2>2. CASE d = 3
    <3>1. k - d + 1 \in (k - d + 1) .. (k - 1)
      BY <1>4, <2>2
    <3>2. QED
      BY <1>10, <3>1
  <2>3. QED
    BY <1>4, <2>1, <2>2
<1>12. Tracks(h, Return(l, d))
  BY <1>1, <1>3, <1>4, <1>6, <1>7, <1>8, <1>10, <1>11, ReturnTracks
<1>13. QED
  BY <1>5, <1>9, <1>12

\* A far return: behind the call under way, or a jump to the pair pushed.
LEMMA RetfTracks ==
  ASSUME layout \in Layouts, NEW g, NEW l, NEW i, NEW len, Ready(g, l, i, len),
         i.op = "retf", OneSegment(GuestStep(g, i, len))
  PROVE  Tracks(GuestStep(g, i, len), lift_instruction(l, i, len))
<1>1. Beside(g, l) /\ i \in Instructions /\ Carries(g, l)
  BY DEF Ready, Beside
<1>2. /\ g \in Guests /\ g.stack \in Seq(Words) /\ i.drop \in {0, 2}
      /\ l \in Lifteds /\ l.stack \in Seq(Words) /\ l.calls \in Seq(CallsOn)
      /\ Len(l.stack) = Len(g.stack)
      /\ \A n \in 1 .. Len(g.stack) : SameWord(g.stack[n], l.stack[n])
      /\ Len(l.calls) = Ips(g.stack, Len(g.stack))
      /\ \A n \in 1 .. Len(g.stack) :
            g.stack[n].k = "ip" => Returns(g.stack, n, l.calls[Ips(g.stack, n)])
  BY <1>1, Fields DEF Carries, Guests, Lifteds, Matched
<1> DEFINE k == Len(g.stack)
           d == 2 + i.drop
           top == g.stack[k].v
           below == g.stack[k - 1].v
<1>3. /\ d <= k
      /\ \/ g.stack[k].k = "ip" /\ g.stack[k - 1].k = "cs"
         \/ g.stack[k].k = "data" /\ g.stack[k - 1].k = "data" /\ top # 0
      /\ \A n \in 2 .. (i.drop + 1) : g.stack[k - n].k = "data"
  BY <1>2, SoundReturn
<1>4. k \in Nat /\ d \in Nat /\ d > 0 /\ d \in {2, 4} /\ k > 1
  BY <1>2, <1>3
<1>5. PICK h : h = GuestStep(g, i, len)
  OBVIOUS
<1>6. OneSegment(h)
  BY <1>5, Zenon
<1>7. h = [g EXCEPT !.seg = below, !.at = SegBase(below) + top, !.stack = Drop(@, d)]
  BY <1>5, GuestReturns
<1>8. k \in 1 .. k /\ k - 1 \in 1 .. k
  BY <1>4
<1>9. g.stack[k] \in Words /\ g.stack[k - 1] \in Words
  BY <1>2, <1>8
<1>10. top \in Int /\ below \in Int
  BY <1>9 DEF Words
<1>11. /\ SameWord(g.stack[k], l.stack[k]) /\ SameWord(g.stack[k - 1], l.stack[k - 1])
       /\ l.stack[Len(l.stack)] = l.stack[k] /\ l.stack[Len(l.stack) - 1] = l.stack[k - 1]
  BY <1>2, <1>8
<1>12. lift_instruction(l, i, len) =
          IF l.stack[k].v # Sentinel /\ l.stack[k].v # 0
          THEN recomp_dispatch([l EXCEPT !.stack = Drop(@, d)], l.stack[k - 1].v, l.stack[k].v)
          ELSE Return(l, d)
  <2>1. lift_instruction(l, i, len) = retf(l, i)
    BY LiftReturns
  <2>2. QED
    BY <1>2, <2>1 DEF retf
<1> HIDE DEF d, k
<1>13. \A n \in (k - d + 1) .. (k - 2) : g.stack[n].k # "ip"
  <2>1. ASSUME NEW n \in (k - d + 1) .. (k - 2) PROVE g.stack[n].k # "ip"
    <3>1. k - n \in 2 .. (i.drop + 1) /\ k - (k - n) = n
      BY <1>2, <1>4 DEF d
    <3>2. g.stack[k - (k - n)].k = "data"
      BY <1>3, <3>1
    <3>3. QED
      BY <3>1, <3>2
  <2>2. QED
    BY <2>1
<1>14. CASE g.stack[k].k = "ip" /\ g.stack[k - 1].k = "cs"
  <2>1. Returns(g.stack, k, l.calls[Ips(g.stack, k)])
    BY <1>2, <1>8, <1>14 DEF k
  <2>2. below = l.calls[Ips(g.stack, k)].f.seg
    BY <1>4, <1>14, <2>1 DEF Returns
  <2>3. Last(l.calls) = l.calls[Ips(g.stack, k)]
    BY <1>2 DEF Last, k
  <2>4. l.stack[k].v = Sentinel
    BY <1>11, <1>14 DEF SameWord
  <2>5. lift_instruction(l, i, len) = Return(l, d)
    BY <1>12, <2>4
  <2>6. \A n \in (k - d + 1) .. (k - 1) : g.stack[n].k # "ip"
    <3>1. ASSUME NEW n \in (k - d + 1) .. (k - 1) PROVE g.stack[n].k # "ip"
      <4>1. CASE n = k - 1
        BY <1>14, <4>1
      <4>2. CASE n # k - 1
        <5>1. n \in (k - d + 1) .. (k - 2)
          BY <1>4, <4>2
        <5>2. QED
          BY <1>13, <5>1
      <4>3. QED
        BY <4>1, <4>2
    <3>2. QED
      BY <3>1
  <2>7. g.stack[k - d + 1].k # "ip"
    <3>1. k - d + 1 \in (k - d + 1) .. (k - 1)
      BY <1>4
    <3>2. QED
      BY <2>6, <3>1
  <2>8. PICK c : c = Last(l.calls)
    OBVIOUS
  <2>9. below = c.f.seg
    BY <2>2, <2>3, <2>8
  <2>10. h = [g EXCEPT !.seg = c.f.seg, !.at = SegBase(c.f.seg) + top, !.stack = Drop(@, d)]
    BY <1>7, <2>9
  <2>11. c.f.seg = h.seg
    BY <1>2, <2>10 DEF Guests
  <2>12. Tracks(h, Return(l, d))
    BY <1>1, <1>3, <1>4, <1>6, <1>14, <2>6, <2>7, <2>8, <2>10, <2>11, ReturnTracks DEF k
  <2>13. QED
    BY <1>5, <2>5, <2>12
<1>15. CASE g.stack[k].k = "data" /\ g.stack[k - 1].k = "data" /\ top # 0
  <2>1. l.stack[k].v = top /\ l.stack[k - 1].v = below /\ top >= 0
    BY <1>11, <1>15 DEF SameWord
  <2>2. top # Sentinel
    BY <1>10, <2>1 DEF Sentinel
  <2>3. lift_instruction(l, i, len) = recomp_dispatch([l EXCEPT !.stack = Drop(@, d)], below, top)
    BY <1>12, <1>15, <2>1, <2>2
  <2>4. \A n \in (k - d + 1) .. k : g.stack[n].k # "ip"
    <3>1. ASSUME NEW n \in (k - d + 1) .. k PROVE g.stack[n].k # "ip"
      <4>1. CASE n = k \/ n = k - 1
        BY <1>15, <4>1
      <4>2. CASE n # k /\ n # k - 1
        <5>1. n \in (k - d + 1) .. (k - 2)
          BY <1>4, <4>2
        <5>2. QED
          BY <1>13, <5>1
      <4>3. QED
        BY <4>1, <4>2
    <3>2. QED
      BY <3>1
  <2>5. Ips(g.stack, k) = Ips(g.stack, k - d)
    <3>1. k - d \in Nat /\ k - d <= k
      BY <1>3, <1>4
    <3>2. QED
      BY <1>4, <2>4, <3>1, IpsOver
  <2>6. g.stack[k - d + 1].k # "ip"
    <3>1. k - d + 1 \in (k - d + 1) .. k
      BY <1>4
    <3>2. QED
      BY <2>4, <3>1
  <2>7. PICK at : at = SegBase(below) + top
    OBVIOUS
  <2>8. at \in Int
    <3>1. below * Para \in Int /\ layout.bias \in Int
      BY <1>10, Laid, Flow16Assumption
    <3>2. SegBase(below) \in Int
      BY <3>1 DEF SegBase
    <3>3. QED
      BY <1>10, <2>7, <3>2
  <2>9. PICK u : u = [l EXCEPT !.stack = Drop(@, d)]
    OBVIOUS
  <2>10. u = [l EXCEPT !.stack = Drop(@, d), !.calls = l.calls]
    <3>1. PICK t : t = Drop(l.stack, d)
      OBVIOUS
    <3>2. u = [l EXCEPT !.stack = t]
      BY <2>9, <3>1
    <3>3. u = [l EXCEPT !.stack = t, !.calls = l.calls]
      BY <1>2, <3>2 DEF Lifteds
    <3>4. QED
      BY <3>1, <3>3
  <2>11. h = [g EXCEPT !.seg = below, !.at = at, !.stack = Drop(@, d)]
    BY <1>7, <2>7
  <2>12. Carries(h, u)
    <3>1. Len(l.calls) = Ips(g.stack, Len(g.stack) - d)
      BY <1>2, <2>5 DEF k
    <3>2. \A n \in 1 .. Len(l.calls) : l.calls[n] = l.calls[n]
      OBVIOUS
    <3>3. Carries([g EXCEPT !.seg = below, !.at = at, !.stack = Drop(@, d)],
                  [l EXCEPT !.stack = Drop(@, d), !.calls = l.calls])
      BY <1>1, <1>2, <1>3, <1>4, <1>10, <2>6, <2>8, <3>1, <3>2, DropCarries DEF k
    <3>4. QED
      BY <2>10, <2>11, <3>3
  <2>13. h.at = at
    BY <1>2, <2>11 DEF Guests
  <2>14. Tracks(h, recomp_dispatch(u, below, top))
    BY <1>6, <2>7, <2>12, <2>13, DispatchTracks
  <2>15. QED
    BY <1>5, <2>3, <2>9, <2>14
<1>16. QED
  BY <1>3, <1>14, <1>15

\* Every instruction.
LEMMA StepAnswers ==
  ASSUME layout \in Layouts, NEW g, NEW l, NEW i, NEW len, Ready(g, l, i, len),
         OneSegment(GuestStep(g, i, len))
  PROVE  Answers(g, l, i, GuestStep(g, i, len), lift_instruction(l, i, len))
<1>1. i \in Instructions
  BY DEF Ready
<1>2. CASE i.op \in NearOps
  BY <1>2, NearTracks
<1>3. CASE i.op \in {"call", "call_far", "int3f", "call_ind"}
  BY <1>3, CallTracks DEF Answers, Backs, NearOps, Counted
<1>4. CASE i.op \in {"jmp_far", "jmp_ind", "jmp_table", "pushfar", "plain"}
  BY <1>4, JumpTracks DEF Answers, Backs, NearOps, Counted
<1>5. CASE i.op = "ret"
  BY <1>5, RetTracks DEF Answers, Backs, NearOps, Counted
<1>6. CASE i.op = "retf"
  BY <1>6, RetfTracks DEF Answers, Backs, NearOps, Counted
<1>7. QED
  BY <1>1, <1>2, <1>3, <1>4, <1>5, <1>6, Fields

----------------------------------------------------------------------------
(* The specification. *)

LEMMA FlowStarts == ASSUME Flow16Init PROVE FlowInv
<1>1. layout \in Layouts
  BY DEF Flow16Init
<1>2. PICK f \in layout.funcs, cx \in 0 .. CxTop - 1 :
         /\ guest = [at |-> Start(f), seg |-> f.seg, cx |-> cx, stack |-> <<>>]
         /\ lifted = [f |-> f, at |-> Start(f), cx |-> cx, stack |-> <<>>, calls |-> <<>>,
                      ticked |-> FALSE]
  BY DEF Flow16Init
<1>3. Start(f) \in DOMAIN f.code /\ Start(f) \in Int /\ f.seg \in Int /\ cx \in Int
  <2>1. f.entry \in DOMAIN f.code /\ Start(f) = f.entry /\ DOMAIN f.code \subseteq Nat /\ f.seg \in Nat
    BY <1>1, Laid
  <2>2. CxTop \in Nat
    BY Flow16Assumption
  <2> HIDE DEF Start
  <2>3. QED
    BY <2>1, <2>2
<1> HIDE DEF Start
<1>4. guest \in Guests /\ lifted \in Lifteds
  BY <1>2, <1>3 DEF Guests, Lifteds
<1>5. Matched(<<>>, <<>>, <<>>) /\ Coupled(<<>>)
  <2>1. Ips(<<>>, 0) = 0
    BY IpsNone
  <2>2. QED
    BY <2>1 DEF Matched, Coupled
<1>6. Beside(guest, lifted)
  BY <1>2, <1>3, <1>4, <1>5 DEF Beside, Carries
<1>7. Tracks(guest, lifted)
  BY <1>1, <1>6, BesideTracks
<1>8. QED
  BY <1>1, <1>7 DEF FlowInv, Flow16Init

LEMMA FlowStays == ASSUME FlowInv, UNCHANGED f16vars PROVE FlowInv'
BY DEF FlowInv, f16vars, Tracks, Beside, Carries, Guests, Lifteds, CallsOn, Matched, Returns, Lands,
       known, SegBase, Coupled, SameWord

\* What is said of the next guest and C is said of the next state.
LEMMA TracksNext ==
  ASSUME layout' = layout, Tracks(guest', lifted')
  PROVE  Tracks(guest, lifted)'
BY DEF Tracks, Beside, Carries, Guests, Lifteds, CallsOn, Matched, Returns, Lands,
       known, SegBase, Coupled, SameWord

LEMMA FlowStep == ASSUME FlowInv, Flow16Next PROVE FlowInv'
<1>1. /\ layout \in Layouts /\ lifted.at # Nowhere /\ Beside(guest, lifted)
      /\ layout' = layout
  BY DEF FlowInv, Tracks, Flow16Next, Flow16Step
<1>2. PICK len : len = lifted.f.code[lifted.at]
  OBVIOUS
<1>3. PICK i \in Instructions :
         /\ Sound(guest, i) /\ ~Known16(guest, i, len)
         /\ guest' = GuestStep(guest, i, len)
         /\ OneSegment(guest')
         /\ lifted' = lift_instruction([lifted EXCEPT !.ticked = FALSE], i, len)
         /\ back' = (/\ i.op \in NearOps /\ Taken(i, guest.cx)
                     /\ guest'.at <= guest.at /\ guest'.at \in DOMAIN lifted.f.code)
  BY <1>2 DEF Flow16Next, Flow16Step
<1>4. PICK l : l = [lifted EXCEPT !.ticked = FALSE]
  OBVIOUS
<1>5. /\ l \in Lifteds /\ l.f = lifted.f /\ l.at = lifted.at /\ l.cx = lifted.cx
      /\ l.stack = lifted.stack /\ l.calls = lifted.calls
  BY <1>1, <1>4 DEF Beside, Carries, Lifteds
<1>6. Beside(guest, l)
  BY <1>1, <1>5 DEF Beside, Carries
<1>7. Ready(guest, l, i, len)
  BY <1>2, <1>3, <1>5, <1>6 DEF Ready, Known16
<1>8. PICK g : g = GuestStep(guest, i, len)
  OBVIOUS
<1>9. OneSegment(GuestStep(guest, i, len))
  BY <1>3, Zenon
<1>10. Answers(guest, l, i, GuestStep(guest, i, len), lift_instruction(l, i, len))
  BY <1>1, <1>7, <1>9, StepAnswers
<1>11. Answers(guest, l, i, guest', lifted')
  BY <1>3, <1>4, <1>10, Zenon
<1>12. Tracks(guest, lifted)'
  BY <1>1, <1>11, TracksNext DEF Answers
<1>13. lifted'.at # Nowhere => (back' => lifted'.ticked)
  BY <1>3, <1>5, <1>11, Zenon DEF Answers, Backs
<1>14. layout' \in Layouts
  BY <1>1
<1>15. QED
  BY <1>12, <1>13, <1>14 DEF FlowInv

LEMMA FlowAgrees == ASSUME FlowInv PROVE TransfersAgree
<1>1. CASE lifted.at = Nowhere
  BY <1>1 DEF FlowInv, Tracks, TransfersAgree
<1>2. CASE lifted.at # Nowhere
  <2>1. /\ lifted.at = guest.at /\ lifted.f.seg = guest.seg /\ lifted.cx = guest.cx
        /\ guest.stack \in Seq(Words)
        /\ Matched(guest.stack, lifted.stack, lifted.calls)
        /\ back => lifted.ticked
    BY <1>2 DEF FlowInv, Tracks, Beside, Carries, Guests
  <2>2. DOMAIN guest.stack = 1 .. Len(guest.stack)
    BY <2>1
  <2>3. Quantify(DOMAIN guest.stack, LAMBDA n : guest.stack[n].k = "ip") = Ips(guest.stack, Len(guest.stack))
    BY <2>2 DEF Quantify, Ips
  <2>4. \A n \in DOMAIN guest.stack : guest.stack[n].k = "data" => lifted.stack[n] = guest.stack[n]
    BY <2>1, <2>2 DEF Matched, SameWord
  <2>5. Len(lifted.stack) = Len(guest.stack) /\ Len(lifted.calls) = Ips(guest.stack, Len(guest.stack))
    BY <2>1 DEF Matched
  <2>6. QED
    BY <1>2, <2>1, <2>3, <2>4, <2>5 DEF TransfersAgree
<1>3. QED
  BY <1>1, <1>2

\* Lifted 16-bit code goes where the program goes, with its count, its data
\* and one C call under way for each of its calls, and polls on every branch
\* back: for every layout that is laid out as WellLaid says, every size of
\* segments and paragraphs and every program that returns where it was called
\* from (lift16.py:227-233 and 743-760).
THEOREM Transfers16Always == BenchSpec => []Transfers16
<1> DEFINE BenchInv == bench = "flow16" => FlowInv
<1>1. BenchInit => BenchInv
  BY FlowStarts DEF BenchInit
<1>2. BenchInv /\ [BenchNext]_<<bench, lfvars, dcvars, rcvars, argvars, rgvars, f16vars, nmvars>> => BenchInv'
  <2> SUFFICES ASSUME FlowInv, bench = "flow16", bench' = bench, Flow16Next \/ UNCHANGED f16vars
               PROVE  FlowInv'
    BY DEF BenchNext
  <2>1. QED
    BY FlowStep, FlowStays
<1>3. BenchInv => Transfers16
  BY FlowAgrees DEF Transfers16
<1>4. QED
  BY <1>1, <1>2, <1>3, PTL DEF BenchSpec

----------------------------------------------------------------------------
(* Function ranges, for every set of images.  The invariant says what each   *)
(* pass has found and how the ranges may lie: regions are merged in order,   *)
(* each behind all that are merged; only an analyser's range may hold the    *)
(* start of another; and in the report the bytes of what is counted lie      *)
(* below the start of what is left until an overlap is reported.             *)
Sources == {"pdata", "ghidra", "export", "entrypoint"}
Ranges == [start : Nat, end : Nat \cup {-1}, source : Sources]

\* The regions merged so far, and those left, each behind all of the former.
Merging(rs, m, rest) ==
    /\ rest \subseteq rs
    /\ m \in Seq(Nat \X Nat)
    /\ \A k \in DOMAIN m : m[k][1] <= m[k][2]
    /\ \A j, k \in DOMAIN m : j < k => m[j][2] <= m[k][1]
    /\ \A k \in DOMAIN m : \E r \in rs \ rest : m[k][1] = r.begin
    /\ \A k \in DOMAIN m, s \in rest : m[k][2] <= s.begin
    /\ \A r \in rs \ rest, s \in rest : r.begin < s.begin
    /\ \A r \in rs \ rest : \E k \in DOMAIN m : /\ m[k][1] <= r.begin /\ r.end <= m[k][2]
                                                /\ r.begin < r.end => m[k][1] = r.of

\* What kinds of range there are, and which may begin inside which.
Apart(fs) ==
    /\ fs \subseteq Ranges
    /\ \A f \in fs : CASE f.source = "pdata" -> f.start < f.end
                       [] f.source = "ghidra" -> f.start <= f.end
                       [] OTHER -> f.end = -1
    /\ \A f, g \in fs : f # g /\ f.start = g.start =>
          f.source = "ghidra" /\ g.source = "ghidra" /\ (f.end = f.start \/ g.end = g.start)
    /\ \A f, g \in fs : f # g /\ Rng!Holds(f, g.start) =>
          f.source = "ghidra" /\ (g.source = "pdata" \/ (g.end = g.start /\ g.start = f.start))

RegionsFound(img, fs) == \A r \in img.regions : r.begin < r.end => \E f \in fs : f.start = r.of /\ Rng!Holds(f, r.end - 1)
StartFound(fs, e) == Rng!at_start(fs, e) \/ Rng!covered_by(fs, e)
ExportsFound(img, fs) == \A e \in img.exports \cap img.code : StartFound(fs, e)
EntryFound(img, fs) == \A e \in {img.entry} \ {0} : StartFound(fs, e)

Before(f, g) == f.start < g.start \/ (f.start = g.start /\ f.end < g.end)

\* The bounds left are behind those that are functions.
Bounding(img, fs, bs) ==
    /\ bs \subseteq {b \in img.bounds : b[1] >= 0}
    /\ \A f \in fs : f.source \in {"pdata", "ghidra"}
    /\ \A f \in fs, b \in bs : f.source = "ghidra" => f.start < b[1] \/ (f.start = b[1] /\ f.end < b[2])

\* The report of the functions seen.
Reports(seen, rep) ==
    /\ "overlap" \in rep.problems <=> \E f, g \in seen : Rng!Shared(f, g)
    /\ rep.covered_bytes \in Nat
    /\ IsFiniteSet(Rng!Bytes(seen))
    /\ "overlap" \notin rep.problems => rep.covered_bytes = Cardinality(Rng!Bytes(seen))
    /\ IF seen = {} THEN rep.previous = {}
       ELSE \E p \in seen : rep.previous = {p} /\ \A f \in seen : f = p \/ Before(f, p)
Reporting(fs, rest, rep) ==
    /\ rest \subseteq fs
    /\ \A f \in fs \ rest, g \in rest : Before(f, g)
    /\ Reports(fs \ rest, rep)

RangesInv ==
    /\ image \in Images
    /\ pass \in {"pdata", "bounds", "entry", "report"}
    /\ pass = "pdata" => Merging(image.regions, joined, left)
    /\ pass # "pdata" => Apart(functions) /\ RegionsFound(image, functions)
    /\ pass = "bounds" => Bounding(image, functions, left)
    /\ pass \in {"entry", "report"} => ExportsFound(image, functions)
    /\ pass = "report" => EntryFound(image, functions) /\ Reporting(functions, left, report)
    /\ pass # "report" => report = [problems |-> {}, covered_bytes |-> 0, previous |-> {}]

\* Nothing is merged at the start, and nothing reported.
LEMMA RangesStart == ASSUME Rng!RangesInit PROVE RangesInv
<1>1. image \in Images /\ pass = "pdata" /\ left = image.regions /\ joined = <<>>
      /\ report = [problems |-> {}, covered_bytes |-> 0, previous |-> {}]
  BY DEF Rng!RangesInit
<1>2. Merging(image.regions, <<>>, image.regions)
  BY DEF Merging
<1>3. QED
  BY <1>1, <1>2 DEF RangesInv

\* One region merged.
LEMMA MergeKeeps ==
    ASSUME image \in Images, RangesInv, Rng!merge_unwind_regions
    PROVE  Merging(image.regions, joined', left')
<1> DEFINE rs == image.regions
<1>1. PICK r \in left :
        /\ \A s \in left : r.begin <= s.begin
        /\ left' = left \ {r}
        /\ joined' = IF Rng!Continues(r)
                     THEN [joined EXCEPT ![Len(joined)] = <<joined[Len(joined)][1], r.end>>]
                     ELSE Append(joined, <<r.begin, r.end>>)
  BY DEF Rng!merge_unwind_regions
<1>2. Merging(rs, joined, left) /\ r \in rs
  BY <1>1 DEF RangesInv, Rng!merge_unwind_regions, Merging
<1>3. /\ rs \subseteq Rng!Region
      /\ \A x \in rs : x.begin <= x.end
      /\ \A x, s \in rs : x # s => x.begin # s.begin /\ (x.end <= s.begin \/ s.end <= x.begin)
      /\ \A x \in rs : IF x.chained THEN \E p \in rs : p.begin < p.end /\ p.end = x.begin /\ p.of = x.of
                                    ELSE x.of = x.begin
  BY RangesAssumption DEF Rng!ImagesAssumption
<1>4. \A x \in rs : x.begin \in Nat /\ x.end \in Nat /\ x.of \in Nat
  BY <1>3 DEF Rng!Region
<1>5. \A s \in left \ {r} : r.begin < s.begin /\ r.end <= s.begin
  <2>1. TAKE s \in left \ {r}
  <2>2. s \in rs /\ s # r /\ r.begin <= s.begin
    BY <1>1, <1>2 DEF Merging
  <2>3. r.begin # s.begin /\ (r.end <= s.begin \/ s.end <= r.begin) /\ s.begin <= s.end
    BY <1>2, <1>3, <2>2
  <2>4. QED
    BY <1>2, <1>4, <2>2, <2>3
<1>6. /\ joined \in Seq(Nat \X Nat) /\ Len(joined) \in Nat /\ DOMAIN joined = 1 .. Len(joined)
      /\ \A k \in DOMAIN joined : joined[k][1] \in Nat /\ joined[k][2] \in Nat
  BY <1>2 DEF Merging
<1>7. rs \ left' = (rs \ left) \cup {r}
  BY <1>1, <1>2
<1>8. left' \subseteq rs /\ \A x \in rs \ left', s \in left' : x.begin < s.begin
  BY <1>1, <1>2, <1>5, <1>7 DEF Merging
<1>9. CASE Rng!Continues(r)
  <2> DEFINE n == Len(joined)
  <2>1. n \in DOMAIN joined /\ joined[n][2] = r.begin /\ r.chained
    BY <1>6, <1>9 DEF Rng!Continues
  <2>2. PICK m : m = [joined EXCEPT ![n] = <<joined[n][1], r.end>>]
    OBVIOUS
  <2>3. joined' = m
    BY <1>1, <1>9, <2>2
  <2>4. m \in Seq(Nat \X Nat)
    BY <1>4, <1>2, <1>6, <2>1, <2>2
  <2>5. DOMAIN m = DOMAIN joined /\ m[n][1] = joined[n][1] /\ m[n][2] = r.end
        /\ \A k \in DOMAIN joined : k # n => m[k] = joined[k]
    BY <1>6, <2>1, <2>2
  <2>6. \A k \in DOMAIN m : m[k][1] = joined[k][1] /\ joined[k][2] <= m[k][2] /\ m[k][1] <= m[k][2]
    <3>1. TAKE k \in DOMAIN m
    <3>2. k \in DOMAIN joined /\ joined[k][1] <= joined[k][2] /\ r.begin <= r.end
      BY <1>2, <1>3, <2>5 DEF Merging
    <3>3. CASE k = n
      BY <1>2, <1>4, <1>6, <2>1, <2>5, <3>2, <3>3
    <3>4. CASE k # n
      BY <1>6, <2>5, <3>2, <3>4
    <3>5. QED
      BY <3>3, <3>4
  <2>7. \A j, k \in DOMAIN m : j < k => m[j][2] <= m[k][1]
    BY <1>2, <1>6, <2>1, <2>5, <2>6 DEF Merging
  <2>8. \A k \in DOMAIN m : \E x \in rs \ left' : m[k][1] = x.begin
    BY <1>2, <1>7, <2>5, <2>6 DEF Merging
  <2>9. \A k \in DOMAIN m, s \in left' : m[k][2] <= s.begin
    BY <1>1, <1>2, <1>5, <2>5 DEF Merging
  <2>10. \A x \in rs \ left : \E k \in DOMAIN m : /\ m[k][1] <= x.begin /\ x.end <= m[k][2]
                                                  /\ x.begin < x.end => m[k][1] = x.of
    <3>1. TAKE x \in rs \ left
    <3>2. PICK k \in DOMAIN joined : /\ joined[k][1] <= x.begin /\ x.end <= joined[k][2]
                                     /\ x.begin < x.end => joined[k][1] = x.of
      BY <1>2 DEF Merging
    <3>3. joined[k][2] <= m[k][2] /\ m[k][2] \in Nat /\ x.end \in Nat /\ joined[k][2] \in Nat
      <4>1. x \in rs /\ k \in DOMAIN m /\ (k = n \/ m[k] = joined[k])
        BY <2>5
      <4>2. QED
        BY <1>2, <1>4, <1>6, <2>5, <2>6, <4>1
    <3>4. QED
      BY <2>5, <2>6, <3>2, <3>3
  <2>11. joined[n][1] <= r.begin /\ (r.begin < r.end => joined[n][1] = r.of)
    <3>1. PICK p \in rs : p.begin < p.end /\ p.end = r.begin /\ p.of = r.of
      BY <1>2, <1>3, <2>1
    <3>2. p \in rs \ left
      BY <1>1, <1>2, <1>4, <3>1
    <3>3. PICK k \in DOMAIN joined : joined[k][1] <= p.begin /\ p.end <= joined[k][2] /\ joined[k][1] = p.of
      BY <1>2, <3>1, <3>2 DEF Merging
    <3>4. k = n
      <4>1. SUFFICES ASSUME k < n PROVE FALSE
        BY <1>6, <2>1, <3>3
      <4>2. joined[k][2] <= joined[n][1] /\ joined[n][1] <= joined[n][2]
        BY <1>2, <2>1, <3>3, <4>1 DEF Merging
      <4>3. joined[n][1] = r.begin
        BY <1>4, <1>6, <2>1, <3>1, <3>3, <4>2
      <4>4. PICK q \in rs \ left : joined[n][1] = q.begin
        BY <1>2, <2>1 DEF Merging
      <4>5. QED
        BY <1>1, <1>2, <1>3, <4>3, <4>4
    <3>5. QED
      BY <1>4, <1>6, <3>1, <3>3, <3>4
  <2>12. m[n][1] <= r.begin /\ r.end <= m[n][2] /\ (r.begin < r.end => m[n][1] = r.of)
    BY <1>2, <1>4, <2>5, <2>11
  <2>13. \A x \in rs \ left' : \E k \in DOMAIN m : /\ m[k][1] <= x.begin /\ x.end <= m[k][2]
                                                   /\ x.begin < x.end => m[k][1] = x.of
    BY <1>7, <2>1, <2>5, <2>10, <2>12
  <2>14. Merging(rs, m, left')
    BY <1>8, <2>4, <2>6, <2>7, <2>8, <2>9, <2>13 DEF Merging
  <2>15. QED
    BY <2>3, <2>14
<1>10. CASE ~Rng!Continues(r)
  <2> DEFINE n == Len(joined)
  <2>1. PICK m : m = Append(joined, <<r.begin, r.end>>)
    OBVIOUS
  <2>2. joined' = m
    BY <1>1, <1>10, <2>1
  <2>3. /\ m \in Seq(Nat \X Nat) /\ DOMAIN m = DOMAIN joined \cup {n + 1} /\ n + 1 \notin DOMAIN joined
        /\ \A k \in DOMAIN joined : m[k] = joined[k] /\ k < n + 1
        /\ m[n + 1][1] = r.begin /\ m[n + 1][2] = r.end
    BY <1>2, <1>4, <1>6, <2>1
  <2>4. \A k \in DOMAIN m : m[k][1] <= m[k][2]
    BY <1>2, <1>3, <1>4, <2>3 DEF Merging
  <2>5. \A j, k \in DOMAIN m : j < k => m[j][2] <= m[k][1]
    <3>1. TAKE j, k \in DOMAIN m
    <3>2. HAVE j < k
    <3>3. j \in DOMAIN joined
      BY <1>6, <2>3, <3>2
    <3>4. CASE k \in DOMAIN joined
      BY <1>2, <2>3, <3>2, <3>3, <3>4 DEF Merging
    <3>5. CASE k = n + 1
      BY <1>1, <1>2, <2>3, <3>3, <3>5 DEF Merging
    <3>6. QED
      BY <2>3, <3>4, <3>5
  <2>6. \A k \in DOMAIN m : \E x \in rs \ left' : m[k][1] = x.begin
    BY <1>2, <1>7, <2>3 DEF Merging
  <2>7. \A k \in DOMAIN m, s \in left' : m[k][2] <= s.begin
    BY <1>1, <1>2, <1>5, <2>3 DEF Merging
  <2>8. r.begin < r.end => r.of = r.begin
    <3>1. CASE r.chained
      <4>1. PICK p \in rs : p.begin < p.end /\ p.end = r.begin /\ p.of = r.of
        BY <1>2, <1>3, <3>1
      <4>2. p \in rs \ left
        BY <1>1, <1>2, <1>4, <4>1
      <4>3. PICK k \in DOMAIN joined : p.end <= joined[k][2]
        BY <1>2, <4>1, <4>2 DEF Merging
      <4>4. n \in DOMAIN joined /\ joined[k][2] <= joined[n][2]
        <5>1. n \in DOMAIN joined /\ (k < n \/ k = n)
          BY <1>6, <4>3
        <5>2. k < n => joined[k][2] <= joined[n][1] /\ joined[n][1] <= joined[n][2]
          BY <1>2, <5>1, <4>3 DEF Merging
        <5>3. QED
          BY <1>6, <5>1, <5>2, <4>3
      <4>5. joined[n][2] <= r.begin
        BY <1>1, <1>2, <4>4 DEF Merging
      <4>6. joined[n][2] = r.begin /\ joined # <<>>
        BY <1>2, <1>4, <1>6, <4>1, <4>3, <4>4, <4>5
      <4>7. QED
        BY <1>10, <3>1, <4>6 DEF Rng!Continues
    <3>2. QED
      BY <1>2, <1>3, <3>1
  <2>9. \A x \in rs \ left' : \E k \in DOMAIN m : /\ m[k][1] <= x.begin /\ x.end <= m[k][2]
                                                  /\ x.begin < x.end => m[k][1] = x.of
    <3>1. TAKE x \in rs \ left'
    <3>2. CASE x \in rs \ left
      <4>1. PICK k \in DOMAIN joined : /\ joined[k][1] <= x.begin /\ x.end <= joined[k][2]
                                       /\ x.begin < x.end => joined[k][1] = x.of
        BY <1>2, <3>2 DEF Merging
      <4>2. QED
        BY <2>3, <4>1
    <3>3. CASE x = r
      BY <1>2, <1>4, <2>3, <2>8, <3>3
    <3>4. QED
      BY <1>7, <3>2, <3>3
  <2>10. Merging(rs, m, left')
    BY <1>8, <2>3, <2>4, <2>5, <2>6, <2>7, <2>9 DEF Merging
  <2>11. QED
    BY <2>2, <2>10
<1>11. QED
  BY <1>9, <1>10

\* The linker's ranges.
LEMMA PdataKeeps ==
    ASSUME image \in Images, RangesInv, Rng!Pdata
    PROVE  Apart(functions') /\ RegionsFound(image, functions') /\ Bounding(image, functions', left')
<1> DEFINE rs == image.regions
<1>1. /\ left = {} /\ Merging(rs, joined, {})
      /\ left' = {b \in image.bounds : b[1] >= 0}
      /\ functions' = {Rng!Function(joined[k][1], joined[k][2], "pdata") :
                          k \in {j \in DOMAIN joined : joined[j][2] > joined[j][1]}}
  BY DEF Rng!Pdata, RangesInv
<1>2. /\ joined \in Seq(Nat \X Nat) /\ Len(joined) \in Nat /\ DOMAIN joined = 1 .. Len(joined)
      /\ \A k \in DOMAIN joined : joined[k][1] \in Nat /\ joined[k][2] \in Nat
  BY <1>1 DEF Merging
<1>3. \A f \in functions' : \E k \in DOMAIN joined :
         f = [start |-> joined[k][1], end |-> joined[k][2], source |-> "pdata"] /\ joined[k][1] < joined[k][2]
  BY <1>1, <1>2 DEF Rng!Function
<1>4. \A f \in functions' : /\ f \in Ranges /\ f.source = "pdata" /\ f.start \in Nat /\ f.end \in Nat
                            /\ f.start < f.end
  BY <1>2, <1>3 DEF Ranges, Sources
<1>5. \A f, g \in functions' : f # g => f.end <= g.start \/ g.end <= f.start
  <2>1. TAKE f, g \in functions'
  <2>2. HAVE f # g
  <2>3. PICK j \in DOMAIN joined : f = [start |-> joined[j][1], end |-> joined[j][2], source |-> "pdata"]
    BY <1>3
  <2>4. PICK k \in DOMAIN joined : g = [start |-> joined[k][1], end |-> joined[k][2], source |-> "pdata"]
    BY <1>3
  <2>5. j < k \/ k < j
    BY <1>2, <2>2, <2>3, <2>4
  <2>6. joined[j][2] <= joined[k][1] \/ joined[k][2] <= joined[j][1]
    BY <1>1, <2>5 DEF Merging
  <2>7. QED
    BY <2>3, <2>4, <2>6
<1>6. Apart(functions')
  <2>1. \A f, g \in functions' : f # g => f.start # g.start /\ ~Rng!Holds(f, g.start)
    BY <1>4, <1>5 DEF Rng!Holds
  <2>2. QED
    BY <1>4, <2>1 DEF Apart
<1>7. RegionsFound(image, functions')
  <2>1. SUFFICES ASSUME NEW r \in rs, r.begin < r.end
                 PROVE  \E f \in functions' : f.start = r.of /\ Rng!Holds(f, r.end - 1)
    BY DEF RegionsFound
  <2>2. r.begin \in Nat /\ r.end \in Nat
    BY RangesAssumption DEF Rng!ImagesAssumption, Rng!Region
  <2>3. PICK k \in DOMAIN joined : joined[k][1] <= r.begin /\ r.end <= joined[k][2] /\ joined[k][1] = r.of
    BY <1>1, <2>1 DEF Merging
  <2>4. PICK f : f = Rng!Function(joined[k][1], joined[k][2], "pdata")
    OBVIOUS
  <2>5. joined[k][2] > joined[k][1]
    BY <1>2, <2>1, <2>2, <2>3
  <2>6. f \in functions'
    BY <1>1, <2>4, <2>5
  <2>7. f.start = joined[k][1] /\ f.end = joined[k][2]
    BY <2>4 DEF Rng!Function
  <2>8. f.start = r.of /\ Rng!Holds(f, r.end - 1)
    BY <1>2, <2>1, <2>2, <2>3, <2>7 DEF Rng!Holds, Rng!NoEnd
  <2>9. QED
    BY <2>6, <2>8
<1>8. QED
  BY <1>1, <1>4, <1>6, <1>7 DEF Bounding

\* What is found stays found where functions are added.
LEMMA FoundStays ==
    ASSUME NEW fs, NEW gs, fs \subseteq gs
    PROVE  /\ RegionsFound(image, fs) => RegionsFound(image, gs)
           /\ ExportsFound(image, fs) => ExportsFound(image, gs)
           /\ \A e : StartFound(fs, e) => StartFound(gs, e)
  BY DEF RegionsFound, ExportsFound, StartFound, Rng!at_start, Rng!covered_by

\* A bound that starts in no range is a range of its own.
LEMMA BoundsKeeps ==
    ASSUME image \in Images, RangesInv, Rng!Bounds
    PROVE  Apart(functions') /\ RegionsFound(image, functions') /\ Bounding(image, functions', left')
<1>1. PICK b \in left :
        /\ \A c \in left : Rng!Earlier(b, c)
        /\ left' = left \ {b}
        /\ functions' = functions \cup {f \in {Rng!Function(b[1], b[2], "ghidra")} : ~Rng!Splits(functions, b)}
  BY DEF Rng!Bounds
<1>2. Apart(functions) /\ RegionsFound(image, functions) /\ Bounding(image, functions, left)
  BY DEF RangesInv, Rng!Bounds
<1>3. \A c \in left : /\ c[1] \in Nat /\ c[2] \in Nat /\ c[1] <= c[2] /\ c = <<c[1], c[2]>>
                      /\ c \in image.bounds /\ c[1] >= 0
  BY <1>2, RangesAssumption DEF Rng!ImagesAssumption, Bounding
<1>4. \A c \in left' : b[1] < c[1] \/ (b[1] = c[1] /\ b[2] < c[2])
  BY <1>1, <1>3 DEF Rng!Earlier
<1>5. PICK g : g = Rng!Function(b[1], b[2], "ghidra")
  OBVIOUS
<1>6. /\ g = [start |-> b[1], end |-> b[2], source |-> "ghidra"] /\ g \in Ranges
      /\ g.start = b[1] /\ g.end = b[2] /\ g.source = "ghidra"
  BY <1>3, <1>5 DEF Rng!Function, Ranges, Sources
<1>7. left' \subseteq {c \in image.bounds : c[1] >= 0}
  BY <1>1, <1>3
<1>8. RegionsFound(image, functions')
  BY <1>1, <1>2, FoundStays
<1>9. CASE Rng!Splits(functions, b)
  <2>1. functions' = functions
    BY <1>1, <1>9
  <2>2. QED
    BY <1>1, <1>2, <1>7, <1>8, <2>1 DEF Bounding
<1>10. CASE ~Rng!Splits(functions, b)
  <2>1. functions' = functions \cup {g}
    BY <1>1, <1>5, <1>10
  <2>2. \A f \in functions : ~Rng!Holds(f, b[1])
    BY <1>10 DEF Rng!Splits, Rng!covered_by
  <2>3. \A f \in functions : /\ f \in Ranges /\ f.start \in Nat /\ f.end \in Nat \cup {-1}
                             /\ f.source \in {"pdata", "ghidra"}
                             /\ f.source = "pdata" => f.start < f.end
                             /\ f.source = "ghidra" => f.start <= f.end
                             /\ f.source = "ghidra" => f.start < b[1] \/ (f.start = b[1] /\ f.end < b[2])
    BY <1>2 DEF Apart, Bounding, Ranges
  <2>4. \A f \in functions : f.start = b[1] => f.source = "ghidra" /\ f.end = f.start
    BY <1>3, <2>2, <2>3 DEF Rng!Holds, Rng!NoEnd
  <2>5. \A f \in functions : Rng!Holds(g, f.start) => f.source = "pdata" \/ (f.end = f.start /\ f.start = b[1])
    <3>1. TAKE f \in functions
    <3>2. HAVE Rng!Holds(g, f.start)
    <3>3. b[1] <= f.start
      BY <1>6, <3>2 DEF Rng!Holds
    <3>4. QED
      BY <1>3, <2>3, <2>4, <3>3
  <2>6. \A f, h \in functions' : f # h /\ f.start = h.start =>
          f.source = "ghidra" /\ h.source = "ghidra" /\ (f.end = f.start \/ h.end = h.start)
    <3>1. TAKE f, h \in functions'
    <3>2. HAVE f # h /\ f.start = h.start
    <3>3. CASE f \in functions /\ h \in functions
      BY <1>2, <3>2, <3>3 DEF Apart
    <3>4. CASE f = g /\ h \in functions
      BY <1>6, <2>4, <3>2, <3>4
    <3>5. CASE h = g /\ f \in functions
      BY <1>6, <2>4, <3>2, <3>5
    <3>6. QED
      BY <2>1, <3>2, <3>3, <3>4, <3>5
  <2>7. \A f, h \in functions' : f # h /\ Rng!Holds(f, h.start) =>
          f.source = "ghidra" /\ (h.source = "pdata" \/ (h.end = h.start /\ h.start = f.start))
    <3>1. TAKE f, h \in functions'
    <3>2. HAVE f # h /\ Rng!Holds(f, h.start)
    <3>3. CASE f \in functions /\ h \in functions
      BY <1>2, <3>2, <3>3 DEF Apart
    <3>4. CASE f = g /\ h \in functions
      BY <1>6, <2>5, <3>2, <3>4
    <3>5. CASE h = g /\ f \in functions
      BY <1>6, <2>2, <3>2, <3>5
    <3>6. QED
      BY <2>1, <3>2, <3>3, <3>4, <3>5
  <2>8. \A f \in functions' : CASE f.source = "pdata" -> f.start < f.end
                                [] f.source = "ghidra" -> f.start <= f.end
                                [] OTHER -> f.end = -1
    BY <1>3, <1>6, <2>1, <2>3
  <2>9. Apart(functions')
    BY <1>6, <2>1, <2>3, <2>6, <2>7, <2>8 DEF Apart
  <2>10. \A f \in functions', c \in left' : f.source = "ghidra" => f.start < c[1] \/ (f.start = c[1] /\ f.end < c[2])
    BY <1>1, <1>2, <1>4, <1>6, <2>1 DEF Bounding
  <2>11. QED
    BY <1>6, <1>7, <1>8, <2>1, <2>3, <2>9, <2>10 DEF Bounding
<1>11. QED
  BY <1>9, <1>10

\* Starts of unknown extent that are in no range and at no range's start.
LEMMA StartsKeep ==
    ASSUME NEW fs, Apart(fs), NEW es \in SUBSET Nat, NEW src \in {"export", "entrypoint"},
           \A e \in es : ~Rng!at_start(fs, e) /\ ~Rng!covered_by(fs, e),
           NEW gs, gs = fs \cup {Rng!Function(e, -1, src) : e \in es}
    PROVE  Apart(gs)
<1> DEFINE new == {Rng!Function(e, -1, src) : e \in es}
<1>1. \A g \in new : /\ g \in Ranges /\ g.start \in es /\ g.end = -1 /\ g.source = src
                     /\ g = [start |-> g.start, end |-> -1, source |-> src]
  BY DEF Rng!Function, Ranges, Sources
<1>2. \A g, h \in new : g.start = h.start => g = h
  BY <1>1
<1>3. \A g \in new, f \in fs : f.start # g.start /\ ~Rng!Holds(f, g.start)
  BY <1>1 DEF Rng!at_start, Rng!covered_by
<1>4. \A g \in new : \A x : ~Rng!Holds(g, x)
  BY <1>1 DEF Rng!Holds, Rng!NoEnd
<1>5. \A f \in gs : f \in fs \/ f \in new
  OBVIOUS
<1> HIDE DEF new
<1>6. gs \subseteq Ranges
  BY <1>1, <1>5 DEF Apart
<1>7. \A f \in gs : CASE f.source = "pdata" -> f.start < f.end
                      [] f.source = "ghidra" -> f.start <= f.end
                      [] OTHER -> f.end = -1
  BY <1>1, <1>5 DEF Apart
<1>8. \A f, g \in gs : f # g /\ f.start = g.start =>
          f.source = "ghidra" /\ g.source = "ghidra" /\ (f.end = f.start \/ g.end = g.start)
  BY <1>2, <1>3, <1>5 DEF Apart
<1>9. \A f, g \in gs : f # g /\ Rng!Holds(f, g.start) =>
          f.source = "ghidra" /\ (g.source = "pdata" \/ (g.end = g.start /\ g.start = f.start))
  BY <1>3, <1>4, <1>5 DEF Apart
<1>10. QED
  BY <1>6, <1>7, <1>8, <1>9 DEF Apart

\* The exports that are code and begin no range yet are found.
LEMMA ExportsKeeps ==
    ASSUME image \in Images, RangesInv, Rng!Exports
    PROVE  Apart(functions') /\ RegionsFound(image, functions') /\ ExportsFound(image, functions')
<1> DEFINE fresh == {e \in image.exports : e \in image.code /\ ~Rng!at_start(functions, e)}
           lone == {e \in fresh : ~Rng!covered_by(functions, e)}
<1>1. Apart(functions) /\ RegionsFound(image, functions)
  BY DEF RangesInv, Rng!Exports
<1>2. functions' = functions \cup {Rng!Function(e, -1, "export") : e \in lone}
  BY DEF Rng!Exports, Rng!NoEnd
<1>3. lone \in SUBSET Nat
  BY RangesAssumption DEF Rng!ImagesAssumption
<1>4. Apart(functions')
  BY <1>1, <1>2, <1>3, StartsKeep
<1>5. functions \subseteq functions'
  BY <1>2
<1>6. \A e \in image.exports \cap image.code : StartFound(functions', e)
  <2>1. TAKE e \in image.exports \cap image.code
  <2>2. CASE e \in lone
    <3>1. PICK g : g = Rng!Function(e, -1, "export")
      OBVIOUS
    <3>2. g \in functions' /\ g.start = e
      BY <1>2, <2>2, <3>1 DEF Rng!Function
    <3>3. QED
      BY <3>2 DEF StartFound, Rng!at_start
  <2>3. CASE e \notin lone
    <3>1. StartFound(functions, e)
      BY <2>3 DEF StartFound
    <3>2. QED
      BY <1>5, <3>1, FoundStays
  <2>4. QED
    BY <2>2, <2>3
<1>7. QED
  BY <1>1, <1>4, <1>5, <1>6, FoundStays DEF ExportsFound

\* So is the entry point, and the report begins with nothing seen.
LEMMA EntryKeeps ==
    ASSUME image \in Images, RangesInv, Rng!Entry
    PROVE  /\ Apart(functions') /\ RegionsFound(image, functions') /\ ExportsFound(image, functions') /\ EntryFound(image, functions')
           /\ Reporting(functions', left', report')
<1> DEFINE lone == {x \in {image.entry} \ {0} : ~Rng!at_start(functions, x) /\ ~Rng!covered_by(functions, x)}
<1>1. Apart(functions) /\ RegionsFound(image, functions) /\ ExportsFound(image, functions)
  BY DEF RangesInv, Rng!Entry
<1>2. functions' = functions \cup {Rng!Function(e, -1, "entrypoint") : e \in lone}
  BY DEF Rng!Entry, Rng!NoEnd
<1>3. lone \in SUBSET Nat
  BY RangesAssumption DEF Rng!ImagesAssumption
<1>4. Apart(functions')
  BY <1>1, <1>2, <1>3, StartsKeep
<1>5. functions \subseteq functions'
  BY <1>2
<1>6. \A e \in {image.entry} \ {0} : StartFound(functions', e)
  <2>1. TAKE e \in {image.entry} \ {0}
  <2>2. CASE e \in lone
    <3>1. PICK g : g = Rng!Function(e, -1, "entrypoint")
      OBVIOUS
    <3>2. g \in functions' /\ g.start = e
      BY <1>2, <2>2, <3>1 DEF Rng!Function
    <3>3. QED
      BY <3>2 DEF StartFound, Rng!at_start
  <2>3. CASE e \notin lone
    <3>1. StartFound(functions, e)
      BY <2>3 DEF StartFound
    <3>2. QED
      BY <1>5, <3>1, FoundStays
  <2>4. QED
    BY <2>2, <2>3
<1>7. report' = [problems |-> {}, covered_bytes |-> 0, previous |-> {}]
  BY DEF RangesInv, Rng!Entry
<1>8. Rng!Bytes({}) = {}
  BY DEF Rng!Bytes
<1>9. Reports({}, report')
  BY <1>7, <1>8, FS_EmptySet DEF Reports
<1>10. left' = functions' /\ functions' \ left' = {}
  BY DEF Rng!Entry
<1>11. Reporting(functions', left', report')
  BY <1>9, <1>10 DEF Reporting
<1>12. QED
  BY <1>1, <1>4, <1>5, <1>6, <1>11, FoundStays DEF EntryFound

\* Ranges that begin and end alike are one.
LEMMA OneRange ==
    ASSUME NEW fs, Apart(fs), NEW f \in fs, NEW g \in fs, f.start = g.start, f.end = g.end
    PROVE  f = g
<1>1. f \in Ranges /\ g \in Ranges
  BY DEF Apart
<1>2. f # g => f.source = "ghidra" /\ g.source = "ghidra"
  BY DEF Apart
<1>3. QED
  BY <1>1, <1>2 DEF Ranges

\* What a range is.
LEMMA RangeTypes ==
    ASSUME NEW fs, Apart(fs), NEW f \in fs
    PROVE  /\ f.start \in Nat /\ f.end \in Nat \cup {-1}
           /\ f.source = "pdata" => f.start < f.end
           /\ f.end # -1 => f.start <= f.end
  BY DEF Apart, Ranges

\* The ranges that share bytes with one that comes behind them.
LEMMA NextShares ==
    ASSUME NEW fs, Apart(fs), NEW seen \in SUBSET fs, NEW f \in fs, \A g \in seen : Before(g, f),
           NEW p \in seen, \A g \in seen : g = p \/ Before(g, p)
    PROVE  (\E g, h \in seen \cup {f} : Rng!Shared(g, h)) <=>
             \/ \E g, h \in seen : Rng!Shared(g, h)
             \/ p.start # f.start /\ p.end # -1 /\ f.end # -1 /\ f.start < p.end
<1>1. \A g \in fs : /\ g.start \in Nat /\ g.end \in Nat \cup {-1}
                    /\ g.source = "pdata" => g.start < g.end
                    /\ g.end # -1 => g.start <= g.end
  BY RangeTypes
<1>2. \A g, h \in fs : Rng!Shared(g, h) => /\ g.start <= h.start /\ h.start < g.end /\ h.start < h.end
                                           /\ g.source = "ghidra" /\ h.source = "pdata"
  <2>1. SUFFICES ASSUME NEW g \in fs, NEW h \in fs, Rng!Shared(g, h)
                 PROVE  /\ g.start <= h.start /\ h.start < g.end /\ h.start < h.end
                        /\ g.source = "ghidra" /\ h.source = "pdata"
    OBVIOUS
  <2>2. g # h /\ Rng!Holds(g, h.start) /\ g.start <= h.start /\ h.start < g.end /\ h.start < h.end
    BY <2>1 DEF Rng!Shared, Rng!Holds
  <2>3. g.source = "ghidra" /\ (h.source = "pdata" \/ (h.end = h.start /\ h.start = g.start))
    BY <2>2 DEF Apart
  <2>4. QED
    BY <1>1, <2>2, <2>3
<1>3. ASSUME NEW g \in seen, Rng!Shared(g, f)
      PROVE  \/ \E h \in seen : Rng!Shared(g, h)
             \/ p.start # f.start /\ p.end # -1 /\ f.end # -1 /\ f.start < p.end
  <2>1. /\ g.start <= f.start /\ f.start < g.end /\ f.start < f.end /\ f.source = "pdata"
        /\ g.source = "ghidra" /\ g \in fs /\ p \in fs
    BY <1>2, <1>3
  <2>2. f.end # -1 /\ g.end # -1
    BY <1>1, <2>1
  <2>3. f # p => p.start # f.start
    BY <2>1 DEF Apart
  <2>4. f # p
    BY <1>1 DEF Before
  <2>5. CASE g = p
    BY <2>1, <2>2, <2>3, <2>4, <2>5
  <2>6. CASE g # p
    <3>1. Before(g, p) /\ Before(p, f)
      BY <2>6
    <3>2. g.start <= p.start /\ p.start < g.end
      BY <1>1, <2>1, <3>1 DEF Before
    <3>3. Rng!Holds(g, p.start)
      BY <2>2, <3>2 DEF Rng!Holds, Rng!NoEnd
    <3>4. p.source = "pdata" \/ (p.end = p.start /\ p.start = g.start)
      BY <2>1, <2>6, <3>3 DEF Apart
    <3>5. ~(p.end = p.start /\ p.start = g.start)
      BY <1>1, <2>1, <3>1, <3>2 DEF Before
    <3>6. p.start < p.end
      BY <1>1, <2>1, <3>4, <3>5
    <3>7. Rng!Holds(p, p.start)
      BY <1>1, <2>1, <3>6 DEF Rng!Holds, Rng!NoEnd
    <3>8. QED
      BY <2>6, <3>3, <3>7 DEF Rng!Shared
  <2>7. QED
    BY <2>5, <2>6
<1>4. \A g \in seen : ~Rng!Shared(f, g)
  <2>1. SUFFICES ASSUME NEW g \in seen, Rng!Shared(f, g) PROVE FALSE
    OBVIOUS
  <2>2. f.start <= g.start /\ f.source = "ghidra" /\ g.source = "pdata" /\ g \in fs /\ Before(g, f)
    BY <1>2, <2>1
  <2>3. g.start = f.start /\ f # g
    BY <1>1, <2>2 DEF Before
  <2>4. QED
    BY <2>2, <2>3 DEF Apart
<1>5. ASSUME p.start # f.start, p.end # -1, f.end # -1, f.start < p.end
      PROVE  Rng!Shared(p, f)
  <2>1. p \in fs /\ Before(p, f) /\ p # f
    BY <1>5
  <2>2. p.start < f.start
    BY <1>1, <1>5, <2>1 DEF Before
  <2>3. Rng!Holds(p, f.start)
    BY <1>5, <2>2, <1>1, <2>1 DEF Rng!Holds, Rng!NoEnd
  <2>4. f.source = "pdata"
    BY <1>5, <2>1, <2>3 DEF Apart
  <2>5. Rng!Holds(f, f.start)
    BY <1>1, <1>5, <2>4 DEF Rng!Holds, Rng!NoEnd
  <2>6. QED
    BY <2>1, <2>3, <2>5 DEF Rng!Shared
<1>6. \A g : ~Rng!Shared(g, g)
  BY DEF Rng!Shared
<1>7. QED
  BY <1>3, <1>4, <1>5, <1>6

\* The bytes of one more range that shares none with those before it.
LEMMA BytesAdd ==
    ASSUME NEW fs, Apart(fs), NEW seen \in SUBSET fs, NEW f \in fs, \A g \in seen : Before(g, f),
           IsFiniteSet(Rng!Bytes(seen))
    PROVE  /\ IsFiniteSet(Rng!Bytes(seen \cup {f}))
           /\ (\A g \in seen : ~Rng!Shared(g, f)) =>
                 Cardinality(Rng!Bytes(seen \cup {f})) =
                     Cardinality(Rng!Bytes(seen)) + (IF f.end = -1 THEN 0 ELSE f.end - f.start)
<1> DEFINE own == f.start .. (f.end - 1)
<1>1. f.start \in Nat /\ f.end \in Nat \cup {-1} /\ (f.end # -1 => f.start <= f.end)
  BY RangeTypes
<1>2. f.end - 1 \in Int /\ f.start \in Int
  BY <1>1
<1>3. IsFiniteSet(own) /\ Cardinality(own) = IF f.start > f.end - 1 THEN 0 ELSE (f.end - 1) - f.start + 1
  BY <1>2, FS_Interval
<1>4. Cardinality(own) = IF f.end = -1 THEN 0 ELSE f.end - f.start
  BY <1>1, <1>3
<1>5. Rng!Bytes(seen \cup {f}) = Rng!Bytes(seen) \cup own
  BY DEF Rng!Bytes
<1>6. /\ IsFiniteSet(Rng!Bytes(seen) \cup own)
      /\ Cardinality(Rng!Bytes(seen) \cup own) =
           Cardinality(Rng!Bytes(seen)) + Cardinality(own) - Cardinality(Rng!Bytes(seen) \cap own)
  BY <1>3, FS_Union
<1>7. ASSUME \A g \in seen : ~Rng!Shared(g, f)
      PROVE  Rng!Bytes(seen) \cap own = {}
  <2>1. SUFFICES ASSUME NEW x \in own, NEW g \in seen, x \in g.start .. (g.end - 1) PROVE FALSE
    BY DEF Rng!Bytes
  <2>2. g \in fs /\ g.start \in Nat /\ g.end \in Nat \cup {-1} /\ Before(g, f)
    BY RangeTypes
  <2>3. g.start <= f.start /\ f.start <= x /\ x < g.end /\ x < f.end /\ x \in Int
    BY <1>1, <2>1, <2>2 DEF Before
  <2>4. Rng!Holds(g, f.start) /\ Rng!Holds(f, f.start)
    BY <1>1, <2>2, <2>3 DEF Rng!Holds, Rng!NoEnd
  <2>5. g # f
    BY <1>1, <2>2 DEF Before
  <2>6. QED
    BY <1>7, <2>4, <2>5 DEF Rng!Shared
<1>8. ASSUME \A g \in seen : ~Rng!Shared(g, f)
      PROVE  Cardinality(Rng!Bytes(seen) \cup own) = Cardinality(Rng!Bytes(seen)) + Cardinality(own)
  <2>1. Cardinality(Rng!Bytes(seen)) \in Nat /\ Cardinality(own) \in Nat
    BY <1>3, FS_CardinalityType
  <2>2. Cardinality(Rng!Bytes(seen) \cap own) = 0
    BY <1>7, <1>8, FS_EmptySet
  <2>3. QED
    BY <1>6, <2>1, <2>2
<1>9. QED
  BY <1>4, <1>5, <1>6, <1>8

\* One function looked at.
LEMMA ValidateKeeps ==
    ASSUME image \in Images, RangesInv, Rng!Validate
    PROVE  Reporting(functions, left', report')
<1>1. PICK f \in left :
        /\ \A g \in left : Rng!Earlier(<<f.start, f.end>>, <<g.start, g.end>>)
        /\ left' = left \ {f}
        /\ report' = [problems |-> report.problems \cup Rng!ProblemsOf(f, report.previous),
                      covered_bytes |-> report.covered_bytes + (IF f.end = -1 THEN 0 ELSE f.end - f.start),
                      previous |-> {f}]
  BY DEF Rng!Validate, Rng!NoEnd
<1>2. Apart(functions) /\ Reporting(functions, left, report)
  BY DEF RangesInv, Rng!Validate
<1> DEFINE seen == functions \ left
<1>3. left \subseteq functions /\ f \in functions /\ (\A g \in seen, h \in left : Before(g, h)) /\ Reports(seen, report)
  BY <1>1, <1>2 DEF Reporting
<1>4. \A g \in functions : /\ g.start \in Nat /\ g.end \in Nat \cup {-1}
                           /\ g.end # -1 => g.start <= g.end
  BY <1>2, RangeTypes
<1>5. functions \ left' = seen \cup {f} /\ left' \subseteq functions
  BY <1>1, <1>3
<1>6. \A g \in left' : Before(f, g)
  <2>1. TAKE g \in left'
  <2>2. g \in left /\ g \in functions /\ g # f
    BY <1>1, <1>3
  <2>3. Rng!Earlier(<<f.start, f.end>>, <<g.start, g.end>>)
    BY <1>1, <2>2
  <2>4. f.start # g.start \/ f.end # g.end
    BY <1>2, <1>3, <2>2, OneRange
  <2>5. QED
    BY <1>3, <1>4, <2>2, <2>3, <2>4 DEF Rng!Earlier, Before
<1>7. \A g \in seen \cup {f}, h \in left' : Before(g, h)
  BY <1>1, <1>3, <1>6
<1>8. \A g \in seen : Before(g, f)
  BY <1>1, <1>3
<1>9. "overlap" \in Rng!ProblemsOf(f, report.previous) <=>
        \E g \in report.previous : g.start # f.start /\ g.end # -1 /\ f.end # -1 /\ f.start < g.end
  BY DEF Rng!ProblemsOf, Rng!NoEnd
<1>10. "overlap" \in report'.problems <=> \E g, h \in seen \cup {f} : Rng!Shared(g, h)
  <2>1. "overlap" \in report'.problems <=>
          "overlap" \in report.problems \/ "overlap" \in Rng!ProblemsOf(f, report.previous)
    BY <1>1
  <2>2. "overlap" \in report.problems <=> \E g, h \in seen : Rng!Shared(g, h)
    BY <1>3 DEF Reports
  <2>3. CASE seen = {}
    <3>1. report.previous = {}
      BY <1>3, <2>3 DEF Reports
    <3>2. ~Rng!Shared(f, f)
      BY DEF Rng!Shared
    <3>3. QED
      BY <1>9, <2>1, <2>2, <2>3, <3>1, <3>2
  <2>4. CASE seen # {}
    <3>1. PICK p \in seen : report.previous = {p} /\ \A g \in seen : g = p \/ Before(g, p)
      BY <1>3, <2>4 DEF Reports
    <3>2. (\E g, h \in seen \cup {f} : Rng!Shared(g, h)) <=>
             \/ \E g, h \in seen : Rng!Shared(g, h)
             \/ p.start # f.start /\ p.end # -1 /\ f.end # -1 /\ f.start < p.end
      <4>1. seen \in SUBSET functions
        OBVIOUS
      <4> HIDE DEF seen
      <4>2. Apart(functions) /\ f \in functions
        BY <1>2, <1>3
      <4>3. /\ \A g \in seen : Before(g, f)
            /\ p \in seen /\ \A g \in seen : g = p \/ Before(g, p)
        BY <1>8, <3>1
      <4>4. QED
        BY <4>1, <4>2, <4>3, NextShares
    <3>3. "overlap" \in Rng!ProblemsOf(f, report.previous) <=>
            p.start # f.start /\ p.end # -1 /\ f.end # -1 /\ f.start < p.end
      BY <1>9, <3>1
    <3>4. QED
      BY <2>1, <2>2, <3>2, <3>3
  <2>5. QED
    BY <2>3, <2>4
<1>11. /\ IsFiniteSet(Rng!Bytes(seen \cup {f}))
       /\ (\A g \in seen : ~Rng!Shared(g, f)) =>
            Cardinality(Rng!Bytes(seen \cup {f})) =
                Cardinality(Rng!Bytes(seen)) + (IF f.end = -1 THEN 0 ELSE f.end - f.start)
  BY <1>2, <1>3, <1>8, BytesAdd DEF Reports
<1>12. report'.covered_bytes = report.covered_bytes + (IF f.end = -1 THEN 0 ELSE f.end - f.start)
       /\ report'.covered_bytes \in Nat
  BY <1>1, <1>3, <1>4 DEF Reports
<1>13. "overlap" \notin report'.problems => report'.covered_bytes = Cardinality(Rng!Bytes(seen \cup {f}))
  <2>1. HAVE "overlap" \notin report'.problems
  <2>2. \A g \in seen : ~Rng!Shared(g, f)
    BY <1>10, <2>1
  <2>3. "overlap" \notin report.problems
    BY <1>1, <2>1
  <2>4. report.covered_bytes = Cardinality(Rng!Bytes(seen))
    BY <1>3, <2>3 DEF Reports
  <2>5. QED
    BY <1>11, <1>12, <2>2, <2>4
<1>14. report'.previous = {f} /\ \A g \in seen \cup {f} : g = f \/ Before(g, f)
  BY <1>1, <1>8
<1>15. Reports(seen \cup {f}, report')
  BY <1>10, <1>11, <1>12, <1>13, <1>14 DEF Reports
<1>16. QED
  BY <1>5, <1>7, <1>15 DEF Reporting

\* Every pass keeps the invariant.
LEMMA RangesStep == ASSUME RangesInv, Rng!RangesNext PROVE RangesInv'
<1>1. image \in Images
  BY DEF RangesInv
<1>2. CASE Rng!merge_unwind_regions
  <2>1. Merging(image.regions, joined', left')
    BY <1>1, <1>2, MergeKeeps
  <2>2. QED
    BY <1>2, <2>1 DEF Rng!merge_unwind_regions, RangesInv
<1>3. CASE Rng!Pdata
  <2>1. Apart(functions') /\ RegionsFound(image, functions') /\ Bounding(image, functions', left')
    BY <1>1, <1>3, PdataKeeps
  <2>2. QED
    BY <1>3, <2>1 DEF Rng!Pdata, RangesInv
<1>4. CASE Rng!Bounds
  <2>1. Apart(functions') /\ RegionsFound(image, functions') /\ Bounding(image, functions', left')
    BY <1>1, <1>4, BoundsKeeps
  <2>2. QED
    BY <1>4, <2>1 DEF Rng!Bounds, RangesInv
<1>5. CASE Rng!Exports
  <2>1. Apart(functions') /\ RegionsFound(image, functions') /\ ExportsFound(image, functions')
    BY <1>1, <1>5, ExportsKeeps
  <2>2. QED
    BY <1>5, <2>1 DEF Rng!Exports, RangesInv
<1>6. CASE Rng!Entry
  <2>1. /\ Apart(functions') /\ RegionsFound(image, functions') /\ ExportsFound(image, functions')
        /\ EntryFound(image, functions') /\ Reporting(functions', left', report')
    BY <1>1, <1>6, EntryKeeps
  <2>2. QED
    BY <1>6, <2>1 DEF Rng!Entry, RangesInv
<1>7. CASE Rng!Validate
  <2>1. Reporting(functions, left', report')
    BY <1>1, <1>7, ValidateKeeps
  <2>2. QED
    BY <1>7, <2>1 DEF Rng!Validate, RangesInv
<1>8. QED
  BY <1>2, <1>3, <1>4, <1>5, <1>6, <1>7 DEF Rng!RangesNext

\* What the invariant says of the finished report.
LEMMA RangesAgree == ASSUME RangesInv PROVE Rng!RangesHold
<1>1. SUFFICES ASSUME pass = "report", left = {}
      PROVE /\ \A r \in image.regions : r.begin < r.end => \E f \in functions : f.start = r.of /\ Rng!Holds(f, r.end - 1)
            /\ \A e \in (image.exports \cap image.code) \cup ({image.entry} \ {0}) :
                  Rng!at_start(functions, e) \/ Rng!covered_by(functions, e)
            /\ \A f, g \in functions : Rng!Shared(f, g) => f.source = "ghidra" /\ g.source = "pdata"
            /\ (\E f, g \in functions : Rng!Shared(f, g)) <=> "overlap" \in report.problems
            /\ "overlap" \notin report.problems => report.covered_bytes = Cardinality(Rng!Bytes(functions))
  BY DEF Rng!RangesHold, Rng!Cardinality, Cardinality
<1>2. /\ Apart(functions) /\ RegionsFound(image, functions) /\ ExportsFound(image, functions) /\ EntryFound(image, functions)
      /\ Reports(functions \ {}, report)
  BY <1>1 DEF RangesInv, Reporting
<1>3. functions \ {} = functions
  OBVIOUS
<1>4. \A f, g \in functions : Rng!Shared(f, g) => f.source = "ghidra" /\ g.source = "pdata"
  <2>1. SUFFICES ASSUME NEW f \in functions, NEW g \in functions, Rng!Shared(f, g)
                 PROVE  f.source = "ghidra" /\ g.source = "pdata"
    OBVIOUS
  <2>2. f # g /\ Rng!Holds(f, g.start) /\ g.start < g.end
    BY <2>1 DEF Rng!Shared, Rng!Holds
  <2>3. g.start \in Nat /\ g.end \in Nat \cup {-1}
    BY <1>2, RangeTypes
  <2>4. QED
    BY <1>2, <2>2, <2>3 DEF Apart
<1>5. QED
  BY <1>2, <1>3, <1>4 DEF Reports, ExportsFound, EntryFound, RegionsFound, StartFound

\* Function ranges do not share bytes unseen: for every set of disjoint unwind
\* regions, whatever the analyser's bounds, the exports and the entry point
\* (functions.py:99-101, 126-128, 200-207).
THEOREM RangesHoldAlways == BenchSpec => []RangesHold
<1> DEFINE BenchInv == bench = "ranges" => RangesInv
<1>1. BenchInit => BenchInv
  BY RangesStart DEF BenchInit
<1>2. BenchInv /\ [BenchNext]_<<bench, lfvars, dcvars, rcvars, argvars, rgvars, f16vars, nmvars>> => BenchInv'
  <2>1. SUFFICES ASSUME RangesInv, bench = "ranges", Rng!RangesNext \/ UNCHANGED rgvars
                 PROVE  RangesInv'
    BY DEF BenchNext
  <2>2. CASE UNCHANGED rgvars
    BY <2>1, <2>2 DEF rgvars, RangesInv
  <2>3. QED
    BY <2>1, <2>2, RangesStep
<1>3. BenchInv => RangesHold
  BY RangesAgree DEF RangesHold
<1>4. QED
  BY <1>1, <1>2, <1>3, PTL DEF BenchSpec

----------------------------------------------------------------------------
(* Names of symbols, for every donor, target, MAP and table.  The invariant  *)
(* says of the signatures, the names ported and the names resolved whose     *)
(* they are, and of the merged table that an identifier is a name's own, or  *)
(* that lengthened by its address: two of the latter differ in the address   *)
(* they end in, so one of a pair that is shared is a name's own and ends in  *)
(* the address of the other.                                                 *)
\* The lines of a MAP that donate the opening bytes b.
Donating(w, b) ==
    {l \in {w.map.lines[k] : k \in DOMAIN w.map.lines} :
        /\ Nam!Listed(w.map, l) /\ Nam!Placed(w.donor, l.va)
        /\ Nam!Symbol(l).is_func /\ w.lib \in {Nam!None, Nam!Symbol(l).lib}
        /\ Nam!Opening(w.donor, l.va) = b}

\* The bytes that stand for a name, the names they give, and those of a MAP.
SigsTrue(w, sg) ==
    \A b \in DOMAIN sg : sg[b] \in DOMAIN Idents /\ \A l \in Donating(w, b) : l.name = sg[b]
PortedTrue(w, nm) ==
    \A a \in DOMAIN nm :
       /\ \A l \in Donating(w, Nam!Opening(w.target, a)) : l.name = nm[a]
       /\ \/ w.target.functions[a] = nm[a]
          \/ \A u \in Nam!_load_candidates(w.target) :
                w.target.functions[u] = nm[a] => Nam!Opening(w.target, u) # Nam!Opening(w.target, a)
ResolvedTrue(w, nm) == \A a \in DOMAIN nm : Nam!Placed(w.donor, a)
KnownBuild(w) == Nam!check_identity(w.map, w.donor) \/ (w.mode = "resolve" /\ w.force)

\* An identifier is that of a name, or that with its address.
Shaped(m) ==
    \A a \in DOMAIN m : /\ m[a].raw \in DOMAIN Idents
                        /\ m[a].name \in {Idents[m[a].raw], Nam!Suffixed(Idents[m[a].raw], a)}
Spelt(m, a, c) == /\ m[a].raw \in DOMAIN Idents
                  /\ m[a].name = Idents[m[a].raw]
                  /\ m[a].name.tail # <<>> /\ Nam!Last(m[a].name.tail) = c
Unique(m) == \A a, c \in DOMAIN m : m[a].name = m[c].name => a = c \/ Spelt(m, a, c) \/ Spelt(m, c, a)
BestKept(table, m, as) == \A a \in as : Idents[table[a]] # Nam!Nothing => a \in DOMAIN m /\ m[a].raw = table[a]
OtherKept(w, nm, m, as) ==
    \A a \in as : Idents[w.other[a]] # Nam!Nothing => a \in DOMAIN m /\ (a \notin DOMAIN nm => m[a].raw = w.other[a])
Naming(w, nm, m, td, st) ==
    /\ \A a \in DOMAIN nm : nm[a] \in DOMAIN Idents
    /\ Unique(m)
    /\ st # "done" => Shaped(m)
    /\ BestKept(nm, m, IF st = "merge" THEN DOMAIN nm \ td ELSE DOMAIN nm)
    /\ st = "merge" => td \subseteq DOMAIN nm /\ DOMAIN m \subseteq DOMAIN nm \ td
    /\ st = "other" => td \subseteq DOMAIN w.other /\ DOMAIN m \subseteq DOMAIN nm \cup (DOMAIN w.other \ td)
                       /\ OtherKept(w, nm, m, DOMAIN w.other \ td)
    /\ st = "done" => OtherKept(w, nm, m, DOMAIN w.other) /\ w.files \subseteq DOMAIN m

NamesInv ==
    /\ world \in Nam!Ports \cup Nam!Resolves
    /\ step \in {"read", "place", "resolve", "port", "apply", "refused", "merge", "other", "done"}
    /\ step = "place" => syms = Nam!parse_map(world.map)
    /\ step \in {"resolve", "port"} => /\ syms = Nam!drop_unplaced(Nam!parse_map(world.map), world.donor)
                                       /\ world.mode = step
    /\ step = "apply" => SigsTrue(world, sigs) /\ world.mode = "port"
    /\ step \notin {"read", "refused"} => KnownBuild(world)
    /\ IF step \in {"merge", "other", "done"}
       THEN /\ Naming(world, named, merged, todo, step)
            /\ world.mode = "port" => PortedTrue(world, named)
            /\ world.mode = "resolve" => ResolvedTrue(world, named)
       ELSE named = Nam!NoNames /\ merged = Nam!NoNames

\* Nothing is named at the start.
LEMMA NamesStart == ASSUME Nam!NamesInit PROVE NamesInv
  BY DEF Nam!NamesInit, NamesInv

\* The lines that donate bytes, named by the world alone.
LEMMA DonatedIs == ASSUME NEW b PROVE Nam!Donated(b) = Donating(world, b)
  BY DEF Nam!Donated, Donating, Nam!Trusted, Nam!Range

\* The largest of some positions of a sequence is one of them.
LEMMA LastOne ==
    ASSUME NEW n \in Nat, NEW ks \in SUBSET (1 .. n), ks # {}
    PROVE  Nam!Max(ks) \in ks
<1> DEFINE T == {n - k : k \in ks}
<1>1. T \in SUBSET Nat /\ T # {}
  <2>1. \A k \in ks : k \in Nat /\ n - k \in Nat
    OBVIOUS
  <2>2. PICK k \in ks : TRUE
    OBVIOUS
  <2>3. n - k \in T
    BY <2>2
  <2>4. QED
    BY <2>1, <2>3
<1>2. IsWellFoundedOn(OpToRel(<, Nat), Nat)
  BY NatLessThanWellFounded
<1>3. PICK x \in T : \A y \in T : ~(<<y, x>> \in OpToRel(<, Nat))
  BY <1>1, <1>2, WFMin
<1>4. \A y \in T : ~(y < x)
  BY <1>1, <1>3 DEF OpToRel
<1>5. PICK k \in ks : x = n - k
  BY <1>3
<1>6. \A j \in ks : k >= j
  <2>1. TAKE j \in ks
  <2>2. n - j \in T /\ j \in Int /\ k \in Int
    OBVIOUS
  <2>3. ~(n - j < n - k)
    BY <1>4, <1>5, <2>2
  <2>4. QED
    BY <2>2, <2>3
<1>7. QED
  BY <1>5, <1>6 DEF Nam!Max

\* The symbols placed: each is a line's, and every line listed and placed is one.
SymbolsOf(map, exe, ss) ==
    /\ DOMAIN ss = {k \in DOMAIN map.lines : Nam!Listed(map, map.lines[k]) /\ Nam!Placed(exe, map.lines[k].va)}
    /\ \A k \in DOMAIN ss : ss[k] = Nam!Symbol(map.lines[k]) /\ ss[k].va = map.lines[k].va
    /\ \A k \in DOMAIN ss : ss[k].name = map.lines[k].name /\ ss[k].name \in DOMAIN Idents
    /\ DOMAIN map.lines = 1 .. Len(map.lines) /\ Len(map.lines) \in Nat

\* The symbols are those of the lines of the MAP that are placed.
LEMMA SymbolsAre ==
    ASSUME NEW map \in Maps \cup DonorMaps, NEW exe
    PROVE  SymbolsOf(map, exe, Nam!drop_unplaced(Nam!parse_map(map), exe))
<1> DEFINE ss == Nam!drop_unplaced(Nam!parse_map(map), exe)
<1> DEFINE pm == Nam!parse_map(map)
<1>1. map.lines \in Seq(Nam!Line)
  BY NamesAssumption DEF Nam!NamesAssumption
<1>2. DOMAIN map.lines = 1 .. Len(map.lines) /\ Len(map.lines) \in Nat
      /\ \A k \in DOMAIN map.lines : map.lines[k].name \in DOMAIN Idents
  <2> DEFINE lines == map.lines
  <2>1. lines \in Seq(Nam!Line)
    BY <1>1
  <2> HIDE DEF lines
  <2>2. DOMAIN lines = 1 .. Len(lines) /\ Len(lines) \in Nat /\ \A k \in DOMAIN lines : lines[k] \in Nam!Line
    BY <2>1
  <2>3. \A l \in Nam!Line : l.name \in DOMAIN Idents
    BY DEF Nam!Line
  <2>4. QED
    BY <2>2, <2>3 DEF lines
<1>3. DOMAIN pm = {k \in DOMAIN map.lines : Nam!Listed(map, map.lines[k])}
      /\ \A k \in DOMAIN pm : pm[k] = Nam!Symbol(map.lines[k])
  BY DEF Nam!parse_map
<1>4. \A l : Nam!Symbol(l).va = l.va /\ Nam!Symbol(l).name = l.name
  BY DEF Nam!Symbol
<1> HIDE DEF pm
<1>5. DOMAIN ss = {k \in DOMAIN pm : Nam!Placed(exe, pm[k].va)} /\ \A k \in DOMAIN ss : ss[k] = pm[k]
  BY DEF Nam!drop_unplaced, Nam!Restrict, pm
<1> HIDE DEF ss
<1>6. SymbolsOf(map, exe, ss)
  BY <1>2, <1>3, <1>4, <1>5 DEF SymbolsOf
<1>7. QED
  BY <1>6 DEF ss

\* What a run is given.
LEMMA WorldIs ==
    ASSUME world \in Nam!Ports \cup Nam!Resolves
    PROVE  /\ world.map \in Maps \cup DonorMaps
           /\ world.mode \in {"port", "resolve"}
           /\ world.other \in Tables
           /\ \A a \in DOMAIN world.other : world.other[a] \in DOMAIN Idents
  BY NamesAssumption DEF Nam!Ports, Nam!Resolves, Nam!NamesAssumption

\* A signature is what every donor of its bytes is called.
LEMMA SignaturesTrue ==
    ASSUME NamesInv, step = "port"
    PROVE  SigsTrue(world, Nam!signatures(syms, world.donor))
<1> DEFINE sg == Nam!signatures(syms, world.donor)
           lines == world.map.lines
<1>1. syms = Nam!drop_unplaced(Nam!parse_map(world.map), world.donor) /\ world.map \in Maps \cup DonorMaps
  BY WorldIs DEF NamesInv
<1>2. SymbolsOf(world.map, world.donor, syms)
  BY <1>1, SymbolsAre
<1>3. ASSUME NEW b \in DOMAIN sg
      PROVE  sg[b] \in DOMAIN Idents /\ \A l \in Donating(world, b) : l.name = sg[b]
  <2> DEFINE cl == Nam!Claims(syms, world.donor, b)
  <2>1. b \in Nam!Openings(syms, world.donor) /\ (\A n, m \in cl : n = m) /\ sg[b] = CHOOSE n \in cl : TRUE
    BY <1>3 DEF Nam!signatures
  <2>2. cl = {syms[k].name : k \in {j \in DOMAIN syms : Nam!Trusted(syms[j]) /\ Nam!Opening(world.donor, syms[j].va) = b}}
    BY DEF Nam!Claims, Nam!Range
  <2>3. PICK k \in DOMAIN syms : Nam!Trusted(syms[k]) /\ Nam!Opening(world.donor, syms[k].va) = b
    BY <2>1 DEF Nam!Openings, Nam!Range
  <2>4. syms[k].name \in cl
    BY <2>2, <2>3
  <2>5. sg[b] \in cl
    BY <2>1, <2>4
  <2>6. cl \subseteq DOMAIN Idents
    BY <1>2, <2>2 DEF SymbolsOf
  <2>7. \A l \in Donating(world, b) : l.name \in cl
    <3>1. TAKE l \in Donating(world, b)
    <3>2. PICK j \in DOMAIN lines : l = lines[j]
      BY DEF Donating
    <3>3. j \in DOMAIN syms /\ Nam!Trusted(syms[j]) /\ Nam!Opening(world.donor, syms[j].va) = b
      BY <1>2, <3>2 DEF Donating, Nam!Trusted, SymbolsOf
    <3>4. QED
      BY <1>2, <2>2, <3>2, <3>3 DEF SymbolsOf
  <2>8. QED
    BY <2>1, <2>5, <2>6, <2>7
<1>4. QED
  BY <1>3 DEF SigsTrue

\* What is ported.
LEMMA AppliedTrue ==
    ASSUME NEW w, NEW sg, SigsTrue(w, sg), NEW nm, nm = Nam!apply_signatures(w.target, sg)
    PROVE  PortedTrue(w, nm) /\ \A a \in DOMAIN nm : nm[a] \in DOMAIN Idents
<1> DEFINE t == w.target
<1>1. ASSUME NEW a \in DOMAIN nm
      PROVE  /\ a \in Nam!_load_candidates(t) /\ Nam!Opening(t, a) \in DOMAIN sg
             /\ Nam!Hits(t, Nam!Opening(t, a)) = {a} /\ nm[a] = sg[Nam!Opening(t, a)]
  BY <1>1 DEF Nam!apply_signatures
<1>2. ASSUME NEW a \in DOMAIN nm, NEW u \in Nam!_load_candidates(t), Nam!Opening(t, u) = Nam!Opening(t, a)
      PROVE  u = a
  BY <1>1, <1>2 DEF Nam!Hits
<1>3. QED
  BY <1>1, <1>2 DEF PortedTrue, SigsTrue

\* What resolve names is placed.
LEMMA ResolveTrue ==
    ASSUME NamesInv, step = "resolve", NEW nm, nm = Nam!resolve(syms)
    PROVE  ResolvedTrue(world, nm) /\ \A a \in DOMAIN nm : nm[a] \in DOMAIN Idents
<1> DEFINE lines == world.map.lines
<1>1. syms = Nam!drop_unplaced(Nam!parse_map(world.map), world.donor) /\ world.map \in Maps \cup DonorMaps
  BY WorldIs DEF NamesInv
<1>2. SymbolsOf(world.map, world.donor, syms)
  BY <1>1, SymbolsAre
<1>3. ASSUME NEW a \in DOMAIN nm
      PROVE  Nam!Placed(world.donor, a) /\ nm[a] \in DOMAIN Idents
  <2> DEFINE ks == {k \in DOMAIN syms : syms[k].va = a}
  <2>1. nm[a] = syms[Nam!Max(ks)].name /\ ks # {}
    BY <1>3 DEF Nam!resolve, Nam!Range
  <2>2. ks \in SUBSET (1 .. Len(lines)) /\ Len(lines) \in Nat
    BY <1>2 DEF SymbolsOf
  <2>3. Nam!Max(ks) \in ks
    <3> HIDE DEF ks
    <3>1. QED
      BY <2>1, <2>2, LastOne
  <2>4. QED
    BY <1>2, <2>1, <2>3 DEF SymbolsOf
<1>4. QED
  BY <1>3 DEF ResolvedTrue

\* An identifier lengthened by an address ends in it.
LEMMA EndsInAddress ==
    ASSUME NEW n \in DOMAIN Idents, NEW c
    PROVE  LET t == Nam!Suffixed(Idents[n], c).tail IN t # <<>> /\ Nam!Last(t) = c
<1>1. Idents[n] \in [word : STRING, tail : Seq(Int)]
  BY NamesAssumption DEF Nam!NamesAssumption
<1>2. PICK S : S = Int \cup {c}
  OBVIOUS
<1>3. PICK s \in Seq(S) : s = Idents[n].tail
  <2>1. Idents[n].tail \in Seq(Int)
    BY <1>1
  <2>2. Idents[n].tail \in Seq(Int \cup {c})
    BY <2>1
  <2>3. QED
    BY <1>2, <2>2
<1>4. c \in S
  BY <1>2
<1>5. PICK t : t = Append(s, c)
  OBVIOUS
<1>6. Nam!Suffixed(Idents[n], c).tail = t
  BY <1>1, <1>3, <1>5 DEF Nam!Suffixed
<1>7. Len(t) = Len(s) + 1 /\ t[Len(s) + 1] = c /\ Len(s) \in Nat /\ t \in Seq(S)
  BY <1>4, <1>5, AppendProperties, LenProperties
<1>8. t # <<>>
  BY <1>7, EmptySeq
<1>9. Nam!Last(t) = c
  BY <1>7 DEF Nam!Last
<1>10. QED
  BY <1>6, <1>8, <1>9

\* One address merged, when nothing has it yet: a name that was there is the
\* one the new identifier is lengthened to only where it ends in the address.
LEMMA ChosenKeeps ==
    ASSUME Shaped(merged), Unique(merged), NEW a, a \notin DOMAIN merged,
           NEW raw \in DOMAIN Idents,
           NEW ident, ident = IF Idents[raw] \in Nam!Taken THEN Nam!Suffixed(Idents[raw], a) ELSE Idents[raw],
           NEW m, m = Nam!Chosen(a, ident, raw)
    PROVE  Shaped(m) /\ Unique(m)
<1>1. m = [c \in DOMAIN merged \cup {a} |-> IF c = a THEN [name |-> ident, raw |-> raw] ELSE merged[c]]
  BY DEF Nam!Chosen
<1>2. DOMAIN m = DOMAIN merged \cup {a} /\ m[a].name = ident /\ m[a].raw = raw
      /\ \A c \in DOMAIN merged : m[c] = merged[c]
  BY <1>1
<1>3. ident \in {Idents[raw], Nam!Suffixed(Idents[raw], a)}
  OBVIOUS
<1>4. Shaped(m)
  BY <1>2, <1>3 DEF Shaped
<1>5. ASSUME NEW c \in DOMAIN merged, merged[c].name = ident
      PROVE  Spelt(m, c, a)
  <2>1. merged[c].name \in Nam!Taken
    BY DEF Nam!Taken
  <2>2. ident = Nam!Suffixed(Idents[raw], a)
    BY <1>5, <2>1
  <2>3. ident.tail # <<>> /\ Nam!Last(ident.tail) = a
    BY <2>2, EndsInAddress
  <2>4. PICK n \in DOMAIN Idents : n = merged[c].raw /\ merged[c].name \in {Idents[n], Nam!Suffixed(Idents[n], c)}
    BY DEF Shaped
  <2>5. Nam!Last(Nam!Suffixed(Idents[n], c).tail) = c
    BY EndsInAddress
  <2>6. c # a
    OBVIOUS
  <2>7. merged[c].name # Nam!Suffixed(Idents[n], c)
    BY <1>5, <2>3, <2>5, <2>6
  <2>8. merged[c].name = Idents[n]
    BY <2>4, <2>7
  <2>9. QED
    BY <1>2, <1>5, <2>3, <2>4, <2>8 DEF Spelt
<1>6. ASSUME NEW c \in DOMAIN m, NEW d \in DOMAIN m, m[c].name = m[d].name
      PROVE  c = d \/ Spelt(m, c, d) \/ Spelt(m, d, c)
  <2>1. CASE c \in DOMAIN merged /\ d \in DOMAIN merged
    <3>1. c = d \/ Spelt(merged, c, d) \/ Spelt(merged, d, c)
      BY <1>2, <1>6, <2>1 DEF Unique
    <3>2. QED
      BY <1>2, <2>1, <3>1 DEF Spelt
  <2>2. CASE c = a /\ d \in DOMAIN merged
    BY <1>2, <1>5, <1>6, <2>2
  <2>3. CASE d = a /\ c \in DOMAIN merged
    BY <1>2, <1>5, <1>6, <2>3
  <2>4. QED
    BY <1>2, <1>6, <2>1, <2>2, <2>3
<1>7. QED
  BY <1>4, <1>6 DEF Unique

\* One address of a source taken or passed by.
LEMMA ClaimGives ==
    ASSUME Shaped(merged), Unique(merged), NEW table, \A a \in DOMAIN table : table[a] \in DOMAIN Idents,
           todo \subseteq DOMAIN table, Nam!Claim(table)
    PROVE  \E a \in todo :
              /\ todo' = todo \ {a}
              /\ Shaped(merged') /\ Unique(merged')
              /\ \A c \in DOMAIN merged : c \in DOMAIN merged' /\ merged'[c] = merged[c]
              /\ DOMAIN merged' \subseteq DOMAIN merged \cup {a}
              /\ Idents[table[a]] # Nam!Nothing => a \in DOMAIN merged'
              /\ Idents[table[a]] # Nam!Nothing /\ a \notin DOMAIN merged => merged'[a].raw = table[a]
<1>1. PICK a \in todo :
        /\ todo' = todo \ {a}
        /\ \/ /\ a \in DOMAIN merged \/ Idents[table[a]] = Nam!Nothing
              /\ merged' = merged
           \/ /\ a \notin DOMAIN merged /\ Idents[table[a]] # Nam!Nothing
              /\ merged' = Nam!Chosen(a, IF Idents[table[a]] \in Nam!Taken THEN Nam!Suffixed(Idents[table[a]], a)
                                         ELSE Idents[table[a]], table[a])
  BY DEF Nam!Claim
<1>2. CASE (a \in DOMAIN merged \/ Idents[table[a]] = Nam!Nothing) /\ merged' = merged
  BY <1>1, <1>2
<1>3. CASE a \notin DOMAIN merged /\ Idents[table[a]] # Nam!Nothing
  <2>1. PICK raw : raw = table[a]
    OBVIOUS
  <2>2. PICK m : m = merged'
    OBVIOUS
  <2>3. raw \in DOMAIN Idents
    BY <1>1, <1>3, <2>1
  <2>4. PICK ident : ident = IF Idents[raw] \in Nam!Taken THEN Nam!Suffixed(Idents[raw], a) ELSE Idents[raw]
    OBVIOUS
  <2>5. m = Nam!Chosen(a, ident, raw)
    BY <1>1, <1>3, <2>1, <2>2, <2>4
  <2>6. Shaped(m) /\ Unique(m)
    <3>1. Shaped(merged) /\ Unique(merged) /\ a \notin DOMAIN merged
      BY <1>3
    <3>2. QED
      BY <2>3, <2>4, <2>5, <3>1, ChosenKeeps
  <2>7. /\ DOMAIN m = DOMAIN merged \cup {a} /\ m[a].raw = raw
        /\ \A c \in DOMAIN merged : m[c] = merged[c]
    BY <1>3, <2>5 DEF Nam!Chosen
  <2>8. QED
    BY <1>1, <1>3, <2>1, <2>2, <2>6, <2>7
<1>4. QED
  BY <1>1, <1>2, <1>3

\* A name of the best source is claimed.
LEMMA MergeKeepsNames ==
    ASSUME NamesInv, Nam!Merge
    PROVE  Naming(world, named, merged', todo', "merge")
<1>1. Naming(world, named, merged, todo, "merge") /\ Nam!Claim(named)
  BY DEF NamesInv, Nam!Merge
<1>2. /\ Shaped(merged) /\ Unique(merged) /\ \A a \in DOMAIN named : named[a] \in DOMAIN Idents
      /\ todo \subseteq DOMAIN named /\ DOMAIN merged \subseteq DOMAIN named \ todo
      /\ BestKept(named, merged, DOMAIN named \ todo)
  BY <1>1 DEF Naming
<1>3. PICK a \in todo :
              /\ todo' = todo \ {a}
              /\ Shaped(merged') /\ Unique(merged')
              /\ \A c \in DOMAIN merged : c \in DOMAIN merged' /\ merged'[c] = merged[c]
              /\ DOMAIN merged' \subseteq DOMAIN merged \cup {a}
              /\ Idents[named[a]] # Nam!Nothing => a \in DOMAIN merged'
              /\ Idents[named[a]] # Nam!Nothing /\ a \notin DOMAIN merged => merged'[a].raw = named[a]
  BY <1>1, <1>2, ClaimGives
<1>4. BestKept(named, merged', DOMAIN named \ todo')
  BY <1>2, <1>3 DEF BestKept
<1>5. todo' \subseteq DOMAIN named /\ DOMAIN merged' \subseteq DOMAIN named \ todo'
  BY <1>2, <1>3
<1>6. QED
  BY <1>2, <1>3, <1>4, <1>5 DEF Naming

\* A name of the other source is claimed.
LEMMA OtherKeepsNames ==
    ASSUME NamesInv, Nam!MergeOther
    PROVE  Naming(world, named, merged', todo', "other")
<1>1. Naming(world, named, merged, todo, "other") /\ Nam!Claim(world.other)
  BY DEF NamesInv, Nam!MergeOther
<1>2. /\ Shaped(merged) /\ Unique(merged) /\ \A a \in DOMAIN named : named[a] \in DOMAIN Idents
      /\ todo \subseteq DOMAIN world.other /\ DOMAIN merged \subseteq DOMAIN named \cup (DOMAIN world.other \ todo)
      /\ BestKept(named, merged, DOMAIN named)
      /\ OtherKept(world, named, merged, DOMAIN world.other \ todo)
  BY <1>1 DEF Naming
<1>3. \A a \in DOMAIN world.other : world.other[a] \in DOMAIN Idents
  BY WorldIs DEF NamesInv
<1>4. PICK a \in todo :
              /\ todo' = todo \ {a}
              /\ Shaped(merged') /\ Unique(merged')
              /\ \A c \in DOMAIN merged : c \in DOMAIN merged' /\ merged'[c] = merged[c]
              /\ DOMAIN merged' \subseteq DOMAIN merged \cup {a}
              /\ Idents[world.other[a]] # Nam!Nothing => a \in DOMAIN merged'
              /\ Idents[world.other[a]] # Nam!Nothing /\ a \notin DOMAIN merged => merged'[a].raw = world.other[a]
  BY <1>1, <1>2, <1>3, ClaimGives
<1>5. BestKept(named, merged', DOMAIN named)
  BY <1>2, <1>4 DEF BestKept
<1>6. OtherKept(world, named, merged', DOMAIN world.other \ todo')
  BY <1>2, <1>4 DEF OtherKept
<1>7. todo' \subseteq DOMAIN world.other /\ DOMAIN merged' \subseteq DOMAIN named \cup (DOMAIN world.other \ todo')
  BY <1>2, <1>4
<1>8. QED
  BY <1>2, <1>4, <1>5, <1>6, <1>7 DEF Naming

\* The other source follows the best.
LEMMA NextSourceKeeps ==
    ASSUME NamesInv, Nam!NextSource
    PROVE  Naming(world, named, merged', todo', "other")
<1>1. Naming(world, named, merged, {}, "merge") /\ todo' = DOMAIN world.other /\ merged' = merged
  BY DEF NamesInv, Nam!NextSource
<1>2. DOMAIN named \ {} = DOMAIN named /\ DOMAIN world.other \ todo' = {}
  BY <1>1
<1>3. OtherKept(world, named, merged', DOMAIN world.other \ todo')
  BY <1>2 DEF OtherKept
<1>4. QED
  BY <1>1, <1>2, <1>3 DEF Naming

\* An unnamed function's identifier ends in its address.
LEMMA SubTail ==
    ASSUME NEW c PROVE Nam!Unnamed(c).tail = <<c>>
BY DEF Nam!Unnamed

\* The functions with a file are kept.
LEMMA FilesKeep ==
    ASSUME NamesInv, Nam!KeepFiles
    PROVE  Naming(world, named, merged', todo', "done")
<1>1. Naming(world, named, merged, {}, "other")
      /\ merged' = [a \in DOMAIN merged \cup world.files |->
                             IF a \in DOMAIN merged THEN merged[a] ELSE [name |-> Nam!Unnamed(a), raw |-> Nam!None]]
  BY DEF NamesInv, Nam!KeepFiles
<1>2. PICK m : m = merged'
  OBVIOUS
<1>3. /\ DOMAIN m = DOMAIN merged \cup world.files
      /\ \A a \in DOMAIN merged : m[a] = merged[a]
      /\ \A a \in DOMAIN m \ DOMAIN merged : m[a].name = Nam!Unnamed(a)
  BY <1>1, <1>2
<1>4. DOMAIN world.other \ {} = DOMAIN world.other
  OBVIOUS
<1>5. /\ Shaped(merged) /\ Unique(merged) /\ \A a \in DOMAIN named : named[a] \in DOMAIN Idents
      /\ BestKept(named, merged, DOMAIN named)
      /\ OtherKept(world, named, merged, DOMAIN world.other)
  BY <1>1, <1>4 DEF Naming
<1>6. BestKept(named, m, DOMAIN named) /\ OtherKept(world, named, m, DOMAIN world.other)
  BY <1>3, <1>5 DEF BestKept, OtherKept
<1>7. ASSUME NEW a \in DOMAIN merged, NEW c \in DOMAIN m \ DOMAIN merged, m[a].name = m[c].name
      PROVE  Spelt(m, a, c)
  <2>1. PICK n \in DOMAIN Idents : n = merged[a].raw /\ merged[a].name \in {Idents[n], Nam!Suffixed(Idents[n], a)}
    BY <1>5 DEF Shaped
  <2>2. m[a] = merged[a] /\ m[a].name.tail = <<c>>
    <3>1. m[a] = merged[a] /\ m[a].name = Nam!Unnamed(c)
      BY <1>3, <1>7
    <3>2. QED
      BY <3>1, SubTail
  <2>3. PICK t : t = <<c>>
    OBVIOUS
  <2>4. t # <<>> /\ Nam!Last(t) = c
    BY <2>3 DEF Nam!Last
  <2>5. m[a].name.tail # <<>> /\ Nam!Last(m[a].name.tail) = c
    BY <2>2, <2>3, <2>4
  <2>6. Nam!Last(Nam!Suffixed(Idents[n], a).tail) = a
    BY EndsInAddress
  <2>7. a # c
    OBVIOUS
  <2>8. m[a].name # Nam!Suffixed(Idents[n], a)
    BY <2>5, <2>6, <2>7
  <2>9. QED
    BY <2>1, <2>2, <2>5, <2>8 DEF Spelt
<1>8. ASSUME NEW a \in DOMAIN m \ DOMAIN merged, NEW c \in DOMAIN m \ DOMAIN merged, m[a].name = m[c].name
      PROVE  a = c
  <2>1. m[a].name.tail = <<a>> /\ m[c].name.tail = <<c>>
    <3>1. m[a].name = Nam!Unnamed(a) /\ m[c].name = Nam!Unnamed(c)
      BY <1>3
    <3>2. QED
      BY <3>1, SubTail
  <2>2. <<a>> = <<c>>
    BY <1>8, <2>1
  <2>3. QED
    BY <2>2
<1>9. Unique(m)
  <2>1. SUFFICES ASSUME NEW a \in DOMAIN m, NEW c \in DOMAIN m, m[a].name = m[c].name
                 PROVE  a = c \/ Spelt(m, a, c) \/ Spelt(m, c, a)
    BY DEF Unique
  <2>2. CASE a \in DOMAIN merged /\ c \in DOMAIN merged
    <3>1. a = c \/ Spelt(merged, a, c) \/ Spelt(merged, c, a)
      BY <1>3, <1>5, <2>1, <2>2 DEF Unique
    <3>2. QED
      BY <1>3, <2>2, <3>1 DEF Spelt
  <2>3. CASE a \in DOMAIN merged /\ c \notin DOMAIN merged
    BY <1>7, <2>1, <2>3
  <2>4. CASE a \notin DOMAIN merged /\ c \in DOMAIN merged
    BY <1>7, <2>1, <2>4
  <2>5. CASE a \notin DOMAIN merged /\ c \notin DOMAIN merged
    BY <1>8, <2>1, <2>5
  <2>6. QED
    BY <2>2, <2>3, <2>4, <2>5
<1>10. Naming(world, named, m, todo', "done")
  BY <1>3, <1>5, <1>6, <1>9 DEF Naming
<1>11. QED
  BY <1>2, <1>10

\* A source of names read, before any is merged.
LEMMA MergeStarts ==
    ASSUME NEW w, NEW nm, \A a \in DOMAIN nm : nm[a] \in DOMAIN Idents
    PROVE  Naming(w, nm, Nam!NoNames, DOMAIN nm, "merge")
<1>1. DOMAIN Nam!NoNames = {} /\ DOMAIN nm \ DOMAIN nm = {}
  BY DEF Nam!NoNames
<1>2. QED
  BY <1>1 DEF Naming, Shaped, Unique, BestKept

\* Every step keeps the invariant.
LEMMA NamesStep == ASSUME NamesInv, Nam!NamesNext PROVE NamesInv'
<1>1. world \in Nam!Ports \cup Nam!Resolves /\ world.mode \in {"port", "resolve"}
  BY WorldIs DEF NamesInv
<1>2. CASE Nam!ReadMap
  BY <1>1, <1>2 DEF Nam!ReadMap, NamesInv, KnownBuild
<1>3. CASE Nam!Place
  BY <1>1, <1>3 DEF Nam!Place, NamesInv
<1>4. CASE Nam!Resolve
  <2>1. PICK nm : nm = Nam!resolve(syms)
    OBVIOUS
  <2>2. named' = nm /\ todo' = DOMAIN nm /\ step = "resolve" /\ step' = "merge" /\ world' = world /\ merged' = Nam!NoNames
    BY <1>4, <2>1 DEF Nam!Resolve, NamesInv
  <2>3. ResolvedTrue(world, nm) /\ \A a \in DOMAIN nm : nm[a] \in DOMAIN Idents
    BY <2>1, <2>2, ResolveTrue
  <2>4. Naming(world, nm, Nam!NoNames, DOMAIN nm, "merge")
    BY <2>3, MergeStarts
  <2>5. KnownBuild(world) /\ world.mode = "resolve"
    BY <2>2 DEF NamesInv
  <2>6. QED
    BY <1>1, <2>2, <2>3, <2>4, <2>5 DEF NamesInv
<1>5. CASE Nam!Port
  <2>1. PICK sg : sg = Nam!signatures(syms, world.donor)
    OBVIOUS
  <2>2. sigs' = sg /\ step = "port" /\ step' \in {"refused", "apply"} /\ world' = world /\ merged' = merged /\ named' = named
    BY <1>5, <2>1 DEF Nam!Port
  <2>3. SigsTrue(world, sg)
    BY <2>1, <2>2, SignaturesTrue
  <2>4. KnownBuild(world) /\ world.mode = "port" /\ named = Nam!NoNames /\ merged = Nam!NoNames
    BY <2>2 DEF NamesInv
  <2>5. QED
    BY <1>1, <2>2, <2>3, <2>4 DEF NamesInv
<1>6. CASE Nam!Apply
  <2>1. PICK nm : nm = Nam!apply_signatures(world.target, sigs)
    OBVIOUS
  <2>2. named' = nm /\ todo' = DOMAIN nm /\ step = "apply" /\ step' = "merge" /\ world' = world /\ merged' = Nam!NoNames
    BY <1>6, <2>1 DEF Nam!Apply, NamesInv
  <2>3. SigsTrue(world, sigs) /\ world.mode = "port" /\ KnownBuild(world)
    BY <2>2 DEF NamesInv
  <2>4. PortedTrue(world, nm) /\ \A a \in DOMAIN nm : nm[a] \in DOMAIN Idents
    BY <2>1, <2>3, AppliedTrue
  <2>5. Naming(world, nm, Nam!NoNames, DOMAIN nm, "merge")
    BY <2>4, MergeStarts
  <2>6. QED
    BY <1>1, <2>2, <2>3, <2>4, <2>5 DEF NamesInv
<1>7. ASSUME step \in {"merge", "other"}, world' = world, named' = named, step' \in {"merge", "other", "done"},
             Naming(world, named, merged', todo', step')
      PROVE  NamesInv'
  <2>1. KnownBuild(world) /\ (world.mode = "port" => PortedTrue(world, named))
        /\ (world.mode = "resolve" => ResolvedTrue(world, named))
    BY <1>7 DEF NamesInv
  <2>2. QED
    BY <1>1, <1>7, <2>1 DEF NamesInv
<1>8. CASE Nam!Merge
  <2>1. step = "merge" /\ step' = "merge" /\ world' = world /\ named' = named
    BY <1>8 DEF Nam!Merge, Nam!Claim
  <2>2. QED
    BY <1>7, <1>8, <2>1, MergeKeepsNames
<1>9. CASE Nam!MergeOther
  <2>1. step = "other" /\ step' = "other" /\ world' = world /\ named' = named
    BY <1>9 DEF Nam!MergeOther, Nam!Claim
  <2>2. QED
    BY <1>7, <1>9, <2>1, OtherKeepsNames
<1>10. CASE Nam!NextSource
  <2>1. step = "merge" /\ step' = "other" /\ world' = world /\ named' = named
    BY <1>10 DEF Nam!NextSource
  <2>2. QED
    BY <1>7, <1>10, <2>1, NextSourceKeeps
<1>11. CASE Nam!KeepFiles
  <2>1. step = "other" /\ step' = "done" /\ world' = world /\ named' = named
    BY <1>11 DEF Nam!KeepFiles
  <2>2. QED
    BY <1>7, <1>11, <2>1, FilesKeep
<1>12. QED
  BY <1>2, <1>3, <1>4, <1>5, <1>6, <1>8, <1>9, <1>10, <1>11 DEF Nam!NamesNext

\* What the invariant says of the names.
LEMMA NamesAgree == ASSUME NamesInv PROVE Nam!NamesTrue
<1>1. DOMAIN Nam!NoNames = {}
  BY DEF Nam!NoNames
<1>2. ASSUME world.mode = "port", NEW a \in DOMAIN named
      PROVE  /\ \A l \in Nam!Donated(Nam!Opening(world.target, a)) : l.name = named[a]
             /\ \/ world.target.functions[a] = named[a]
                \/ \A u \in Nam!_load_candidates(world.target) :
                      world.target.functions[u] = named[a] => Nam!Opening(world.target, u) # Nam!Opening(world.target, a)
  <2>1. PortedTrue(world, named)
    BY <1>1, <1>2 DEF NamesInv
  <2>2. Nam!Donated(Nam!Opening(world.target, a)) = Donating(world, Nam!Opening(world.target, a))
    BY DonatedIs
  <2>3. QED
    BY <1>2, <2>1, <2>2 DEF PortedTrue
<1>3. ~Nam!check_identity(world.map, world.donor) /\ ~(world.mode = "resolve" /\ world.force) => named = Nam!NoNames
  BY DEF NamesInv, KnownBuild
<1>4. world.mode = "resolve" => \A a \in DOMAIN named : Nam!Placed(world.donor, a)
  BY <1>1 DEF NamesInv, ResolvedTrue
<1>5. ASSUME step = "done"
      PROVE  /\ \A a, c \in DOMAIN merged :
                   merged[a].name = merged[c].name => a = c \/ Nam!EndsIn(a, c) \/ Nam!EndsIn(c, a)
             /\ \A a \in DOMAIN named : Idents[named[a]] # Nam!Nothing => merged[a].raw = named[a]
             /\ \A a \in DOMAIN world.other : Idents[world.other[a]] # Nam!Nothing =>
                   a \in DOMAIN merged /\ (a \notin DOMAIN named => merged[a].raw = world.other[a])
             /\ world.files \subseteq DOMAIN merged
  <2>1. Naming(world, named, merged, todo, "done")
    BY <1>5 DEF NamesInv
  <2>2. QED
    BY <2>1 DEF Naming, Unique, Spelt, Nam!EndsIn, BestKept, OtherKept
<1>6. QED
  BY <1>2, <1>3, <1>4, <1>5 DEF Nam!NamesTrue

\* A name is never another function's, and two addresses share an identifier
\* only where the name of one ends in the address of the other: for every MAP,
\* donor and target, every other source of names and whatever identifiers they
\* become (map_names.py:212-217, merge_names.py:118-133).
THEOREM NamesTrueAlways == BenchSpec => []NamesTrue
<1> DEFINE BenchInv == bench = "names" => NamesInv
<1>1. BenchInit => BenchInv
  BY NamesStart DEF BenchInit
<1>2. BenchInv /\ [BenchNext]_<<bench, lfvars, dcvars, rcvars, argvars, rgvars, f16vars, nmvars>> => BenchInv'
  <2>1. SUFFICES ASSUME NamesInv, bench = "names", Nam!NamesNext \/ UNCHANGED nmvars
                 PROVE  NamesInv'
    BY DEF BenchNext
  <2>2. CASE UNCHANGED nmvars
    BY <2>1, <2>2 DEF nmvars, NamesInv
  <2>3. QED
    BY <2>1, <2>2, NamesStep
<1>3. BenchInv => NamesTrue
  BY NamesAgree DEF NamesTrue
<1>4. QED
  BY <1>1, <1>2, <1>3, PTL DEF BenchSpec
==============================================================================
