--------------------------- MODULE Crossing_proof ---------------------------
(* Theorems about the hybrid boundary, for any threads, frame and arena      *)
(* sizes, nesting and order of calls, returns, exceptions and thread ends.   *)
EXTENDS RuntimeBench, SequenceTheorems, TLAPS

Crossings == [kind : {"lifted", "real"}, saved : Int]

\* Among any consecutive crossings, of a kind there is a first and a last one.
\* It is an invariant here because it would take an induction to prove.
Ends(s, k, i, m) ==
  (\E h \in i + 1 .. m : s[h].kind = k) =>
    /\ \E h \in i + 1 .. m : s[h].kind = k /\ \A j \in i + 1 .. h - 1 : s[j].kind # k
    /\ \E h \in i + 1 .. m : s[h].kind = k /\ \A j \in h + 1 .. m : s[j].kind # k
Ordered(s) ==
  \A k \in {"lifted", "real"} : \A i \in 0 .. Len(s) : \A m \in i .. Len(s) : Ends(s, k, i, m)

\* The memory of the frames in s is committed in a.
Committed(s, a) ==
  /\ a.low <= Arena
  /\ \A i \in 1 .. Len(s) : s[i].kind = "lifted" => a.low <= s[i].saved - Frame

\* What holds of a thread in the crossings s with the arena a, and with the
\* slot x.
Framed(s, a) ==
  /\ Ordered(s)
  /\ FramesFollow(s)
  /\ a # NoArena =>
       /\ a.top = FrameTop(s)
       /\ 0 <= a.low /\ a.low <= a.top
       /\ a.at \in Regions
       /\ Committed(s, a)
  /\ a = NoArena => \A i \in 1 .. Len(s) : s[i].kind # "lifted"
Nests(s, x, tn, ls) ==
  ~tn => ~ls /\ SlotsFollow(s) /\ x = SlotOwner(s)

Apart ==
  /\ \A t, u \in Threads : arena[t].at = arena[u].at /\ arena[t] # NoArena => t = u
  /\ space = {arena[t].at : t \in {u \in Threads : arena[u] # NoArena}}

IInv ==
  /\ CrossingTypeOK
  /\ \A t \in Threads : Framed(calls[t], arena[t])
  /\ \A t \in Threads : Nests(calls[t], tib[t], torn[t], lost[t])
  /\ Apart

----------------------------------------------------------------------------
\* Prefixes and extensions of a sequence of crossings.
LEMMA Prefix ==
  ASSUME NEW s \in Seq(Crossings), NEW i \in 0 .. Len(s)
  PROVE  /\ SubSeq(s, 1, i) \in Seq(Crossings)
         /\ Len(SubSeq(s, 1, i)) = i
         /\ \A j \in 1 .. i : SubSeq(s, 1, i)[j] = s[j]
<1>1. Len(s) \in Nat
  OBVIOUS
<1>2. \A j \in 1 .. i : s[j] \in Crossings
  BY <1>1, ElementOfSeq
<1> QED
  BY <1>1, <1>2, SubSeqProperties

LEMMA PrefixOfPrefix ==
  ASSUME NEW s \in Seq(Crossings), NEW m \in 0 .. Len(s), NEW i \in 0 .. m
  PROVE  SubSeq(SubSeq(s, 1, m), 1, i) = SubSeq(s, 1, i)
<1>1. Len(s) \in Nat
  OBVIOUS
<1>2. /\ SubSeq(s, 1, m) \in Seq(Crossings) /\ Len(SubSeq(s, 1, m)) = m
      /\ \A j \in 1 .. m : SubSeq(s, 1, m)[j] = s[j]
  BY Prefix
<1>3. /\ SubSeq(SubSeq(s, 1, m), 1, i) \in Seq(Crossings)
      /\ Len(SubSeq(SubSeq(s, 1, m), 1, i)) = i
      /\ \A j \in 1 .. i : SubSeq(SubSeq(s, 1, m), 1, i)[j] = SubSeq(s, 1, m)[j]
  BY <1>2, Prefix
<1>4. i \in 0 .. Len(s)
  BY <1>1
<1>5. /\ SubSeq(s, 1, i) \in Seq(Crossings) /\ Len(SubSeq(s, 1, i)) = i
      /\ \A j \in 1 .. i : SubSeq(s, 1, i)[j] = s[j]
  BY <1>4, Prefix
<1> QED
  BY <1>1, <1>2, <1>3, <1>5, SeqEqual

LEMMA Extended ==
  ASSUME NEW s \in Seq(Crossings), NEW e \in Crossings
  PROVE  /\ Append(s, e) \in Seq(Crossings)
         /\ Len(s) \in Nat /\ Len(Append(s, e)) = Len(s) + 1
         /\ \A i \in 1 .. Len(s) : Append(s, e)[i] = s[i]
         /\ Append(s, e)[Len(s) + 1] = e
  BY AppendProperties

LEMMA PrefixOfExtended ==
  ASSUME NEW s \in Seq(Crossings), NEW e \in Crossings, NEW i \in 0 .. Len(s)
  PROVE  SubSeq(Append(s, e), 1, i) = SubSeq(s, 1, i)
<1>1. /\ Append(s, e) \in Seq(Crossings)
      /\ Len(s) \in Nat /\ Len(Append(s, e)) = Len(s) + 1
      /\ \A j \in 1 .. Len(s) : Append(s, e)[j] = s[j]
  BY Extended
<1>2. i \in 0 .. Len(Append(s, e))
  BY <1>1
<1>3. /\ SubSeq(Append(s, e), 1, i) \in Seq(Crossings)
      /\ Len(SubSeq(Append(s, e), 1, i)) = i
      /\ \A j \in 1 .. i : SubSeq(Append(s, e), 1, i)[j] = Append(s, e)[j]
  BY <1>1, <1>2, Prefix
<1>4. /\ SubSeq(s, 1, i) \in Seq(Crossings) /\ Len(SubSeq(s, 1, i)) = i
      /\ \A j \in 1 .. i : SubSeq(s, 1, i)[j] = s[j]
  BY Prefix
<1> QED
  BY <1>1, <1>3, <1>4, SeqEqual

----------------------------------------------------------------------------
\* Which crossing is the innermost one of a kind.
LEMMA InmostIs ==
  ASSUME NEW s \in Seq(Crossings), NEW k, NEW l \in 1 .. Len(s), s[l].kind = k,
         \A h \in l + 1 .. Len(s) : s[h].kind # k
  PROVE  Inmost(s, k) = l
<1>1. Len(s) \in Nat
  OBVIOUS
<1>2. \A x \in 1 .. Len(s) :
        s[x].kind = k /\ (\A h \in x + 1 .. Len(s) : s[h].kind # k) => x = l
  BY <1>1
<1>3. \E i \in 1 .. Len(s) : s[i].kind = k
  OBVIOUS
<1> HIDE DEF Crossings
<1>4. (CHOOSE i \in 1 .. Len(s) : s[i].kind = k /\ \A h \in i + 1 .. Len(s) : s[h].kind # k) = l
  BY <1>2
<1> QED
  BY <1>3, <1>4 DEF Inmost

LEMMA InmostNone ==
  ASSUME NEW s, NEW k, \A i \in 1 .. Len(s) : s[i].kind # k
  PROVE  Inmost(s, k) = 0
  BY DEF Inmost

LEMMA InmostSome ==
  ASSUME NEW s \in Seq(Crossings), Ordered(s), NEW k \in {"lifted", "real"},
         \E i \in 1 .. Len(s) : s[i].kind = k
  PROVE  /\ Inmost(s, k) \in 1 .. Len(s)
         /\ s[Inmost(s, k)].kind = k
         /\ \A h \in Inmost(s, k) + 1 .. Len(s) : s[h].kind # k
<1>1. Len(s) \in Nat
  OBVIOUS
<1>2. PICK l \in 0 + 1 .. Len(s) : s[l].kind = k /\ \A h \in l + 1 .. Len(s) : s[h].kind # k
  <2>1. 0 \in 0 .. Len(s) /\ Len(s) \in 0 .. Len(s)
    BY <1>1
  <2>2. Ends(s, k, 0, Len(s))
    BY <2>1, Zenon DEF Ordered
  <2> QED
    BY <1>1, <2>2 DEF Ends
<1>3. Inmost(s, k) = l
  BY <1>1, <1>2, InmostIs
<1> QED
  BY <1>1, <1>2, <1>3

LEMMA InmostExtended ==
  ASSUME NEW s \in Seq(Crossings), Ordered(s), NEW e \in Crossings, NEW k \in {"lifted", "real"}
  PROVE  Inmost(Append(s, e), k) = IF e.kind = k THEN Len(s) + 1 ELSE Inmost(s, k)
<1>1. /\ Append(s, e) \in Seq(Crossings)
      /\ Len(s) \in Nat /\ Len(Append(s, e)) = Len(s) + 1
      /\ \A i \in 1 .. Len(s) : Append(s, e)[i] = s[i]
      /\ Append(s, e)[Len(s) + 1] = e
  BY Extended
<1>2. CASE e.kind = k
  <2>1. Len(s) + 1 \in 1 .. Len(Append(s, e))
    BY <1>1
  <2>2. \A h \in Len(s) + 1 + 1 .. Len(Append(s, e)) : Append(s, e)[h].kind # k
    BY <1>1
  <2> QED
    BY <1>1, <1>2, <2>1, <2>2, InmostIs
<1>3. CASE e.kind # k /\ \E i \in 1 .. Len(s) : s[i].kind = k
  <2>1. /\ Inmost(s, k) \in 1 .. Len(s)
        /\ s[Inmost(s, k)].kind = k
        /\ \A h \in Inmost(s, k) + 1 .. Len(s) : s[h].kind # k
    BY <1>3, InmostSome
  <2> DEFINE l == Inmost(s, k)
  <2> HIDE DEF l
  <2>2. l \in 1 .. Len(Append(s, e)) /\ Append(s, e)[l].kind = k
    BY <1>1, <2>1 DEF l
  <2>3. \A h \in l + 1 .. Len(Append(s, e)) : Append(s, e)[h].kind # k
    <3> TAKE h \in l + 1 .. Len(Append(s, e))
    <3>1. CASE h = Len(s) + 1
      BY <1>1, <1>3, <3>1
    <3>2. CASE h # Len(s) + 1
      <4>1. h \in l + 1 .. Len(s) /\ h \in 1 .. Len(s)
        BY <1>1, <2>1, <3>2 DEF l
      <4> QED
        BY <1>1, <2>1, <4>1 DEF l
    <3> QED
      BY <3>1, <3>2
  <2>4. Inmost(Append(s, e), k) = l
    BY <1>1, <2>2, <2>3, InmostIs
  <2> QED
    BY <1>3, <2>4 DEF l
<1>4. CASE e.kind # k /\ ~ \E i \in 1 .. Len(s) : s[i].kind = k
  <2>1. \A i \in 1 .. Len(Append(s, e)) : Append(s, e)[i].kind # k
    <3> TAKE i \in 1 .. Len(Append(s, e))
    <3>1. i \in 1 .. Len(s) \/ i = Len(s) + 1
      BY <1>1
    <3> QED
      BY <1>1, <1>4, <3>1
  <2> QED
    BY <1>4, <2>1, InmostNone
<1> QED
  BY <1>2, <1>3, <1>4

\* Leaving crossings of other kinds changes nothing.
LEMMA InmostPrefix ==
  ASSUME NEW s \in Seq(Crossings), Ordered(s), NEW i \in 0 .. Len(s), NEW k \in {"lifted", "real"},
         \A h \in i + 1 .. Len(s) : s[h].kind # k
  PROVE  Inmost(SubSeq(s, 1, i), k) = Inmost(s, k)
<1>1. Len(s) \in Nat
  OBVIOUS
<1>2. /\ SubSeq(s, 1, i) \in Seq(Crossings) /\ Len(SubSeq(s, 1, i)) = i
      /\ \A j \in 1 .. i : SubSeq(s, 1, i)[j] = s[j]
  BY Prefix
<1>3. CASE \E h \in 1 .. Len(s) : s[h].kind = k
  <2>1. /\ Inmost(s, k) \in 1 .. Len(s)
        /\ s[Inmost(s, k)].kind = k
        /\ \A h \in Inmost(s, k) + 1 .. Len(s) : s[h].kind # k
    BY <1>3, InmostSome
  <2> DEFINE l == Inmost(s, k)
  <2> HIDE DEF l
  <2>2. l \in 1 .. i
    BY <1>1, <2>1 DEF l
  <2>3. /\ l \in 1 .. Len(SubSeq(s, 1, i)) /\ SubSeq(s, 1, i)[l].kind = k
        /\ \A h \in l + 1 .. Len(SubSeq(s, 1, i)) : SubSeq(s, 1, i)[h].kind # k
    BY <1>1, <1>2, <2>1, <2>2 DEF l
  <2> QED
    BY <1>2, <2>3, InmostIs DEF l
<1>4. CASE ~ \E h \in 1 .. Len(s) : s[h].kind = k
  <2>1. \A h \in 1 .. Len(SubSeq(s, 1, i)) : SubSeq(s, 1, i)[h].kind # k
    BY <1>1, <1>2, <1>4
  <2> QED
    BY <1>4, <2>1, InmostNone
<1> QED
  BY <1>3, <1>4

----------------------------------------------------------------------------
\* What is first and last does not depend on the crossings outside.
LEMMA EndsAgree ==
  ASSUME NEW s, NEW r, NEW k, NEW i \in Nat, NEW m \in Nat,
         \A h \in i + 1 .. m : r[h] = s[h], Ends(s, k, i, m)
  PROVE  Ends(r, k, i, m)
<1>1. SUFFICES ASSUME NEW g \in i + 1 .. m, r[g].kind = k
               PROVE  /\ \E h \in i + 1 .. m : r[h].kind = k /\ \A j \in i + 1 .. h - 1 : r[j].kind # k
                      /\ \E h \in i + 1 .. m : r[h].kind = k /\ \A j \in h + 1 .. m : r[j].kind # k
  BY Zenon DEF Ends
<1>2. \E h \in i + 1 .. m : s[h].kind = k
  BY <1>1
<1>3. PICK a \in i + 1 .. m : s[a].kind = k /\ \A j \in i + 1 .. a - 1 : s[j].kind # k
  BY <1>2, Zenon DEF Ends
<1>4. PICK b \in i + 1 .. m : s[b].kind = k /\ \A j \in b + 1 .. m : s[j].kind # k
  BY <1>2, Zenon DEF Ends
<1>5. (\A j \in i + 1 .. a - 1 : j \in i + 1 .. m) /\ (\A j \in b + 1 .. m : j \in i + 1 .. m)
  OBVIOUS
<1>6. r[a].kind = k /\ \A j \in i + 1 .. a - 1 : r[j].kind # k
  BY <1>3, <1>5, Zenon
<1>7. r[b].kind = k /\ \A j \in b + 1 .. m : r[j].kind # k
  BY <1>4, <1>5, Zenon
<1> QED
  BY <1>6, <1>7, Zenon

\* A crossing entered, and crossings left.
LEMMA OrderedExtended ==
  ASSUME NEW s \in Seq(Crossings), Ordered(s), NEW e \in Crossings
  PROVE  Ordered(Append(s, e))
<1> DEFINE r == Append(s, e)
           n == Len(s)
<1>1. /\ n \in Nat /\ Len(r) = n + 1
      /\ \A i \in 1 .. n : r[i] = s[i]
      /\ r[n + 1] = e
  BY Extended
<1> HIDE DEF r, n
<1>2. SUFFICES ASSUME NEW k \in {"lifted", "real"}, NEW i \in 0 .. n + 1, NEW m \in i .. n + 1
               PROVE  Ends(r, k, i, m)
  BY <1>1, Zenon DEF Ordered, r
<1>3. CASE m # n + 1
  <2>1. i \in 0 .. n /\ m \in i .. n
    BY <1>1, <1>3
  <2>2. Ends(s, k, i, m)
    BY <2>1, Zenon DEF Ordered, n
  <2>3. \A h \in i + 1 .. m : r[h] = s[h]
    BY <1>1, <2>1
  <2>4. i \in Nat /\ m \in Nat
    BY <1>1
  <2> QED
    BY <2>2, <2>3, <2>4, EndsAgree
<1>4. CASE m = n + 1 /\ ~ \E h \in i + 1 .. n : s[h].kind = k
  <2>1. \A h \in i + 1 .. m : r[h].kind = k => h = n + 1
    BY <1>1, <1>4
  <2>2. \A j \in i + 1 .. n : r[j].kind # k
    BY <1>1, <1>4
  <2>3. \A h \in i + 1 .. m : r[h].kind = k =>
          /\ \A j \in i + 1 .. h - 1 : r[j].kind # k
          /\ \A j \in h + 1 .. m : r[j].kind # k
    BY <1>1, <1>4, <2>1, <2>2
  <2> QED
    BY <2>3 DEF Ends
<1>5. CASE m = n + 1 /\ \E h \in i + 1 .. n : s[h].kind = k
  <2>1. i \in 0 .. n /\ n \in i .. n
    BY <1>1, <1>5
  <2>2. Ends(s, k, i, n)
    BY <2>1, Zenon DEF Ordered, n
  <2>3. PICK a \in i + 1 .. n : s[a].kind = k /\ \A j \in i + 1 .. a - 1 : s[j].kind # k
    BY <1>5, <2>2 DEF Ends
  <2>4. PICK b \in i + 1 .. n : s[b].kind = k /\ \A j \in b + 1 .. n : s[j].kind # k
    BY <1>5, <2>2 DEF Ends
  <2>5. a \in i + 1 .. m /\ r[a].kind = k /\ \A j \in i + 1 .. a - 1 : r[j].kind # k
    BY <1>1, <1>5, <2>1, <2>3
  <2>6. \E h \in i + 1 .. m : r[h].kind = k /\ \A j \in h + 1 .. m : r[j].kind # k
    <3>1. CASE e.kind = k
      <4>1. n + 1 \in i + 1 .. m /\ r[n + 1].kind = k /\ \A j \in n + 1 + 1 .. m : r[j].kind # k
        BY <1>1, <1>5, <2>1, <3>1
      <4> QED
        BY <4>1
    <3>2. CASE e.kind # k
      <4>1. b \in i + 1 .. m /\ r[b].kind = k /\ \A j \in b + 1 .. m : r[j].kind # k
        BY <1>1, <1>5, <2>1, <2>4, <3>2
      <4> QED
        BY <4>1
    <3> QED
      BY <3>1, <3>2
  <2> QED
    BY <2>5, <2>6 DEF Ends
<1> QED
  BY <1>3, <1>4, <1>5

LEMMA OrderedPrefix ==
  ASSUME NEW s \in Seq(Crossings), Ordered(s), NEW p \in 0 .. Len(s)
  PROVE  Ordered(SubSeq(s, 1, p))
<1> DEFINE r == SubSeq(s, 1, p)
<1>1. Len(s) \in Nat /\ Len(r) = p /\ \A j \in 1 .. p : r[j] = s[j]
  BY Prefix
<1> HIDE DEF r
<1>2. SUFFICES ASSUME NEW k \in {"lifted", "real"}, NEW i \in 0 .. p, NEW m \in i .. p
               PROVE  Ends(r, k, i, m)
  BY <1>1, Zenon DEF Ordered, r
<1>3. i \in 0 .. Len(s) /\ m \in i .. Len(s)
  BY <1>1
<1>4. Ends(s, k, i, m)
  BY <1>3, Zenon DEF Ordered
<1>5. \A h \in i + 1 .. m : r[h] = s[h]
  BY <1>1
<1>6. i \in Nat /\ m \in Nat
  BY <1>1
<1> QED
  BY <1>4, <1>5, <1>6, EndsAgree

LEMMA TopExtended ==
  ASSUME NEW s \in Seq(Crossings), Ordered(s), NEW e \in Crossings
  PROVE  /\ FrameTop(Append(s, e)) = IF e.kind = "lifted" THEN e.saved - Frame ELSE FrameTop(s)
         /\ SlotOwner(Append(s, e)) = IF e.kind = "real" THEN Len(s) + 1 ELSE SlotOwner(s)
<1>1. /\ Len(s) \in Nat
      /\ \A i \in 1 .. Len(s) : Append(s, e)[i] = s[i]
      /\ Append(s, e)[Len(s) + 1] = e
  BY Extended
<1>2. /\ Inmost(Append(s, e), "lifted") = IF e.kind = "lifted" THEN Len(s) + 1 ELSE Inmost(s, "lifted")
      /\ Inmost(Append(s, e), "real") = IF e.kind = "real" THEN Len(s) + 1 ELSE Inmost(s, "real")
  BY InmostExtended
<1>3. Inmost(s, "lifted") = 0 \/ Inmost(s, "lifted") \in 1 .. Len(s)
  <2>1. CASE \E i \in 1 .. Len(s) : s[i].kind = "lifted"
    BY <2>1, InmostSome
  <2>2. CASE ~ \E i \in 1 .. Len(s) : s[i].kind = "lifted"
    BY <2>2, InmostNone
  <2> QED
    BY <2>1, <2>2
<1> QED
  BY <1>1, <1>2, <1>3 DEF FrameTop, SlotOwner

LEMMA TopPrefix ==
  ASSUME NEW s \in Seq(Crossings), Ordered(s), NEW i \in 0 .. Len(s)
  PROVE  /\ (\A h \in i + 1 .. Len(s) : s[h].kind # "lifted") => FrameTop(SubSeq(s, 1, i)) = FrameTop(s)
         /\ (\A h \in i + 1 .. Len(s) : s[h].kind # "real") => SlotOwner(SubSeq(s, 1, i)) = SlotOwner(s)
<1>1. ASSUME \A h \in i + 1 .. Len(s) : s[h].kind # "lifted"
      PROVE  FrameTop(SubSeq(s, 1, i)) = FrameTop(s)
  <2>1. Inmost(SubSeq(s, 1, i), "lifted") = Inmost(s, "lifted")
    BY <1>1, InmostPrefix
  <2>2. Ordered(SubSeq(s, 1, i))
    BY OrderedPrefix
  <2>3. /\ SubSeq(s, 1, i) \in Seq(Crossings) /\ Len(SubSeq(s, 1, i)) = i
        /\ \A j \in 1 .. i : SubSeq(s, 1, i)[j] = s[j]
    BY Prefix
  <2>4. Inmost(SubSeq(s, 1, i), "lifted") = 0 \/ Inmost(SubSeq(s, 1, i), "lifted") \in 1 .. i
    <3>1. CASE \E j \in 1 .. Len(SubSeq(s, 1, i)) : SubSeq(s, 1, i)[j].kind = "lifted"
      BY <2>2, <2>3, <3>1, InmostSome
    <3>2. CASE ~ \E j \in 1 .. Len(SubSeq(s, 1, i)) : SubSeq(s, 1, i)[j].kind = "lifted"
      BY <3>2, InmostNone
    <3> QED
      BY <3>1, <3>2
  <2> DEFINE r == SubSeq(s, 1, i)
             l == Inmost(s, "lifted")
  <2>5. Inmost(r, "lifted") = l /\ (l = 0 \/ r[l] = s[l])
    BY <2>1, <2>3, <2>4
  <2> HIDE DEF r, l
  <2>6. FrameTop(r) = FrameTop(s)
    BY <2>5 DEF FrameTop, l
  <2> QED
    BY <2>6 DEF r
<1>2. (\A h \in i + 1 .. Len(s) : s[h].kind # "real") => SlotOwner(SubSeq(s, 1, i)) = SlotOwner(s)
  BY InmostPrefix DEF SlotOwner
<1> QED
  BY <1>1, <1>2

\* Each crossing that is entered keeps what the ones around it left.
LEMMA FollowExtended ==
  ASSUME NEW s \in Seq(Crossings), NEW e \in Crossings
  PROVE  /\ FramesFollow(s) /\ (e.kind = "lifted" => e.saved = FrameTop(s)) => FramesFollow(Append(s, e))
         /\ SlotsFollow(s) /\ (e.kind = "real" => e.saved = SlotOwner(s)) => SlotsFollow(Append(s, e))
<1> DEFINE r == Append(s, e)
           n == Len(s)
<1>1. /\ n \in Nat /\ Len(r) = n + 1
      /\ \A i \in 1 .. n : r[i] = s[i]
      /\ r[n + 1] = e
  BY Extended
<1>2. \A i \in 0 .. n : SubSeq(r, 1, i) = SubSeq(s, 1, i)
  BY PrefixOfExtended
<1>3. SubSeq(s, 1, n) = s
  BY SubSeqFull
<1> HIDE DEF r, n
<1>4. \A i \in 1 .. Len(r) : \/ i \in 1 .. n /\ r[i] = s[i] /\ SubSeq(r, 1, i - 1) = SubSeq(s, 1, i - 1)
                             \/ r[i] = e /\ SubSeq(r, 1, i - 1) = s
  <2> TAKE i \in 1 .. Len(r)
  <2>1. i - 1 \in 0 .. n /\ (i \in 1 .. n \/ i = n + 1) /\ n + 1 - 1 = n
    BY <1>1
  <2>2. SubSeq(r, 1, i - 1) = SubSeq(s, 1, i - 1)
    BY <1>2, <2>1
  <2>3. CASE i \in 1 .. n
    BY <1>1, <2>2, <2>3
  <2>4. CASE i = n + 1
    BY <1>1, <1>3, <2>1, <2>2, <2>4
  <2> QED
    BY <2>1, <2>3, <2>4
<1>5. ASSUME FramesFollow(s), e.kind = "lifted" => e.saved = FrameTop(s)
      PROVE  FramesFollow(r)
  BY <1>4, <1>5, Zenon DEF FramesFollow, n
<1>6. ASSUME SlotsFollow(s), e.kind = "real" => e.saved = SlotOwner(s)
      PROVE  SlotsFollow(r)
  BY <1>4, <1>6, Zenon DEF SlotsFollow, n
<1> QED
  BY <1>5, <1>6 DEF r

LEMMA FollowPrefix ==
  ASSUME NEW s \in Seq(Crossings), NEW p \in 0 .. Len(s)
  PROVE  /\ FramesFollow(s) => FramesFollow(SubSeq(s, 1, p))
         /\ SlotsFollow(s) => SlotsFollow(SubSeq(s, 1, p))
<1> DEFINE r == SubSeq(s, 1, p)
<1>1. Len(s) \in Nat /\ Len(r) = p /\ \A j \in 1 .. p : r[j] = s[j]
  BY Prefix
<1>2. \A i \in 0 .. p : SubSeq(r, 1, i) = SubSeq(s, 1, i)
  BY PrefixOfPrefix
<1> HIDE DEF r
<1>3. \A i \in 1 .. Len(r) : i \in 1 .. Len(s) /\ r[i] = s[i] /\ SubSeq(r, 1, i - 1) = SubSeq(s, 1, i - 1)
  <2> TAKE i \in 1 .. Len(r)
  <2>1. i - 1 \in 0 .. p /\ i \in 1 .. p /\ i \in 1 .. Len(s)
    BY <1>1
  <2> QED
    BY <1>1, <1>2, <2>1
<1>4. ASSUME FramesFollow(s) PROVE FramesFollow(r)
  BY <1>3, <1>4, Zenon DEF FramesFollow
<1>5. ASSUME SlotsFollow(s) PROVE SlotsFollow(r)
  BY <1>3, <1>5, Zenon DEF SlotsFollow
<1> QED
  BY <1>4, <1>5 DEF r

\* What the handlers leave is the top of the crossings that remain.
LEMMA UnwoundIs ==
  ASSUME NEW s \in Seq(Crossings), Ordered(s), FramesFollow(s), NEW i \in 0 .. Len(s)
  PROVE  Unwound(s, i + 1, FrameTop(s)) = FrameTop(SubSeq(s, 1, i))
<1>1. Len(s) \in Nat
  OBVIOUS
<1>2. CASE ~ \E j \in i + 1 .. Len(s) : s[j].kind = "lifted"
  <2>1. Unwound(s, i + 1, FrameTop(s)) = FrameTop(s)
    BY <1>2 DEF Unwound
  <2> QED
    BY <1>2, <2>1, TopPrefix
<1>3. CASE \E j \in i + 1 .. Len(s) : s[j].kind = "lifted"
  <2>1. Ends(s, "lifted", i, Len(s))
    <3>1. Len(s) \in i .. Len(s)
      BY <1>1
    <3> QED
      BY <3>1, Zenon DEF Ordered
  <2>2. PICK a \in i + 1 .. Len(s) : s[a].kind = "lifted" /\ \A h \in i + 1 .. a - 1 : s[h].kind # "lifted"
    BY <1>3, <2>1 DEF Ends
  <2>3. \A x \in i + 1 .. Len(s) :
          s[x].kind = "lifted" /\ (\A h \in i + 1 .. x - 1 : s[h].kind # "lifted") => x = a
    BY <1>1, <2>2
  <2>4. (CHOOSE j \in i + 1 .. Len(s) : /\ s[j].kind = "lifted"
                                        /\ \A h \in i + 1 .. j - 1 : s[h].kind # "lifted") = a
    BY <2>2, <2>3
  <2>5. Unwound(s, i + 1, FrameTop(s)) = s[a].saved
    BY <1>3, <2>4, Zenon DEF Unwound
  <2>6. a \in 1 .. Len(s) /\ a - 1 \in 0 .. Len(s) /\ i \in 0 .. a - 1
    BY <1>1, <2>2
  <2>7. s[a].saved = FrameTop(SubSeq(s, 1, a - 1))
    BY <2>2, <2>6 DEF FramesFollow
  <2> DEFINE r == SubSeq(s, 1, a - 1)
  <2>8. r \in Seq(Crossings) /\ Len(r) = a - 1 /\ \A j \in 1 .. a - 1 : r[j] = s[j]
    BY <2>6, Prefix
  <2>9. Ordered(r)
    BY <2>6, OrderedPrefix
  <2>10. SubSeq(r, 1, i) = SubSeq(s, 1, i)
    BY <2>6, PrefixOfPrefix
  <2> HIDE DEF r
  <2>11. \A h \in i + 1 .. Len(r) : r[h].kind # "lifted"
    BY <1>1, <2>2, <2>6, <2>8
  <2>12. FrameTop(SubSeq(r, 1, i)) = FrameTop(r)
    BY <2>6, <2>8, <2>9, <2>11, TopPrefix
  <2> QED
    BY <2>5, <2>7, <2>10, <2>12 DEF r
<1> QED
  BY <1>2, <1>3

LEMMA TopIsInt ==
  ASSUME NEW s \in Seq(Crossings), Ordered(s), NEW a \in [at : Nat, top : Int, low : Int], Committed(s, a)
  PROVE  FrameTop(s) \in Int /\ a.low <= FrameTop(s)
<1>1. CASE \E j \in 1 .. Len(s) : s[j].kind = "lifted"
  <2>1. Inmost(s, "lifted") \in 1 .. Len(s) /\ s[Inmost(s, "lifted")].kind = "lifted"
    BY <1>1, InmostSome
  <2>2. s[Inmost(s, "lifted")] \in Crossings
    BY <2>1, ElementOfSeq
  <2>3. FrameTop(s) = s[Inmost(s, "lifted")].saved - Frame
    BY <2>1 DEF FrameTop
  <2>4. a.low <= s[Inmost(s, "lifted")].saved - Frame
    BY <2>1, Zenon DEF Committed
  <2> QED
    BY <2>2, <2>3, <2>4, CrossingAssumption DEF Crossings
<1>2. CASE ~ \E j \in 1 .. Len(s) : s[j].kind = "lifted"
  <2>1. Inmost(s, "lifted") = 0
    BY <1>2, InmostNone
  <2> QED
    BY <2>1, CrossingAssumption DEF FrameTop, Committed
<1> QED
  BY <1>1, <1>2

----------------------------------------------------------------------------
\* The arena of a thread in the crossings s, when one is entered or some are
\* left.
Arenas == [at : Nat, top : Int, low : Int]

LEMMA FramedReal ==
  ASSUME NEW s \in Seq(Crossings), NEW a \in Arenas, Framed(s, a),
         NEW e \in Crossings, e.kind = "real"
  PROVE  Framed(Append(s, e), a)
<1> DEFINE r == Append(s, e)
           n == Len(s)
<1>1. n \in Nat /\ Len(r) = n + 1 /\ r[n + 1] = e /\ \A i \in 1 .. n : r[i] = s[i]
  BY Extended
<1>2. Ordered(r) /\ FramesFollow(r) /\ FrameTop(r) = FrameTop(s)
  BY OrderedExtended, FollowExtended, TopExtended DEF Framed
<1> HIDE DEF r, n
<1>3. \A i \in 1 .. Len(r) : r[i].kind = "lifted" => i \in 1 .. n /\ r[i] = s[i]
  BY <1>1
<1>4. Committed(s, a) => Committed(r, a)
  BY <1>3, Zenon DEF Committed, n
<1>5. (\A i \in 1 .. n : s[i].kind # "lifted") => \A i \in 1 .. Len(r) : r[i].kind # "lifted"
  BY <1>3
<1>6. Framed(r, a)
  BY <1>2, <1>4, <1>5, Zenon DEF Framed, n
<1> QED
  BY <1>6 DEF r

LEMMA FramedReserved ==
  ASSUME NEW s \in Seq(Crossings), Framed(s, NoArena), NEW p \in Regions
  PROVE  Framed(s, [at |-> p, top |-> Arena, low |-> Arena])
<1>1. \A i \in 1 .. Len(s) : s[i].kind # "lifted"
  BY DEF Framed
<1>2. FrameTop(s) = Arena
  BY <1>1, InmostNone DEF FrameTop
<1>3. [at |-> p, top |-> Arena, low |-> Arena] # NoArena
  BY CrossingAssumption DEF NoArena
<1>4. Committed(s, [at |-> p, top |-> Arena, low |-> Arena])
  BY <1>1, CrossingAssumption DEF Committed
<1>5. Arena \in Nat /\ Ordered(s) /\ FramesFollow(s)
  BY CrossingAssumption DEF Framed
<1> QED
  BY <1>2, <1>3, <1>4, <1>5 DEF Framed

LEMMA FramedCalled ==
  ASSUME NEW s \in Seq(Crossings), NEW a \in Arenas, Framed(s, a), a # NoArena, a.top >= Frame
  PROVE  /\ WithFrame(a) \in Arenas /\ WithFrame(a).at = a.at /\ WithFrame(a) # NoArena
         /\ Framed(Append(s, [kind |-> "lifted", saved |-> a.top]), WithFrame(a))
<1> DEFINE e == [kind |-> "lifted", saved |-> a.top]
           r == Append(s, e)
           n == Len(s)
           w == WithFrame(a)
<1>1. e \in Crossings /\ e.kind = "lifted" /\ e.saved = a.top
  BY DEF Crossings, Arenas
<1>2. n \in Nat /\ Len(r) = n + 1 /\ r[n + 1] = e /\ \A i \in 1 .. n : r[i] = s[i]
  BY <1>1, Extended
<1>3. /\ Ordered(s) /\ FramesFollow(s) /\ a.top = FrameTop(s)
      /\ 0 <= a.low /\ a.low <= a.top /\ a.at \in Regions /\ Committed(s, a)
  BY DEF Framed
<1>4. Ordered(r) /\ FramesFollow(r) /\ FrameTop(r) = a.top - Frame
  BY <1>1, <1>3, OrderedExtended, FollowExtended, TopExtended
<1>5. /\ w \in Arenas /\ w.at = a.at /\ w.top = a.top - Frame
      /\ 0 <= w.low /\ w.low <= w.top /\ w.low <= a.low
  <2>1. a.at \in Nat /\ a.top \in Int /\ a.low \in Int /\ Frame \in Nat
    BY CrossingAssumption DEF Arenas
  <2>2. w.at = a.at /\ w.top = a.top - Frame
    BY DEF WithFrame, Arenas
  <2>3. w.low = IF a.top - Frame < a.low THEN a.top - Frame ELSE a.low
    BY DEF WithFrame, Arenas
  <2>4. w \in Arenas
    <3> DEFINE l == IF a.top - Frame < a.low THEN a.top - Frame ELSE a.low
               b == [a EXCEPT !.top = a.top - Frame]
    <3>1. l \in Int /\ a.top - Frame \in Int
      BY <2>1
    <3>2. b \in Arenas
      BY <3>1 DEF Arenas
    <3>3. w = [b EXCEPT !.low = l]
      BY DEF WithFrame
    <3> HIDE DEF l, b, w
    <3> QED
      BY <3>1, <3>2, <3>3 DEF Arenas
  <2> HIDE DEF w
  <2>5. CASE a.top - Frame < a.low
    <3>1. w.low = a.top - Frame
      BY <2>3, <2>5
    <3> QED
      BY <1>3, <2>1, <2>2, <2>4, <2>5, <3>1
  <2>6. CASE ~(a.top - Frame < a.low)
    <3>1. w.low = a.low
      BY <2>3, <2>6
    <3> QED
      BY <1>3, <2>1, <2>2, <2>4, <2>6, <3>1
  <2> QED
    BY <2>5, <2>6
<1>6. w # NoArena
  BY <1>3, <1>5, CrossingAssumption DEF NoArena
<1> HIDE DEF e, r, n, w
<1>7. Committed(r, w)
  <2>1. w.low <= Arena
    BY <1>3, <1>5, CrossingAssumption DEF Committed, Arenas
  <2>2. ASSUME NEW i \in 1 .. Len(r), r[i].kind = "lifted"
        PROVE  w.low <= r[i].saved - Frame
    <3>1. CASE i \in 1 .. n
      <4>1. r[i] = s[i] /\ s[i] \in Crossings
        BY <1>2, <3>1, ElementOfSeq DEF n
      <4>2. a.low <= s[i].saved - Frame
        BY <1>3, <2>2, <3>1, <4>1 DEF Committed, n
      <4> QED
        BY <1>5, <4>1, <4>2, CrossingAssumption DEF Crossings, Arenas
    <3>2. CASE i = n + 1
      BY <1>1, <1>2, <1>5, <3>2
    <3> QED
      BY <1>2, <3>1, <3>2
  <2> QED
    BY <2>1, <2>2 DEF Committed
<1>8. Framed(r, w)
  BY <1>3, <1>4, <1>5, <1>6, <1>7 DEF Framed
<1> QED
  BY <1>5, <1>6, <1>8 DEF e, r, w

LEMMA FramedUnwound ==
  ASSUME NEW s \in Seq(Crossings), NEW a \in Arenas, Framed(s, a), NEW i \in 0 .. Len(s)
  PROVE  /\ [a EXCEPT !.top = Unwound(s, i + 1, @)] \in Arenas
         /\ [a EXCEPT !.top = Unwound(s, i + 1, @)] = NoArena <=> a = NoArena
         /\ Framed(SubSeq(s, 1, i), [a EXCEPT !.top = Unwound(s, i + 1, @)])
<1> DEFINE r == SubSeq(s, 1, i)
           b == [a EXCEPT !.top = Unwound(s, i + 1, @)]
<1>1. Len(s) \in Nat /\ r \in Seq(Crossings) /\ Len(r) = i /\ \A j \in 1 .. i : r[j] = s[j]
  BY Prefix
<1>2. Ordered(r) /\ FramesFollow(r)
  BY OrderedPrefix, FollowPrefix DEF Framed
<1>3. \A j \in 1 .. Len(r) : j \in 1 .. Len(s) /\ r[j] = s[j]
  BY <1>1
<1>4. b.at = a.at /\ b.low = a.low /\ b.top = Unwound(s, i + 1, a.top)
  BY DEF Arenas
<1>5. CASE a = NoArena
  <2>1. \A j \in 1 .. Len(s) : s[j].kind # "lifted"
    BY <1>5 DEF Framed
  <2>2. Unwound(s, i + 1, a.top) = a.top
    <3>1. \A j \in i + 1 .. Len(s) : j \in 1 .. Len(s)
      BY <1>1
    <3> QED
      BY <2>1, <3>1 DEF Unwound
  <2>3. b = NoArena
    BY <1>5, <2>2 DEF NoArena
  <2> HIDE DEF r, b
  <2>4. \A j \in 1 .. Len(r) : r[j].kind # "lifted"
    BY <1>3, <2>1
  <2>5. Framed(r, b)
    BY <1>2, <2>3, <2>4, Zenon DEF Framed
  <2> QED
    BY <1>5, <2>3, <2>5 DEF r, b
<1>6. CASE a # NoArena
  <2>1. /\ Ordered(s) /\ FramesFollow(s) /\ a.top = FrameTop(s)
        /\ 0 <= a.low /\ a.at \in Regions /\ Committed(s, a)
    BY <1>6 DEF Framed
  <2>2. b.top = FrameTop(r)
    BY <1>4, <2>1, UnwoundIs
  <2>3. Committed(r, a)
    BY <1>3, <2>1, Zenon DEF Committed, r
  <2>4. FrameTop(r) \in Int /\ a.low <= FrameTop(r)
    BY <1>1, <1>2, <2>3, TopIsInt DEF Arenas
  <2>5. b \in Arenas
    BY <2>2, <2>4 DEF Arenas
  <2>6. b # NoArena
    BY <1>4, <2>1, CrossingAssumption DEF NoArena
  <2> HIDE DEF r, b
  <2>7. Committed(r, b)
    BY <1>4, <2>3 DEF Committed
  <2>8. Framed(r, b)
    BY <1>2, <1>4, <2>1, <2>2, <2>4, <2>6, <2>7 DEF Framed
  <2> QED
    BY <1>6, <2>5, <2>6, <2>8 DEF r, b
<1> QED
  BY <1>5, <1>6

----------------------------------------------------------------------------
\* The slot of a thread in the crossings s, likewise.
LEMMA NestsReal ==
  ASSUME NEW s \in Seq(Crossings), Ordered(s), NEW x \in Int, NEW tn, NEW ls, Nests(s, x, tn, ls)
  PROVE  Nests(Append(s, [kind |-> "real", saved |-> x]), Len(s) + 1, tn, ls)
<1> DEFINE e == [kind |-> "real", saved |-> x]
<1>1. e \in Crossings /\ e.kind = "real" /\ e.saved = x
  BY DEF Crossings
<1> HIDE DEF e
<1>2. SlotOwner(Append(s, e)) = Len(s) + 1
  BY <1>1, TopExtended
<1>3. SlotsFollow(s) /\ x = SlotOwner(s) => SlotsFollow(Append(s, e))
  BY <1>1, FollowExtended
<1> QED
  BY <1>2, <1>3, Zenon DEF Nests, e

LEMMA NestsLifted ==
  ASSUME NEW s \in Seq(Crossings), Ordered(s), NEW x, NEW tn, NEW ls, Nests(s, x, tn, ls),
         NEW e \in Crossings, e.kind = "lifted"
  PROVE  Nests(Append(s, e), x, tn, ls)
<1>1. SlotOwner(Append(s, e)) = SlotOwner(s)
  BY TopExtended
<1>2. SlotsFollow(s) => SlotsFollow(Append(s, e))
  BY FollowExtended
<1> QED
  BY <1>1, <1>2, Zenon DEF Nests

LEMMA NestsReturns ==
  ASSUME NEW s \in Seq(Crossings), NEW x, NEW tn, NEW ls, Nests(s, x, tn, ls),
         Len(s) >= 1, s[Len(s)].kind = "real"
  PROVE  Nests(Outer(s), s[Len(s)].saved, tn, ls)
<1>1. Len(s) \in 1 .. Len(s) /\ Len(s) - 1 \in 0 .. Len(s)
  OBVIOUS
<1>2. SlotsFollow(s) => SlotsFollow(Outer(s))
  BY <1>1, FollowPrefix DEF Outer
<1>3. SlotsFollow(s) => s[Len(s)].saved = SlotOwner(Outer(s))
  BY <1>1, Zenon DEF SlotsFollow, Outer
<1> QED
  BY <1>2, <1>3, Zenon DEF Nests

LEMMA NestsLeft ==
  ASSUME NEW s \in Seq(Crossings), Ordered(s), NEW x, NEW tn, NEW ls, Nests(s, x, tn, ls),
         NEW i \in 0 .. Len(s), \A h \in i + 1 .. Len(s) : s[h].kind # "real"
  PROVE  Nests(SubSeq(s, 1, i), x, tn, ls)
<1>1. SlotOwner(SubSeq(s, 1, i)) = SlotOwner(s)
  BY TopPrefix
<1>2. SlotsFollow(s) => SlotsFollow(SubSeq(s, 1, i))
  BY FollowPrefix
<1> QED
  BY <1>1, <1>2, Zenon DEF Nests

\* The slot of a thread that is in real code and in no exception's wake holds
\* its own stack.
LEMMA OwnStack ==
  ASSUME NEW s \in Seq(Crossings), NEW x, Nests(s, x, FALSE, FALSE), Len(s) >= 1, s[Len(s)].kind = "real"
  PROVE  x = Len(s)
<1>1. Len(s) \in 1 .. Len(s) /\ \A h \in Len(s) + 1 .. Len(s) : s[h].kind # "real"
  OBVIOUS
<1>2. Inmost(s, "real") = Len(s)
  BY <1>1, InmostIs
<1> QED
  BY <1>2 DEF Nests, SlotOwner

----------------------------------------------------------------------------
\* The state of one thread, and a step of it.
LEMMA Typed ==
  ASSUME IInv, NEW t \in Threads
  PROVE  /\ calls[t] \in Seq(Crossings) /\ tib[t] \in Int /\ arena[t] \in Arenas
         /\ torn[t] \in BOOLEAN /\ lost[t] \in BOOLEAN
         /\ calls = [calls EXCEPT ![t] = calls[t]] /\ tib = [tib EXCEPT ![t] = tib[t]]
         /\ arena = [arena EXCEPT ![t] = arena[t]]
         /\ torn = [torn EXCEPT ![t] = torn[t]] /\ lost = [lost EXCEPT ![t] = lost[t]]
         /\ Framed(calls[t], arena[t]) /\ Ordered(calls[t])
         /\ Nests(calls[t], tib[t], torn[t], lost[t])
<1>1. CrossingTypeOK
  BY DEF IInv
<1>2. Framed(calls[t], arena[t]) /\ Nests(calls[t], tib[t], torn[t], lost[t])
  BY DEF IInv
<1> QED
  BY <1>1, <1>2 DEF CrossingTypeOK, Crossings, Arenas, Framed

\* A step of one thread, to these crossings, slot, arena and marks, and what
\* they have to satisfy.
Becomes(t, s, x, a, tn, ls) ==
  /\ base' \in [Threads -> {"lifted", "real"}]
  /\ calls' = [calls EXCEPT ![t] = s] /\ tib' = [tib EXCEPT ![t] = x]
  /\ arena' = [arena EXCEPT ![t] = a]
  /\ torn' = [torn EXCEPT ![t] = tn] /\ lost' = [lost EXCEPT ![t] = ls]
Sound(s, x, a, tn, ls) ==
  /\ s \in Seq(Crossings) /\ x \in Int /\ a \in Arenas /\ tn \in BOOLEAN /\ ls \in BOOLEAN
  /\ Framed(s, a) /\ Nests(s, x, tn, ls)

LEMMA OneThread ==
  ASSUME IInv, NEW t \in Threads, NEW s, NEW x, NEW a, NEW tn, NEW ls,
         Becomes(t, s, x, a, tn, ls), Sound(s, x, a, tn, ls), Apart' /\ space' \subseteq Regions
  PROVE  IInv'
<1>1. CrossingTypeOK
  BY DEF IInv
<1>2. CrossingTypeOK'
  BY <1>1 DEF CrossingTypeOK, Crossings, Arenas, Becomes, Sound
<1>3. ASSUME NEW u \in Threads
      PROVE  Framed(calls'[u], arena'[u]) /\ Nests(calls'[u], tib'[u], torn'[u], lost'[u])
  <2>1. Framed(calls[u], arena[u]) /\ Nests(calls[u], tib[u], torn[u], lost[u])
    BY DEF IInv
  <2>2. CASE u = t
    <3>1. calls'[u] = s /\ tib'[u] = x /\ arena'[u] = a /\ torn'[u] = tn /\ lost'[u] = ls
      BY <1>1, <2>2 DEF CrossingTypeOK, Becomes
    <3> QED
      BY <3>1 DEF Sound
  <2>3. CASE u # t
    <3>1. /\ calls'[u] = calls[u] /\ tib'[u] = tib[u] /\ arena'[u] = arena[u]
          /\ torn'[u] = torn[u] /\ lost'[u] = lost[u]
      BY <1>1, <2>3 DEF CrossingTypeOK, Becomes
    <3> QED
      BY <2>1, <3>1
  <2> QED
    BY <2>2, <2>3
<1> QED
  BY <1>2, <1>3 DEF IInv

\* A reserved arena lies in its region.
LEMMA Placed ==
  ASSUME IInv
  PROVE  /\ \A u \in Threads : arena[u] # NoArena => arena[u].at \in Regions
         /\ 0 \notin Regions /\ space \subseteq Regions
         /\ DOMAIN arena = Threads
  BY CrossingAssumption DEF IInv, Framed, CrossingTypeOK

LEMMA ApartKept ==
  ASSUME IInv, NEW t \in Threads, NEW a \in Arenas, arena' = [arena EXCEPT ![t] = a],
         a.at = arena[t].at, a = NoArena <=> arena[t] = NoArena, space' = space
  PROVE  Apart' /\ space' \subseteq Regions
<1>1. Apart /\ space \subseteq Regions /\ DOMAIN arena = Threads
  BY Placed DEF IInv
<1>2. \A u \in Threads : arena'[u].at = arena[u].at /\ (arena'[u] = NoArena <=> arena[u] = NoArena)
  BY <1>1
<1>3. \A u, v \in Threads : arena'[u].at = arena'[v].at /\ arena'[u] # NoArena => u = v
  BY <1>1, <1>2 DEF Apart
<1>4. {arena'[u].at : u \in {v \in Threads : arena'[v] # NoArena}}
        = {arena[u].at : u \in {v \in Threads : arena[v] # NoArena}}
  BY <1>2
<1>5. space' = {arena'[u].at : u \in {v \in Threads : arena'[v] # NoArena}}
  BY <1>1, <1>4 DEF Apart
<1> QED
  BY <1>1, <1>3, <1>5 DEF Apart

LEMMA ApartReserved ==
  ASSUME IInv, NEW t \in Threads, NEW a \in Arenas, arena' = [arena EXCEPT ![t] = a],
         arena[t] = NoArena, a # NoArena, a.at \in Regions \ space, space' = space \cup {a.at}
  PROVE  Apart' /\ space' \subseteq Regions
<1>1. /\ Apart /\ space \subseteq Regions /\ DOMAIN arena = Threads /\ 0 \notin Regions
      /\ \A u \in Threads : arena[u] # NoArena => arena[u].at \in space
  BY Placed DEF IInv, Apart
<1>2. arena'[t] = a /\ \A u \in Threads \ {t} : arena'[u] = arena[u]
  BY <1>1
<1>3. \A u \in Threads \ {t} : arena'[u].at # a.at
  <2> TAKE u \in Threads \ {t}
  <2>1. CASE arena[u] = NoArena
    BY <1>1, <1>2, <2>1 DEF NoArena
  <2>2. CASE arena[u] # NoArena
    BY <1>1, <1>2, <2>2
  <2> QED
    BY <2>1, <2>2
<1>4. ASSUME NEW u \in Threads, NEW v \in Threads, arena'[u].at = arena'[v].at, arena'[u] # NoArena
      PROVE  u = v
  <2>1. CASE u = t \/ v = t
    BY <1>2, <1>3, <1>4, <2>1
  <2>2. CASE u # t /\ v # t
    BY <1>1, <1>2, <1>4, <2>2 DEF Apart
  <2> QED
    BY <2>1, <2>2
<1>5. space' = {arena'[u].at : u \in {v \in Threads : arena'[v] # NoArena}}
  <2>1. ASSUME NEW p \in space'
        PROVE  \E u \in Threads : arena'[u] # NoArena /\ p = arena'[u].at
    <3>1. CASE p = a.at
      BY <1>2, <3>1
    <3>2. CASE p \in space
      <4>1. PICK u \in Threads : arena[u] # NoArena /\ p = arena[u].at
        BY <1>1, <3>2 DEF Apart
      <4> QED
        BY <1>2, <4>1
    <3> QED
      BY <2>1, <3>1, <3>2
  <2>2. ASSUME NEW u \in Threads, arena'[u] # NoArena
        PROVE  arena'[u].at \in space'
    BY <1>1, <1>2, <2>2
  <2> QED
    BY <2>1, <2>2
<1> QED
  BY <1>1, <1>4, <1>5 DEF Apart

LEMMA ApartEnded ==
  ASSUME IInv, NEW t \in Threads, arena' = [arena EXCEPT ![t] = NoArena], space' = space \ {arena[t].at}
  PROVE  Apart' /\ space' \subseteq Regions
<1>1. /\ Apart /\ space \subseteq Regions /\ DOMAIN arena = Threads /\ 0 \notin Regions
      /\ \A u \in Threads : arena[u] # NoArena => arena[u].at \in space
  BY Placed DEF IInv, Apart
<1>2. arena'[t] = NoArena /\ \A u \in Threads \ {t} : arena'[u] = arena[u]
  BY <1>1
<1>3. ASSUME NEW u \in Threads \ {t}, arena[u] # NoArena
      PROVE  arena[u].at # arena[t].at
  BY <1>1, <1>3 DEF Apart
<1>4. ASSUME NEW u \in Threads, NEW v \in Threads, arena'[u].at = arena'[v].at, arena'[u] # NoArena
      PROVE  u = v
  <2>1. u # t
    BY <1>2, <1>4
  <2>2. CASE v = t
    BY <1>1, <1>2, <1>4, <2>1, <2>2 DEF NoArena
  <2>3. CASE v # t
    BY <1>1, <1>2, <1>4, <2>1, <2>3 DEF Apart
  <2> QED
    BY <2>2, <2>3
<1>5. space' = {arena'[u].at : u \in {v \in Threads : arena'[v] # NoArena}}
  <2>1. ASSUME NEW p \in space'
        PROVE  \E u \in Threads : arena'[u] # NoArena /\ p = arena'[u].at
    <3>1. PICK u \in Threads : arena[u] # NoArena /\ p = arena[u].at
      BY <1>1, <2>1 DEF Apart
    <3> QED
      BY <1>2, <2>1, <3>1
  <2>2. ASSUME NEW u \in Threads, arena'[u] # NoArena
        PROVE  arena'[u].at \in space'
    <3>1. u # t /\ arena'[u] = arena[u]
      BY <1>2, <2>2
    <3> QED
      BY <1>1, <1>3, <2>2, <3>1
  <2> QED
    BY <2>1, <2>2
<1> QED
  BY <1>1, <1>4, <1>5 DEF Apart

\* The arena a call back takes its frame from.
LEMMA ReservedIs ==
  ASSUME IInv, NEW t \in Threads, NEW a \in Reserved(t)
  PROVE  /\ a \in Arenas /\ a # NoArena /\ Framed(calls[t], a)
         /\ \/ arena[t] = a
            \/ arena[t] = NoArena /\ a.at \in Regions \ space
<1>1. arena[t] \in Arenas /\ Framed(calls[t], arena[t]) /\ calls[t] \in Seq(Crossings)
  BY Typed
<1>2. CASE arena[t] # NoArena
  BY <1>1, <1>2 DEF Reserved
<1>3. CASE arena[t] = NoArena
  <2>1. PICK p \in Regions \ space : a = [at |-> p, top |-> Arena, low |-> Arena]
    BY <1>3 DEF Reserved
  <2>2. a \in Arenas /\ a # NoArena /\ a.at = p
    BY <2>1, CrossingAssumption DEF Arenas, NoArena
  <2>3. Framed(calls[t], a)
    BY <1>1, <1>3, <2>1, FramedReserved
  <2> QED
    BY <1>3, <2>2, <2>3
<1> QED
  BY <1>2, <1>3

LEMMA ReservedApart ==
  ASSUME IInv, NEW t \in Threads, NEW a \in Reserved(t), NEW w \in Arenas, w # NoArena, w.at = a.at,
         arena' = [arena EXCEPT ![t] = w], space' = space \cup {a.at}
  PROVE  Apart' /\ space' \subseteq Regions
<1>1. CASE arena[t] = a
  <2>1. a # NoArena
    BY ReservedIs
  <2>2. space' = space
    BY <1>1, <2>1 DEF IInv, Apart
  <2> QED
    BY <1>1, <2>1, <2>2, ApartKept
<1>2. CASE arena[t] = NoArena /\ a.at \in Regions \ space
  BY <1>2, ApartReserved
<1> QED
  BY <1>1, <1>2, ReservedIs

----------------------------------------------------------------------------
\* The invariant holds at first and after every step.
LEMMA Empty ==
         /\ << >> \in Seq(Crossings) /\ Framed(<< >>, NoArena)
         /\ \A ls : ~ls => Nests(<< >>, Own, FALSE, ls)
<1> DEFINE e == << >>
<1>1. e \in Seq(Crossings) /\ Len(e) = 0
  OBVIOUS
<1> HIDE DEF e
<1>2. \A k, i, m : i \in 0 .. Len(e) /\ m \in i .. Len(e) => Ends(e, k, i, m)
  BY <1>1 DEF Ends
<1>3. Ordered(e)
  BY <1>2, Zenon DEF Ordered
<1>4. \A i \in 1 .. Len(e) : FALSE
  BY <1>1
<1>5. FramesFollow(e) /\ SlotsFollow(e)
  BY <1>4 DEF FramesFollow, SlotsFollow
<1>6. SlotOwner(e) = Own
  BY <1>4, InmostNone DEF SlotOwner, Own
<1>7. Framed(e, NoArena)
  BY <1>3, <1>4, <1>5 DEF Framed
<1> QED
  BY <1>1, <1>5, <1>6, <1>7 DEF Nests, e

LEMMA InitHolds == CrossingInit => IInv
<1> SUFFICES ASSUME CrossingInit
             PROVE  IInv
  OBVIOUS
<1>1. /\ \A t \in Threads : /\ calls[t] = << >> /\ tib[t] = Own /\ arena[t] = NoArena
                             /\ torn[t] = FALSE /\ lost[t] = FALSE
      /\ space = {}
  BY DEF CrossingInit
<1>2. CrossingTypeOK
  BY DEF CrossingInit, CrossingTypeOK, NoArena, Own
<1>3. Apart
  BY <1>1 DEF Apart
<1>4. \A t \in Threads : Framed(calls[t], arena[t]) /\ Nests(calls[t], tib[t], torn[t], lost[t])
  BY <1>1, Empty
<1> QED
  BY <1>2, <1>3, <1>4 DEF IInv

LEMMA CallRealHolds ==
  ASSUME IInv, NEW t \in Threads, CallReal(t)
  PROVE  IInv'
<1> DEFINE e == [kind |-> "real", saved |-> tib[t]]
<1>1. /\ ~lost[t] /\ calls' = [calls EXCEPT ![t] = Append(calls[t], e)]
      /\ tib' = [tib EXCEPT ![t] = Len(calls[t]) + 1]
      /\ base' = base /\ arena' = arena /\ space' = space /\ torn' = torn /\ lost' = lost
  BY Typed DEF CallReal, Fs
<1>2. e \in Crossings /\ e.kind = "real"
  BY Typed DEF Crossings
<1>3. Append(calls[t], e) \in Seq(Crossings) /\ Len(calls[t]) + 1 \in Int
  BY <1>2, Typed, Extended
<1>4. Framed(Append(calls[t], e), arena[t])
  BY <1>2, Typed, FramedReal
<1>5. Nests(Append(calls[t], e), Len(calls[t]) + 1, torn[t], lost[t])
  BY Typed, NestsReal
<1>6. Apart' /\ space' \subseteq Regions
  BY <1>1, Typed, ApartKept
<1>7. base' \in [Threads -> {"lifted", "real"}]
  BY <1>1 DEF IInv, CrossingTypeOK
<1>8. Becomes(t, Append(calls[t], e), Len(calls[t]) + 1, arena[t], torn[t], lost[t])
  BY <1>1, <1>7, Typed DEF Becomes
<1>9. Sound(Append(calls[t], e), Len(calls[t]) + 1, arena[t], torn[t], lost[t])
  BY <1>3, <1>4, <1>5, Typed DEF Sound
<1> QED
  BY <1>8, <1>9, <1>6, OneThread, Zenon

\* A thread that is in a crossing: what encloses it.
LEMMA Enclosing ==
  ASSUME IInv, NEW t \in Threads, calls[t] # << >>
  PROVE  /\ Len(calls[t]) \in Nat /\ Len(calls[t]) >= 1
         /\ calls[t][Len(calls[t])] \in Crossings
         /\ Running(t) = calls[t][Len(calls[t])].kind
         /\ Outer(calls[t]) = SubSeq(calls[t], 1, Len(calls[t]) - 1)
         /\ Len(calls[t]) - 1 \in 0 .. Len(calls[t])
         /\ Outer(calls[t]) \in Seq(Crossings)
         /\ \A top : Unwound(calls[t], Len(calls[t]) - 1 + 1, top)
                      = IF Running(t) = "lifted" THEN calls[t][Len(calls[t])].saved ELSE top
<1> DEFINE s == calls[t]
           n == Len(s)
<1>1. s \in Seq(Crossings)
  BY Typed
<1>2. n \in Nat /\ n >= 1
  BY <1>1, EmptySeq
<1>3. s[n] \in Crossings
  BY <1>1, <1>2, ElementOfSeq
<1>4. Running(t) = s[n].kind
  BY DEF Running
<1>5. SubSeq(s, 1, n - 1) \in Seq(Crossings)
  BY <1>1, <1>2, Prefix
<1>6. ASSUME NEW top
      PROVE  Unwound(s, n, top) = IF s[n].kind = "lifted" THEN s[n].saved ELSE top
  <2>1. n .. n = {n} /\ \A h \in n .. n - 1 : FALSE
    BY <1>2
  <2> HIDE DEF s
  <2>2. CASE s[n].kind = "lifted"
    <3>1. (CHOOSE j \in n .. n : s[j].kind = "lifted" /\ \A h \in n .. j - 1 : s[h].kind # "lifted") = n
      <4>1. \A j \in n .. n : j = n
        BY <2>1
      <4>2. n \in n .. n /\ s[n].kind = "lifted" /\ \A h \in n .. n - 1 : s[h].kind # "lifted"
        BY <2>1, <2>2
      <4> QED
        BY <4>1, <4>2
    <3>2. \E j \in n .. n : s[j].kind = "lifted"
      BY <2>1, <2>2
    <3>3. Unwound(s, n, top) = s[n].saved
      BY <3>1, <3>2, Zenon DEF Unwound
    <3> QED
      BY <2>2, <3>3, Zenon
  <2>3. CASE s[n].kind # "lifted"
    <3>1. ~ \E j \in n .. n : s[j].kind = "lifted"
      BY <2>1, <2>3
    <3> QED
      BY <2>3, <3>1, Zenon DEF Unwound
  <2> QED
    BY <2>2, <2>3
<1>7. n - 1 + 1 = n /\ n - 1 \in 0 .. n
  BY <1>2
<1> QED
  BY <1>2, <1>3, <1>4, <1>5, <1>6, <1>7 DEF Outer

LEMMA RealReturnsHolds ==
  ASSUME IInv, NEW t \in Threads, RealReturns(t)
  PROVE  IInv'
<1> DEFINE n == Len(calls[t])
<1>1. /\ calls[t] # << >> /\ Running(t) = "real" /\ ~lost[t]
      /\ calls' = [calls EXCEPT ![t] = Outer(calls[t])]
      /\ tib' = [tib EXCEPT ![t] = calls[t][n].saved]
      /\ base' = base /\ arena' = arena /\ space' = space /\ torn' = torn /\ lost' = lost
  BY Typed DEF RealReturns, Fs
<1>2. calls[t][n].saved \in Int /\ calls[t][n].kind = "real" /\ Outer(calls[t]) \in Seq(Crossings)
  BY <1>1, Enclosing DEF Crossings
<1>3. Framed(Outer(calls[t]), arena[t])
  <2>1. Unwound(calls[t], n - 1 + 1, arena[t].top) = arena[t].top
    BY <1>1, Enclosing
  <2>2. [arena[t] EXCEPT !.top = Unwound(calls[t], n - 1 + 1, @)] = arena[t]
    BY <2>1, Typed DEF Arenas
  <2>3. Framed(SubSeq(calls[t], 1, n - 1), [arena[t] EXCEPT !.top = Unwound(calls[t], n - 1 + 1, @)])
    BY <1>1, Typed, Enclosing, FramedUnwound
  <2> QED
    BY <2>2, <2>3 DEF Outer
<1>4. Nests(Outer(calls[t]), calls[t][n].saved, torn[t], lost[t])
  BY <1>1, <1>2, Typed, Enclosing, NestsReturns
<1>5. Apart' /\ space' \subseteq Regions
  BY <1>1, Typed, ApartKept
<1>6. base' \in [Threads -> {"lifted", "real"}]
  BY <1>1 DEF IInv, CrossingTypeOK
<1>7. Becomes(t, Outer(calls[t]), calls[t][n].saved, arena[t], torn[t], lost[t])
  BY <1>1, <1>6, Typed DEF Becomes
<1>8. Sound(Outer(calls[t]), calls[t][n].saved, arena[t], torn[t], lost[t])
  BY <1>2, <1>3, <1>4, Typed DEF Sound
<1> QED
  BY <1>7, <1>8, <1>5, OneThread, Zenon

LEMMA AstrayHolds ==
  ASSUME IInv, NEW t \in Threads, RealReturnsAstray(t)
  PROVE  IInv'
<1>1. /\ calls[t] # << >> /\ Running(t) = "real" /\ ~lost[t] /\ tib[t] # Len(calls[t])
      /\ lost' = [lost EXCEPT ![t] = TRUE]
      /\ base' = base /\ calls' = calls /\ tib' = tib /\ arena' = arena /\ space' = space /\ torn' = torn
  BY DEF RealReturnsAstray, Fs
<1>2. torn[t] = TRUE
  <2>1. SUFFICES ASSUME torn[t] = FALSE
                 PROVE  FALSE
    BY Typed
  <2>2. Nests(calls[t], tib[t], FALSE, FALSE)
    BY <1>1, <2>1, Typed
  <2> QED
    BY <1>1, <2>2, Typed, Enclosing, OwnStack
<1>3. Nests(calls[t], tib[t], torn[t], TRUE)
  BY <1>2 DEF Nests
<1>4. Apart' /\ space' \subseteq Regions
  BY <1>1, Typed, ApartKept
<1>5. base' \in [Threads -> {"lifted", "real"}]
  BY <1>1 DEF IInv, CrossingTypeOK
<1>6. Becomes(t, calls[t], tib[t], arena[t], torn[t], TRUE)
  BY <1>1, <1>5, Typed DEF Becomes
<1>7. Sound(calls[t], tib[t], arena[t], torn[t], TRUE)
  BY <1>3, Typed DEF Sound
<1> QED
  BY <1>6, <1>7, <1>4, OneThread, Zenon

LEMMA CallBackHolds ==
  ASSUME IInv, NEW t \in Threads, CallBack(t)
  PROVE  IInv'
<1>1. PICK a \in Reserved(t) :
        /\ a.top >= Frame
        /\ arena' = [arena EXCEPT ![t] = WithFrame(a)]
        /\ space' = space \cup {a.at}
        /\ calls' = [calls EXCEPT ![t] = Append(calls[t], [kind |-> "lifted", saved |-> a.top])]
  BY Typed DEF CallBack
<1>2. base' = base /\ tib' = tib /\ torn' = torn /\ lost' = lost
  BY DEF CallBack
<1>3. a \in Arenas /\ a # NoArena /\ Framed(calls[t], a)
  BY ReservedIs
<1> DEFINE e == [kind |-> "lifted", saved |-> a.top]
<1>4. e \in Crossings /\ e.kind = "lifted"
  BY <1>3 DEF Crossings, Arenas
<1>5. /\ WithFrame(a) \in Arenas /\ WithFrame(a).at = a.at /\ WithFrame(a) # NoArena
      /\ Framed(Append(calls[t], e), WithFrame(a))
  BY <1>1, <1>3, Typed, FramedCalled
<1>6. Append(calls[t], e) \in Seq(Crossings)
  BY <1>4, Typed, Extended
<1>7. Nests(Append(calls[t], e), tib[t], torn[t], lost[t])
  BY <1>4, Typed, NestsLifted
<1>8. Apart' /\ space' \subseteq Regions
  BY <1>1, <1>5, ReservedApart
<1>9. base' \in [Threads -> {"lifted", "real"}]
  BY <1>2 DEF IInv, CrossingTypeOK
<1>10. calls' = [calls EXCEPT ![t] = Append(calls[t], e)]
  BY <1>1
<1>11. Becomes(t, Append(calls[t], e), tib[t], WithFrame(a), torn[t], lost[t])
  BY <1>1, <1>2, <1>9, <1>10, Typed DEF Becomes
<1>12. Sound(Append(calls[t], e), tib[t], WithFrame(a), torn[t], lost[t])
  BY <1>5, <1>6, <1>7, Typed DEF Sound
<1> QED
  BY <1>11, <1>12, <1>8, OneThread, Zenon

LEMMA CallBackFailsHolds ==
  ASSUME IInv, NEW t \in Threads, CallBackFails(t)
  PROVE  IInv'
<1>1. PICK a \in Reserved(t) : arena' = [arena EXCEPT ![t] = a] /\ space' = space \cup {a.at}
  BY DEF CallBackFails
<1>2. base' = base /\ calls' = calls /\ tib' = tib /\ torn' = torn /\ lost' = lost
  BY DEF CallBackFails
<1>3. a \in Arenas /\ a # NoArena /\ Framed(calls[t], a)
  BY ReservedIs
<1>4. Apart' /\ space' \subseteq Regions
  BY <1>1, <1>3, ReservedApart
<1>5. base' \in [Threads -> {"lifted", "real"}]
  BY <1>2 DEF IInv, CrossingTypeOK
<1>6. Becomes(t, calls[t], tib[t], a, torn[t], lost[t])
  BY <1>1, <1>2, <1>5, Typed DEF Becomes
<1>7. Sound(calls[t], tib[t], a, torn[t], lost[t])
  BY <1>3, Typed DEF Sound
<1> QED
  BY <1>6, <1>7, <1>4, OneThread, Zenon

LEMMA LiftedReturnsHolds ==
  ASSUME IInv, NEW t \in Threads, LiftedReturns(t)
  PROVE  IInv'
<1> DEFINE s == calls[t]
           n == Len(s)
           a == [arena[t] EXCEPT !.top = s[n].saved]
<1>1. /\ calls[t] # << >> /\ Running(t) = "lifted"
      /\ arena' = [arena EXCEPT ![t] = a]
      /\ calls' = [calls EXCEPT ![t] = Outer(s)]
      /\ base' = base /\ tib' = tib /\ space' = space /\ torn' = torn /\ lost' = lost
  BY Typed DEF LiftedReturns
<1>2. /\ n \in Nat /\ n >= 1 /\ n - 1 \in 0 .. n
      /\ s[n].kind = "lifted" /\ Outer(s) = SubSeq(s, 1, n - 1) /\ Outer(s) \in Seq(Crossings)
      /\ Unwound(s, n - 1 + 1, arena[t].top) = s[n].saved
  BY <1>1, Enclosing
<1>3. a = [arena[t] EXCEPT !.top = Unwound(s, n - 1 + 1, @)]
  BY <1>2
<1>4. a \in Arenas /\ (a = NoArena <=> arena[t] = NoArena) /\ Framed(Outer(s), a)
  <2>1. s \in Seq(Crossings) /\ arena[t] \in Arenas /\ Framed(s, arena[t]) /\ n - 1 \in 0 .. Len(s)
    BY <1>2, Typed
  <2> HIDE DEF s, n
  <2>2. /\ [arena[t] EXCEPT !.top = Unwound(s, n - 1 + 1, @)] \in Arenas
        /\ [arena[t] EXCEPT !.top = Unwound(s, n - 1 + 1, @)] = NoArena <=> arena[t] = NoArena
        /\ Framed(SubSeq(s, 1, n - 1), [arena[t] EXCEPT !.top = Unwound(s, n - 1 + 1, @)])
    BY <2>1, FramedUnwound, Zenon
  <2> QED
    BY <1>2, <1>3, <2>2, Zenon
<1>5. a.at = arena[t].at
  BY Typed DEF Arenas
<1>6. Nests(Outer(s), tib[t], torn[t], lost[t])
  <2>1. \A h \in n - 1 + 1 .. n : s[h].kind # "real"
    BY <1>2
  <2> QED
    BY <1>2, <2>1, Typed, NestsLeft
<1> HIDE DEF a, n
<1>7. Apart' /\ space' \subseteq Regions
  BY <1>1, <1>4, <1>5, ApartKept
<1>8. base' \in [Threads -> {"lifted", "real"}]
  BY <1>1 DEF IInv, CrossingTypeOK
<1>9. Becomes(t, Outer(s), tib[t], a, torn[t], lost[t])
  BY <1>1, <1>8, Typed DEF Becomes
<1>10. Sound(Outer(s), tib[t], a, torn[t], lost[t])
  BY <1>2, <1>4, <1>6, Typed DEF Sound
<1> QED
  BY <1>9, <1>10, <1>7, OneThread, Zenon

LEMMA ThrowHolds ==
  ASSUME IInv, NEW t \in Threads, NEW i \in 0 .. MaxNesting, Throw(t, i)
  PROVE  IInv'
<1> DEFINE s == calls[t]
           a == [arena[t] EXCEPT !.top = Unwound(s, i + 1, @)]
           tn == torn[t] \/ \E j \in i + 1 .. Len(s) : s[j].kind = "real"
<1>1. /\ i < Len(s) /\ calls' = [calls EXCEPT ![t] = SubSeq(s, 1, i)]
      /\ arena' = [arena EXCEPT ![t] = a]
      /\ torn' = [torn EXCEPT ![t] = tn]
      /\ base' = base /\ tib' = tib /\ space' = space /\ lost' = lost
  BY Typed DEF Throw
<1>2. i \in 0 .. Len(s) /\ SubSeq(s, 1, i) \in Seq(Crossings)
  <2>1. i \in 0 .. Len(s)
    BY <1>1, Typed
  <2> QED
    BY <2>1, Typed, Prefix
<1>3. a \in Arenas /\ (a = NoArena <=> arena[t] = NoArena) /\ Framed(SubSeq(s, 1, i), a)
  <2>1. s \in Seq(Crossings) /\ arena[t] \in Arenas /\ Framed(s, arena[t])
    BY Typed
  <2> HIDE DEF s
  <2> QED
    BY <1>2, <2>1, FramedUnwound, Zenon
<1>4. a.at = arena[t].at
  BY Typed DEF Arenas
<1>5. tn \in BOOLEAN /\ Nests(SubSeq(s, 1, i), tib[t], tn, lost[t])
  <2>1. tn \in BOOLEAN
    BY Typed
  <2>2. CASE tn
    BY <2>1, <2>2 DEF Nests
  <2>3. CASE ~tn
    <3>1. torn[t] = FALSE /\ \A h \in i + 1 .. Len(s) : s[h].kind # "real"
      BY <2>3, Typed
    <3>2. Nests(SubSeq(s, 1, i), tib[t], torn[t], lost[t])
      BY <1>2, <3>1, Typed, NestsLeft
    <3> QED
      BY <3>1, <3>2 DEF Nests
  <2> QED
    BY <2>1, <2>2, <2>3
<1> HIDE DEF a, tn
<1>6. Apart' /\ space' \subseteq Regions
  BY <1>1, <1>3, <1>4, ApartKept
<1>7. base' \in [Threads -> {"lifted", "real"}]
  BY <1>1 DEF IInv, CrossingTypeOK
<1>8. Becomes(t, SubSeq(s, 1, i), tib[t], a, tn, lost[t])
  BY <1>1, <1>7, Typed DEF Becomes
<1>9. Sound(SubSeq(s, 1, i), tib[t], a, tn, lost[t])
  BY <1>2, <1>3, <1>5, Typed DEF Sound
<1> QED
  BY <1>8, <1>9, <1>6, OneThread, Zenon

LEMMA ThreadEndsHolds ==
  ASSUME IInv, NEW t \in Threads, ThreadEnds(t)
  PROVE  IInv'
<1>1. /\ lost[t] = FALSE
      /\ calls' = [calls EXCEPT ![t] = << >>] /\ tib' = [tib EXCEPT ![t] = Own]
      /\ arena' = [arena EXCEPT ![t] = NoArena] /\ space' = space \ {arena[t].at}
      /\ torn' = [torn EXCEPT ![t] = FALSE] /\ lost' = lost
  BY Typed DEF ThreadEnds, Fs
<1>2. base' \in [Threads -> {"lifted", "real"}]
  BY DEF ThreadEnds, IInv, CrossingTypeOK
<1>3. /\ << >> \in Seq(Crossings) /\ Framed(<< >>, NoArena) /\ Nests(<< >>, Own, FALSE, lost[t])
      /\ Own \in Int /\ NoArena \in Arenas
  <2>1. Own \in Int /\ NoArena \in Arenas
    BY DEF Own, NoArena, Arenas
  <2> QED
    BY <1>1, <2>1, Empty
<1>4. Apart' /\ space' \subseteq Regions
  BY <1>1, ApartEnded
<1>5. Becomes(t, << >>, Own, NoArena, FALSE, lost[t])
  BY <1>1, <1>2, Typed DEF Becomes
<1>6. Sound(<< >>, Own, NoArena, FALSE, lost[t])
  BY <1>3, Typed DEF Sound
<1> QED
  BY <1>5, <1>6, <1>4, OneThread, Zenon

LEMMA StepHolds == IInv /\ [CrossingNext]_cvars => IInv'
<1> SUFFICES ASSUME IInv, [CrossingNext]_cvars
             PROVE  IInv'
  OBVIOUS
<1>1. CASE UNCHANGED cvars
  BY <1>1 DEF cvars, IInv, CrossingTypeOK, Apart
<1>2. ASSUME NEW t \in Threads, ReserveFails(t)
      PROVE  IInv'
  BY <1>1, <1>2 DEF ReserveFails
<1>3. CASE CrossingNext
  BY <1>2, <1>3, CallRealHolds, RealReturnsHolds, AstrayHolds, CallBackHolds, CallBackFailsHolds,
     LiftedReturnsHolds, ThrowHolds, ThreadEndsHolds DEF CrossingNext
<1> QED
  BY <1>1, <1>3

LEMMA Implied == IInv => FramesHeld /\ SlotNests
  BY DEF IInv, FramesHeld, SlotNests, Framed, Nests, Apart

----------------------------------------------------------------------------
\* However calls, returns, exceptions and thread ends follow each other, on
\* any number of threads: the frames of the call backs lie one below the
\* other in the thread's own arena, committed and without a gap
\* (hybrid.c:143-147, 230-245, 261-278).
THEOREM FramesHeldAlways == CrossingSpec => []FramesHeld
<1>1. CrossingInit => IInv
  BY InitHolds
<1>2. IInv /\ [CrossingNext]_cvars => IInv'
  BY StepHolds
<1>3. IInv => FramesHeld
  BY Implied
<1> QED
  BY <1>1, <1>2, <1>3, PTL DEF CrossingSpec

\* And on every thread that no exception has taken out of a call to real code
\* those calls nest, and all return to their own stack (hybrid.c:33-34).
THEOREM SlotNestsAlways == CrossingSpec => []SlotNests
<1>1. CrossingInit => IInv
  BY InitHolds
<1>2. IInv /\ [CrossingNext]_cvars => IInv'
  BY StepHolds
<1>3. IInv => SlotNests
  BY Implied
<1> QED
  BY <1>1, <1>2, <1>3, PTL DEF CrossingSpec

----------------------------------------------------------------------------
\* The same of the specification that puts the crossings beside the rest of
\* the runtime.
BenchInv == bench = "crossing" => IInv

LEMMA BenchHolds == RuntimeSpec => []BenchInv
<1>1. RuntimeInit => BenchInv
  BY InitHolds DEF RuntimeInit, BenchInv
<1>2. BenchInv /\ [RuntimeNext]_<<bench, statsVars, cvars, tvars>> => BenchInv'
  <2> SUFFICES ASSUME BenchInv, [RuntimeNext]_<<bench, statsVars, cvars, tvars>>, bench' = "crossing"
               PROVE  IInv'
    BY DEF BenchInv
  <2>1. bench = "crossing" /\ IInv /\ [CrossingNext]_cvars
    BY DEF RuntimeNext, BenchInv
  <2> QED
    BY <2>1, StepHolds
<1> QED
  BY <1>1, <1>2, PTL DEF RuntimeSpec

\* There too every call back has its frame (hybrid.c:143-147, 230-245, 261-278).
THEOREM CallBacksHoldAlways == RuntimeSpec => []CallBacksHold
<1>1. BenchInv => CallBacksHold
  BY Implied DEF BenchInv, CallBacksHold
<1> QED
  BY <1>1, BenchHolds, PTL

\* There too calls to real code nest (hybrid.c:33-34).
THEOREM CallsNestAlways == RuntimeSpec => []CallsNest
<1>1. BenchInv => CallsNest
  BY Implied DEF BenchInv, CallsNest
<1> QED
  BY <1>1, BenchHolds, PTL
=============================================================================
