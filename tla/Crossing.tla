------------------------------ MODULE Crossing ------------------------------
(* Calls between lifted and real machine code on several threads             *)
(* (runtime/hybrid/hybrid.c).  A call from lifted code to real code leaves   *)
(* the host stack and finds it again through one slot of the thread's        *)
(* information block.  A call back from real code runs the lifted function   *)
(* on a frame of the thread's arena, reserved at the first such call and     *)
(* committed frame by frame.  The two nest in each other, and an exception   *)
(* may leave any number of them at once.  The registers that cross are left  *)
(* out, and so is the x87 stack.                                             *)
EXTENDS Integers, Sequences

CONSTANTS
  Threads,
  Regions,      \* the places an arena can have in the address space
  Frame,        \* g_frame
  Arena,        \* g_arena_bytes
  MaxNesting    \* bound: crossings one thread is in

ASSUME CrossingAssumption ==
  /\ Frame \in Nat \ {0}
  /\ Arena \in Nat
  /\ Regions \subseteq Nat \ {0}

VARIABLES
  base,         \* thread -> the code it starts in, "lifted" or "real"
  calls,        \* thread -> the crossings it is in, the innermost last
  tib,          \* thread -> the occupant of its slot fs:[14h]
  arena,        \* thread -> its arena: place, t_arena_top, t_arena_low
  space,        \* the regions reserved
  torn,         \* thread -> a crossing was left by an exception (history)
  lost          \* thread -> it returned to a stack that is not its own

cvars == <<base, calls, tib, arena, space, torn, lost>>

\* The slot holds the host stack pointer of a crossing, which its depth
\* stands for, or what the program itself keeps there.
Own == 0

\* The slip the slot was chosen to end: one place for every thread.
Fs_bug(t) == CHOOSE u \in Threads : TRUE

\* The thread whose block fs reaches: its own.
Fs(t) == t

\* A thread without an arena.  Addresses count from the arena's beginning.
NoArena == [at |-> 0, top |-> 0, low |-> 0]

Running(t) == IF calls[t] = <<>> THEN base[t] ELSE calls[t][Len(calls[t])].kind
Outer(s) == SubSeq(s, 1, Len(s) - 1)

CrossingInit ==
  /\ base \in [Threads -> {"lifted", "real"}]
  /\ calls = [t \in Threads |-> <<>>]
  /\ tib = [t \in Threads |-> Own]
  /\ arena = [t \in Threads |-> NoArena]
  /\ space = {}
  /\ torn = [t \in Threads |-> FALSE]
  /\ lost = [t \in Threads |-> FALSE]

----------------------------------------------------------------------------
\* Lifted code calls real code: the slot's occupant goes to the host stack
\* and the host stack pointer into the slot.
CallReal(t) ==
  /\ Running(t) = "lifted" /\ ~lost[t]
  /\ Len(calls[t]) < MaxNesting
  /\ calls' = [calls EXCEPT ![t] = Append(@, [kind |-> "real", saved |-> tib[Fs(t)]])]
  /\ tib' = [tib EXCEPT ![Fs(t)] = Len(calls[t]) + 1]
  /\ UNCHANGED <<base, arena, space, torn, lost>>

\* The real code returns: the slot gives the host stack back, where its
\* earlier occupant is.
RealReturns(t) ==
  /\ calls[t] # <<>> /\ Running(t) = "real" /\ ~lost[t]
  /\ tib[Fs(t)] = Len(calls[t])
  /\ tib' = [tib EXCEPT ![Fs(t)] = calls[t][Len(calls[t])].saved]
  /\ calls' = [calls EXCEPT ![t] = Outer(@)]
  /\ UNCHANGED <<base, arena, space, torn, lost>>

\* The slot holds the stack of another crossing: the block and the registers
\* are popped from there, and anything may follow.
RealReturnsAstray(t) ==
  /\ calls[t] # <<>> /\ Running(t) = "real" /\ ~lost[t]
  /\ tib[Fs(t)] # Len(calls[t])
  /\ lost' = [lost EXCEPT ![t] = TRUE]
  /\ UNCHANGED <<base, calls, tib, arena, space, torn>>

----------------------------------------------------------------------------
CallsBack(t) == Running(t) = "real" /\ ~lost[t] /\ Len(calls[t]) < MaxNesting

\* A thread's first call back reserves its arena.
Reserved(t) ==
  IF arena[t] # NoArena THEN {arena[t]}
  ELSE {[at |-> r, top |-> Arena, low |-> Arena] : r \in Regions \ space}

\* The frame is taken from the top and committed if it never was before.
WithFrame(a) ==
  [a EXCEPT !.top = @ - Frame,
            !.low = IF a.top - Frame < @ THEN a.top - Frame ELSE @]

CallBack(t) ==
  /\ CallsBack(t)
  /\ \E a \in Reserved(t) :
       /\ a.top >= Frame
       /\ arena' = [arena EXCEPT ![t] = WithFrame(a)]
       /\ space' = space \cup {a.at}
       /\ calls' = [calls EXCEPT ![t] = Append(@, [kind |-> "lifted", saved |-> a.top])]
  /\ UNCHANGED <<base, tib, torn, lost>>

\* The call back answers 0: the arena is full, or the system commits nothing.
CallBackFails(t) ==
  /\ CallsBack(t)
  /\ \E a \in Reserved(t) :
       /\ a.top < Frame \/ a.top - Frame < a.low
       /\ arena' = [arena EXCEPT ![t] = a]
       /\ space' = space \cup {a.at}
  /\ UNCHANGED <<base, calls, tib, torn, lost>>

\* It also answers 0 when there is no room for an arena.
ReserveFails(t) ==
  /\ CallsBack(t)
  /\ arena[t] = NoArena
  /\ UNCHANGED cvars

\* The lifted function returns and its frame is given back.
LiftedReturns(t) ==
  /\ calls[t] # <<>> /\ Running(t) = "lifted" /\ ~lost[t]
  /\ arena' = [arena EXCEPT ![t].top = calls[t][Len(calls[t])].saved]
  /\ calls' = [calls EXCEPT ![t] = Outer(@)]
  /\ UNCHANGED <<base, tib, space, torn, lost>>

----------------------------------------------------------------------------
\* The slip of giving a frame back behind the call only.
Unwound_bug(s, i, top) == top

\* The top after an exception has left the crossings of s from the i-th on:
\* each call back among them runs its __finally, the outermost one last.
Unwound(s, i, top) ==
  IF \E j \in i .. Len(s) : s[j].kind = "lifted"
    THEN s[CHOOSE j \in i .. Len(s) : /\ s[j].kind = "lifted"
                                      /\ \A h \in i .. j - 1 : s[h].kind # "lifted"].saved
    ELSE top

\* An exception is caught by the code that i crossings led to.  Nothing of
\* hybrid_call_machine runs when it is left this way.
Throw(t, i) ==
  /\ i < Len(calls[t]) /\ ~lost[t]
  /\ calls' = [calls EXCEPT ![t] = SubSeq(@, 1, i)]
  /\ arena' = [arena EXCEPT ![t].top = Unwound(calls[t], i + 1, @)]
  /\ torn' = [torn EXCEPT ![t] = @ \/ \E j \in i + 1 .. Len(calls[t]) : calls[t][j].kind = "real"]
  /\ UNCHANGED <<base, tib, space, lost>>

\* A thread ends, wherever it is, and its arena with it; another may begin.
ThreadEnds(t) ==
  /\ ~lost[t]
  /\ base' \in {[base EXCEPT ![t] = k] : k \in {"lifted", "real"}}
  /\ calls' = [calls EXCEPT ![t] = <<>>]
  /\ tib' = [tib EXCEPT ![Fs(t)] = Own]
  /\ arena' = [arena EXCEPT ![t] = NoArena]
  /\ space' = space \ {arena[t].at}
  /\ torn' = [torn EXCEPT ![t] = FALSE]
  /\ UNCHANGED lost

CrossingNext ==
  \E t \in Threads :
    \/ CallReal(t) \/ RealReturns(t) \/ RealReturnsAstray(t)
    \/ CallBack(t) \/ CallBackFails(t) \/ ReserveFails(t) \/ LiftedReturns(t)
    \/ \E i \in 0 .. MaxNesting : Throw(t, i)
    \/ ThreadEnds(t)

CrossingSpec == CrossingInit /\ [][CrossingNext]_cvars

----------------------------------------------------------------------------
\* Every crossing, slot and arena is of its kind.
CrossingTypeOK ==
  /\ base \in [Threads -> {"lifted", "real"}]
  /\ calls \in [Threads -> Seq([kind : {"lifted", "real"}, saved : Int])]
  /\ tib \in [Threads -> Int]
  /\ arena \in [Threads -> [at : Nat, top : Int, low : Int]]
  /\ space \subseteq Regions
  /\ torn \in [Threads -> BOOLEAN] /\ lost \in [Threads -> BOOLEAN]

\* The innermost of the crossings s of one kind, 0 if there is none.
Inmost(s, kind) ==
  IF \E i \in 1 .. Len(s) : s[i].kind = kind
    THEN CHOOSE i \in 1 .. Len(s) : /\ s[i].kind = kind
                                    /\ \A h \in i + 1 .. Len(s) : s[h].kind # kind
    ELSE 0

\* Where the frames of the call backs in s end, and whom the slot belongs to.
FrameTop(s) == IF Inmost(s, "lifted") = 0 THEN Arena ELSE s[Inmost(s, "lifted")].saved - Frame
SlotOwner(s) == Inmost(s, "real")

\* The frames of the call backs a thread is in follow each other down its
\* arena without a gap, committed and inside it, whatever was thrown, refused
\* or left before, and no other thread has that arena (hybrid.c:143-147,
\* 230-245, 261-278).
FramesFollow(s) ==
  \A i \in 1 .. Len(s) : s[i].kind = "lifted" => s[i].saved = FrameTop(SubSeq(s, 1, i - 1))
FramesHeld ==
  /\ \A t \in Threads :
       /\ FramesFollow(calls[t])
       /\ arena[t] # NoArena =>
            /\ arena[t].top = FrameTop(calls[t])
            /\ 0 <= arena[t].low /\ arena[t].low <= arena[t].top
  /\ \A t, u \in Threads : arena[t].at = arena[u].at /\ arena[t] # NoArena => t = u
  /\ space = {arena[t].at : t \in {u \in Threads : arena[u] # NoArena}}

\* On every thread that no exception has taken out of a crossing, the slot
\* belongs to the innermost call to real code, each call keeps the one around
\* it, and all of them return to their own stack (hybrid.c:33-34).
SlotsFollow(s) ==
  \A i \in 1 .. Len(s) : s[i].kind = "real" => s[i].saved = SlotOwner(SubSeq(s, 1, i - 1))
SlotNests ==
  \A t \in Threads : ~torn[t] =>
    /\ ~lost[t]
    /\ SlotsFollow(calls[t])
    /\ tib[t] = SlotOwner(calls[t])

\* What hybrid.h:49-50 says of a call to real code, that it is reentrant: it
\* returns to the stack it was made from.  (An exception that leaves an inner
\* call and is caught inside an outer one breaks it.)
ReturnsHome == \A t \in Threads : ~lost[t]
=============================================================================
