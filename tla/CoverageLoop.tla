---------------------------- MODULE CoverageLoop ----------------------------
(***************************************************************************)
(* The two drivers that lift a program by running it: a round runs the     *)
(* harness, reads from its report which addresses were missing, lifts them *)
(* and builds the harness again.                                           *)
(*                                                                         *)
(*   "run"     tools/linux64/run.py: a run stops at the first missing      *)
(*             address, which its stop line names                          *)
(*   "script"  scripts/lift-until-complete.sh: a collecting run goes on    *)
(*             past what is missing and lists it in "unresolved" lines     *)
(*                                                                         *)
(* The program is a graph: running the code at an address leads to others. *)
(* What a run makes of one that is not lifted depends, as in Dispatch, on  *)
(* the way it came there: by a call (or a jump through a register), by a   *)
(* jump out of the lifted range, or by a return.                           *)
(***************************************************************************)
EXTENDS Naturals, FiniteSets

CONSTANTS
  Addresses,
  Entry,                     \* where the program starts
  Called, Jumped, Returned,  \* what a run may come to in each of the ways
  Given,                     \* what may be lifted before the driver starts
  Longest,                   \* bound: how far a lift's range goes
  Drivers,                   \* a subset of {"run", "script"}
  kMaxMissing,
  Rounds                     \* the budget: --rounds, or the script's 40

ASSUME LoopAssumption ==
  /\ Addresses \subseteq Nat /\ IsFiniteSet(Addresses)
  /\ Entry \in Addresses
  /\ Called \cup Jumped \cup Returned = Addresses \ {Entry}
  /\ Given \subseteq Addresses
  /\ Longest \in Nat
  /\ Drivers \subseteq {"run", "script"}
  /\ kMaxMissing \in Nat \ {0}
  /\ Rounds \in Nat \ {0}

VARIABLES
  reaches,             \* the program
  driver,
  flavour,             \* the harness run: "native" or "winelib"
  lifted,              \* the addresses with a manifest
  last,                \* lifted address -> the last one in its manifest's range
  built,               \* what was lifted when the build was last made
  linked,              \* what is in the harness that is run; {} is no harness
  seen,                \* the latest report: its stop and its list
  todo, got,           \* what is still to lift this round, whether any was
  phase, round,
  result,              \* what the driver says in the end
  cut                  \* some run ended for a reason that names no address

program == <<reaches, driver, flavour>>
lifts == <<lifted, last>>
harness == <<built, linked>>
vars == <<program, lifts, harness, seen, todo, got, phase, round, result, cut>>

----------------------------------------------------------------------------
(* A run. *)

\* What a run enters when L is linked: the entry, and what linked code leads to.
Reached(L) ==
  {a \in Addresses :
     \A S \in SUBSET Addresses :
       Entry \in S /\ (\A b \in S \cap L : reaches[b] \subseteq S) => a \in S}
Frontier(L) == Reached(L) \ L

\* The ways a run can come to an address that is missing.
Ways == {"call", "jump", "return"}
By(way) == CASE way = "call" -> Called [] way = "jump" -> Jumped
             [] way = "return" -> Returned
Stops(L) == {s \in [at : Frontier(L), by : Ways] : s.at \in By(s.by)}

\* The middle of a lifted function, for the runtime: between two entries.
Interior(L) ==
  {a \in Addresses \ L : (\E b \in L : b < a) /\ (\E c \in L : a < c)}

\* A jump into the middle of a lifted function is in no list.
Recorded(s) == ~(s.by = "jump" /\ s.at \in Interior(linked))

Quiet == [stop |-> {}, list |-> {}]
Report(stop, list) == seen' = [stop |-> stop, list |-> list]

\* A run that stops at the first address it misses.
StoppingRun ==
  IF Stops(linked) = {}
    THEN Report({}, {})
    ELSE \E s \in Stops(linked) :
           Report({s}, IF Recorded(s) THEN {s.at} ELSE {})

\* A collecting run skips what is called, as far as the list goes, to its end
\* or to a jump or a return, which stop it.
CollectingRun ==
  \E list \in SUBSET Frontier(linked) :
    /\ Cardinality(list) <= kMaxMissing
    /\ \/ /\ list \subseteq Called
          /\ list = {} => Frontier(linked) = {}
          /\ Report({}, list)
       \/ \E s \in Stops(linked) :
            /\ s.by # "call"
            /\ list \subseteq Called \cup {s.at}
            /\ IF Recorded(s)
                 THEN s.at \in list \/ Cardinality(list) = kMaxMissing
                 ELSE list \subseteq Called
            /\ Report({s}, list)

End(said) ==
  /\ phase' = "over"
  /\ result' = said

\* run_once; the script's timeout 900 "$HARNESS".  A harness without the entry
\* says so in a line that no driver looks for.
Run ==
  /\ phase = "run"
  /\ linked # {}
  /\ phase' = "read"
  /\ CASE Entry \notin linked -> Report({}, {})
       [] Entry \in linked /\ driver = "run" -> StoppingRun
       [] Entry \in linked /\ driver = "script" -> CollectingRun
  /\ UNCHANGED <<program, lifts, harness, todo, got, round, result, cut>>

\* run.py has no harness to run.
NoHarness ==
  /\ phase = "run"
  /\ linked = {}
  /\ driver = "run"
  /\ End("no harness")
  /\ UNCHANGED <<program, lifts, harness, seen, todo, got, round, cut>>

\* A run that crashes, exceeds its time, or stops for a reason that names no
\* address; for the script also one without a harness.  run_once of a run that
\* exceeds its time gives "", or joins text with bytes and raises.
RunCut ==
  /\ phase = "run"
  /\ driver = "run" => linked # {}
  /\ cut' = TRUE
  /\ \/ /\ phase' = "read"
        /\ Report({}, {})
        /\ UNCHANGED result
     \/ /\ driver = "run"
        /\ End("raised")
        /\ UNCHANGED seen
  /\ UNCHANGED <<program, lifts, harness, todo, got, round>>

----------------------------------------------------------------------------
(* The rest of a round. *)

\* lifted_ranges: what the manifests cover.
Covered == {b \in Addresses : \E a \in lifted : a <= b /\ b <= last[a]}

\* A bug: an address in a lifted range is passed over however it was reached.
MissingTargets_range_bug == {s.at : s \in {t \in seen.stop : t.at \notin Covered}}

\* missing_targets: what the stop line names, unless it is a return into the
\* range of a lifted function.
MissingTargets ==
  {s.at : s \in {t \in seen.stop : ~(t.by = "return" /\ t.at \in Covered)}}

\* The script's rg for "unresolved".
Targets == IF driver = "run" THEN MissingTargets ELSE seen.list

\* Nothing is missing: the driver is done.
Complete ==
  /\ phase = "read"
  /\ Targets = {}
  /\ End("complete")
  /\ UNCHANGED <<program, lifts, harness, seen, todo, got, round, cut>>

StartLifting ==
  /\ phase = "read"
  /\ Targets # {}
  /\ phase' = "lift"
  /\ todo' = Targets
  /\ got' = FALSE
  /\ seen' = Quiet
  /\ UNCHANGED <<program, lifts, harness, round, result, cut>>

\* Where the range of a lift at a can end.
Lasts(a) == {b \in Addresses : a <= b /\ b <= a + Longest}

\* lift --function a --extend-to-next, which may fail.
LiftOne ==
  /\ phase = "lift"
  /\ \E a \in todo :
       /\ todo' = todo \ {a}
       /\ \/ /\ lifted' = lifted \cup {a}
             /\ \E b \in Lasts(a) :
                  last' = [x \in lifted \cup {a} |-> IF x = a THEN b ELSE last[x]]
             /\ got' = TRUE
          \/ UNCHANGED <<lifts, got>>
  /\ UNCHANGED <<program, harness, seen, phase, round, result, cut>>

\* A bug: the rounds are not counted.
NextRound_uncounted_bug ==
  /\ phase' = IF driver = "run" THEN "build" ELSE "run"
  /\ UNCHANGED <<round, result>>

NextRound ==
  IF round = Rounds
    THEN End("gave up") /\ UNCHANGED round
    ELSE /\ phase' = IF driver = "run" THEN "build" ELSE "run"
         /\ round' = round + 1
         /\ UNCHANGED result

\* A bug: run.py goes on when nothing was lifted.
RunLifted_bug ==
  /\ phase = "lift"
  /\ todo = {}
  /\ driver = "run"
  /\ NextRound
  /\ UNCHANGED <<program, lifts, harness, seen, todo, got, cut>>

\* run.py stops when nothing could be lifted.
RunLifted ==
  /\ phase = "lift"
  /\ todo = {}
  /\ driver = "run"
  /\ IF ~got THEN End("nothing lifted") /\ UNCHANGED round ELSE NextRound
  /\ UNCHANGED <<program, lifts, harness, seen, todo, got, cut>>

\* The script builds whatever came of the lifts.
ScriptLifted ==
  /\ phase = "lift"
  /\ todo = {}
  /\ driver = "script"
  /\ phase' = "build"
  /\ UNCHANGED <<program, lifts, harness, seen, todo, got, round, result, cut>>

\* build-lifted-harness.sh stops, over no manifest, a manifest or an IR it cannot
\* use, or a compiler's error: both drivers stop.
BuildFails ==
  /\ phase = "build"
  /\ End("no build")
  /\ UNCHANGED <<program, lifts, harness, seen, todo, got, round, cut>>

\* run.py builds before it runs, the script at the end of its round.  Without a
\* winegcc, or when its link fails, the build is a success that leaves the
\* winelib harness as it was.
Build ==
  /\ phase = "build"
  /\ lifted # {}
  /\ built' = lifted
  /\ linked' \in {lifted} \cup IF flavour = "winelib" THEN {linked} ELSE {}
  /\ IF driver = "run" THEN phase' = "run" /\ UNCHANGED <<round, result>>
                       ELSE NextRound
  /\ UNCHANGED <<program, lifts, seen, todo, got, cut>>

Over == phase = "over" /\ UNCHANGED vars

----------------------------------------------------------------------------

\* A harness of an earlier day may be there, of some of what is lifted by now.
Init ==
  /\ reaches \in [Addresses -> SUBSET (Addresses \ {Entry})]
  /\ \A a \in Addresses : a \notin reaches[a]
  /\ driver \in Drivers
  /\ flavour \in IF driver = "run" THEN {"native", "winelib"} ELSE {"winelib"}
  /\ lifted \in SUBSET Given
  /\ last \in [lifted -> Addresses]
  /\ \A a \in lifted : last[a] \in Lasts(a)
  /\ linked \in SUBSET lifted
  /\ built = linked
  /\ seen = Quiet
  /\ todo = {} /\ got = FALSE
  /\ phase = IF driver = "run" THEN "build" ELSE "run"
  /\ round = 1
  /\ result = "none"
  /\ cut = FALSE

Next ==
  \/ Run \/ NoHarness \/ RunCut \/ Complete \/ StartLifting \/ LiftOne
  \/ RunLifted \/ ScriptLifted \/ Build \/ BuildFails \/ Over
Spec == Init /\ [][Next]_vars /\ WF_vars(Next)

----------------------------------------------------------------------------
(* Properties. *)

Answers == {"none", "complete", "gave up", "nothing lifted", "no build",
            "no harness", "raised"}
TypeOK ==
  /\ lifted \subseteq Addresses /\ linked \subseteq lifted
  /\ built \subseteq lifted
  /\ last \in [lifted -> Addresses]
  /\ seen \in [stop : SUBSET [at : Addresses, by : Ways], list : SUBSET Addresses]
  /\ todo \subseteq Addresses /\ got \in BOOLEAN
  /\ phase \in {"build", "run", "read", "lift", "over"}
  /\ round \in 1 .. Rounds
  /\ result \in Answers

\* A round of run.py that is followed by another has lifted something that was
\* not in its build.
Progress == driver = "run" /\ round' # round => lifted \ built # {}

\* run.py never repeats a round while the harness it runs is the one it has
\* built: the loop cannot spin on what it cannot lift (run.py:158-160).
EachRoundAdds == [][linked = built => Progress]_vars

\* What the last run of a driver could have found missing.
Missing == Frontier(linked)

\* What the driver says in the end is so of the program and of the harness that
\* ran last.  "complete" is said when nothing is missing; of what is missing a
\* report can lack only a return into a lifted range (run.py:42-45, 88-93), for
\* the script a jump between two entries, or everything, when the run was cut or
\* the entry is not in the harness.  A run that was cut is the last one.  When
\* run.py finds that nothing could be lifted, something was missing, and when its
\* budget ends, the last round still went forward (run.py:155-164).
Unreported == IF driver = "run" THEN Returned \cap Covered
                                ELSE Jumped \cap Interior(linked)
AnswerHolds ==
  phase = "over" =>
    /\ result = "complete" =>
         \/ cut
         \/ Entry \notin linked
         \/ Missing = {}
         \/ Missing \cap Unreported # {}
    /\ cut => result \in {"complete", "raised"}
    /\ result = "nothing lifted" => Missing # {}
    /\ result = "gave up" /\ driver = "run" /\ linked = built =>
         lifted \ built # {}

\* The drivers come to an end, whatever the lifts give (run.py:146,
\* lift-until-complete.sh:23).
Ends == <>(phase = "over")

\* What both drivers say when they are done (lift-until-complete.sh:37,
\* run.py:156).
CompleteMeansCovered == result = "complete" => Missing = {}
=============================================================================
