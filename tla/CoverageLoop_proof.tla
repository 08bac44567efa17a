-------------------------- MODULE CoverageLoop_proof --------------------------
(***************************************************************************)
(* Proofs about CoverageLoop, for any program, any budget and whatever the *)
(* lifts, the builds and the runs do.                                      *)
(*                                                                         *)
(* What a driver says rests on what the harness that ran last leaves       *)
(* missing, which no lift changes, only a build.  What run.py lifts is new *)
(* because its build holds all that is lifted when it runs; which shows    *)
(* only when the build's harness is the one that runs.                     *)
(***************************************************************************)
EXTENDS CoverageLoop, FiniteSetTheorems, TLAPS

Typed == TypeOK /\ driver \in Drivers /\ reaches \in [Addresses -> SUBSET Addresses]

\* What the stops of the report name.
Named == {s.at : s \in seen.stop}

\* In a round of run.py whose harness is the one it built, the targets are not
\* lifted, and what it has lifted is new.
Own == driver = "run" /\ linked = built
Fresh ==
  /\ driver = "run" /\ phase \in {"run", "read"} => lifted = built
  /\ Own /\ phase = "lift" =>
       /\ todo \cap lifted = {}
       /\ ~got => lifted = built
       /\ got => lifted \ built # {}
  /\ Own /\ phase = "over" /\ result = "gave up" => lifted \ built # {}

\* What the report says of the harness that ran.
Excused ==
  \/ cut
  \/ Entry \notin linked
  \/ Missing = {}
  \/ Missing \cap Unreported # {}
Reported ==
  /\ phase = "read" /\ Targets = {} => Excused
  /\ phase = "read" /\ driver = "run" => Named \subseteq Missing
  /\ phase = "lift" /\ driver = "run" => Missing # {}
  /\ phase = "over" /\ result = "complete" => Excused
  /\ phase = "over" /\ result = "nothing lifted" => Missing # {}

\* A run that was cut names nothing, so that nothing follows it.
CutEnds ==
  cut => \/ phase = "read" /\ seen = Quiet
         \/ phase = "over" /\ result \in {"complete", "raised"}

\* The answer is there at the end only.
Unsaid == phase # "over" => result = "none"

IInv == Typed /\ Fresh /\ Reported /\ CutEnds /\ Unsaid

----------------------------------------------------------------------------

LEMMA DriverName == Typed => driver = "run" \/ driver = "script"
BY LoopAssumption DEF Typed

LEMMA MissingType == Missing \subseteq Addresses \ linked
BY DEF Missing, Frontier, Reached

\* What is missing depends on the program and on the harness alone.
LEMMA SameMissing ==
  ASSUME UNCHANGED <<reaches, linked>> PROVE Missing' = Missing
BY DEF Missing, Frontier, Reached

\* What a report can lack depends on the lifts too.
LEMMA SameUnreported ==
  ASSUME UNCHANGED <<driver, lifts, linked>> PROVE Unreported' = Unreported
BY DEF Unreported, Covered, Interior, lifts

\* Every address that is missing can stop the run.
LEMMA MissingStops ==
  ASSUME Entry \in linked, Stops(linked) = {} PROVE Missing = {}
<1> SUFFICES ASSUME NEW a \in Missing PROVE FALSE
  OBVIOUS
<1>1. a \in Frontier(linked) /\ a \in Addresses \ {Entry}
  BY MissingType DEF Missing
<1>2. PICK way \in Ways : a \in By(way)
  <2>1. CASE a \in Called
    BY <2>1 DEF Ways, By
  <2>2. CASE a \in Jumped
    BY <2>2 DEF Ways, By
  <2>3. CASE a \in Returned
    BY <2>3 DEF Ways, By
  <2> QED  BY <1>1, <2>1, <2>2, <2>3, LoopAssumption
<1>3. [at |-> a, by |-> way] \in Stops(linked)
  BY <1>1, <1>2 DEF Stops
<1> QED  BY <1>3

LEMMA InitInv == Init => IInv
<1> SUFFICES ASSUME Init PROVE IInv
  OBVIOUS
<1>1. Typed
  <2>1. reaches \in [Addresses -> SUBSET Addresses] /\ driver \in Drivers
    BY DEF Init
  <2>2. round \in 1 .. Rounds
    BY LoopAssumption DEF Init
  <2>3. linked \subseteq lifted /\ lifted \subseteq Addresses /\ built \subseteq lifted
    BY LoopAssumption DEF Init
  <2>4. seen \in [stop : SUBSET [at : Addresses, by : Ways], list : SUBSET Addresses]
    BY DEF Init, Quiet
  <2> QED  BY <2>1, <2>2, <2>3, <2>4 DEF Init, Typed, TypeOK, Answers
<1>2. Fresh /\ Reported /\ CutEnds /\ Unsaid
  <2>1. phase \in {"build", "run"} /\ (driver = "run" => phase = "build")
    BY DEF Init
  <2> QED  BY <2>1 DEF Init, Fresh, Own, Reported, CutEnds, Unsaid
<1> QED  BY <1>1, <1>2 DEF IInv

----------------------------------------------------------------------------
(* A run. *)

\* The report of a run of run.py, and what it means that it names no target.
LEMMA StoppingReport ==
  ASSUME Typed, Entry \in linked, driver = "run", StoppingRun,
         UNCHANGED <<driver, lifts, linked>>
  PROVE  /\ seen' \in [stop : SUBSET [at : Addresses, by : Ways], list : SUBSET Addresses]
         /\ Named' \subseteq Missing
         /\ Targets' = {} => Missing = {} \/ Missing \cap Unreported # {}
<1>1. Covered' = Covered
  BY DEF Covered, lifts
<1>2. CASE Stops(linked) = {}
  <2>1. seen' = [stop |-> {}, list |-> {}]
    BY <1>2 DEF StoppingRun, Report
  <2> QED  BY <1>2, <2>1, MissingStops DEF Named
<1>3. CASE Stops(linked) # {}
  <2>1. PICK s \in Stops(linked) :
          seen' = [stop |-> {s}, list |-> IF Recorded(s) THEN {s.at} ELSE {}]
    BY <1>3 DEF StoppingRun, Report
  <2>2. /\ s \in [at : Addresses, by : Ways] /\ s.at \in Missing
        /\ s.at \in By(s.by)
    BY MissingType DEF Stops, Missing
  <2>3. seen' \in [stop : SUBSET [at : Addresses, by : Ways], list : SUBSET Addresses]
    BY <2>1, <2>2
  <2>4. Named' \subseteq Missing
    BY <2>1, <2>2 DEF Named
  <2>5. ASSUME Targets' = {} PROVE Missing \cap Unreported # {}
    <3>1. MissingTargets' = {}
      BY <2>5 DEF Targets
    <3>2. s.by = "return" /\ s.at \in Covered'
      BY <2>1, <3>1 DEF MissingTargets
    <3>3. s.at \in Returned
      BY <2>2, <3>2 DEF By
    <3> QED  BY <1>1, <2>2, <3>2, <3>3 DEF Unreported
  <2> QED  BY <2>3, <2>4, <2>5
<1> QED  BY <1>2, <1>3

\* The report of a collecting run, likewise.
LEMMA CollectedReport ==
  ASSUME Typed, Entry \in linked, driver = "script", CollectingRun,
         UNCHANGED <<driver, lifts, linked>>
  PROVE  /\ seen' \in [stop : SUBSET [at : Addresses, by : Ways], list : SUBSET Addresses]
         /\ Targets' = {} => Missing = {} \/ Missing \cap Unreported # {}
<1>1. PICK list \in SUBSET Frontier(linked) :
        \/ /\ list = {} => Frontier(linked) = {}
           /\ Report({}, list)
        \/ \E s \in Stops(linked) :
             /\ IF Recorded(s)
                  THEN s.at \in list \/ Cardinality(list) = kMaxMissing
                  ELSE list \subseteq Called
             /\ Report({s}, list)
  BY DEF CollectingRun
<1>2. list \subseteq Addresses
  BY MissingType DEF Missing
<1>3. CASE (list = {} => Frontier(linked) = {}) /\ Report({}, list)
  BY <1>2, <1>3 DEF Report, Targets, Missing
<1>4. ASSUME NEW s \in Stops(linked), Report({s}, list),
             IF Recorded(s) THEN s.at \in list \/ Cardinality(list) = kMaxMissing
                            ELSE list \subseteq Called
      PROVE  /\ seen' \in [stop : SUBSET [at : Addresses, by : Ways], list : SUBSET Addresses]
             /\ Targets' = {} => Missing = {} \/ Missing \cap Unreported # {}
  <2>1. s \in [at : Addresses, by : Ways] /\ s.at \in Missing /\ s.at \in By(s.by)
    BY MissingType DEF Stops, Missing
  <2>2. seen' = [stop |-> {s}, list |-> list]
    BY <1>4 DEF Report
  <2>3. ASSUME Targets' = {} PROVE Missing \cap Unreported # {}
    <3>1. list = {}
      BY <2>2, <2>3 DEF Targets
    <3>2. ~Recorded(s)
      BY <1>4, <3>1, FS_EmptySet, LoopAssumption
    <3>3. s.at \in Jumped \cap Interior(linked)
      BY <2>1, <3>2 DEF Recorded, By
    <3> QED  BY <2>1, <3>3 DEF Unreported
  <2> QED  BY <1>2, <2>1, <2>2, <2>3
<1> QED  BY <1>1, <1>3, <1>4

LEMMA RunKeeps ==
  ASSUME IInv, Run PROVE IInv'
<1> USE DEF IInv
<1>1. /\ UNCHANGED <<program, lifts, harness, todo, got, round, result, cut>>
      /\ phase = "run" /\ phase' = "read"
  BY DEF Run
<1>2. /\ UNCHANGED <<reaches, driver, lifts, lifted, last, built, linked>>
      /\ Missing' = Missing /\ Unreported' = Unreported
  BY <1>1, SameMissing, SameUnreported DEF program, lifts, harness
<1>3. ~cut /\ ~cut'
  BY <1>1 DEF CutEnds
<1>4. /\ seen' \in [stop : SUBSET [at : Addresses, by : Ways], list : SUBSET Addresses]
      /\ driver = "run" => Named' \subseteq Missing
      /\ Targets' = {} => Excused
  <2>1. CASE Entry \notin linked
    <3>1. seen' = [stop |-> {}, list |-> {}]
      BY <2>1 DEF Run, Report
    <3> QED  BY <2>1, <3>1 DEF Named, Excused
  <2>2. CASE Entry \in linked /\ driver = "run"
    <3>1. StoppingRun
      BY <2>2 DEF Run
    <3> QED  BY <1>2, <2>2, <3>1, StoppingReport DEF Excused
  <2>3. CASE Entry \in linked /\ driver = "script"
    <3>1. CollectingRun
      BY <2>3 DEF Run
    <3> QED  BY <1>2, <2>3, <3>1, CollectedReport DEF Excused
  <2> QED  BY <2>1, <2>2, <2>3, DriverName
<1>5. Typed'
  BY <1>1, <1>2, <1>4 DEF Typed, TypeOK
<1>6. Fresh'
  BY <1>1, <1>2 DEF Fresh, Own
<1>7. Reported'
  BY <1>1, <1>2, <1>4 DEF Reported, Excused
<1>8. CutEnds' /\ Unsaid'
  BY <1>1, <1>3 DEF CutEnds, Unsaid
<1> QED  BY <1>5, <1>6, <1>7, <1>8

LEMMA NoHarnessKeeps ==
  ASSUME IInv, NoHarness PROVE IInv'
<1> USE DEF IInv
<1>1. /\ UNCHANGED <<reaches, driver, lifts, lifted, last, built, linked, seen, todo,
                     got, round, cut>>
      /\ phase = "run" /\ phase' = "over" /\ result' = "no harness"
  BY DEF NoHarness, End, program, lifts, harness
<1> QED
  BY <1>1 DEF Typed, TypeOK, Answers, Fresh, Own, Reported, CutEnds, Unsaid

LEMMA RunCutKeeps ==
  ASSUME IInv, RunCut PROVE IInv'
<1> USE DEF IInv
<1>1. /\ UNCHANGED <<reaches, driver, lifts, lifted, last, built, linked, todo, got, round>>
      /\ phase = "run" /\ cut' = TRUE
      /\ \/ phase' = "read" /\ seen' = Quiet /\ result' = result
         \/ phase' = "over" /\ result' = "raised" /\ seen' = seen
  BY DEF RunCut, End, Report, Quiet, program, lifts, harness
<1>2. Quiet \in [stop : SUBSET [at : Addresses, by : Ways], list : SUBSET Addresses]
  BY DEF Quiet
<1>3. Typed'
  BY <1>1, <1>2 DEF Typed, TypeOK, Answers
<1>4. Fresh'
  BY <1>1 DEF Fresh, Own
<1>5. seen' = Quiet => Named' = {}
  BY DEF Named, Quiet
<1>6. Reported' /\ CutEnds' /\ Unsaid'
  BY <1>1, <1>5 DEF Reported, Excused, CutEnds, Unsaid
<1> QED  BY <1>3, <1>4, <1>6

----------------------------------------------------------------------------
(* The rest of a round. *)

LEMMA CompleteKeeps ==
  ASSUME IInv, Complete PROVE IInv'
<1> USE DEF IInv
<1>1. /\ UNCHANGED <<reaches, driver, lifts, lifted, last, built, linked, seen, todo,
                     got, round, cut>>
      /\ phase = "read" /\ Targets = {} /\ phase' = "over" /\ result' = "complete"
  BY DEF Complete, End, program, lifts, harness
<1>2. Missing' = Missing /\ Unreported' = Unreported
  BY <1>1, SameMissing, SameUnreported
<1>3. Excused'
  BY <1>1, <1>2 DEF Reported, Excused
<1>4. Typed' /\ Fresh'
  BY <1>1 DEF Typed, TypeOK, Answers, Fresh, Own
<1> QED  BY <1>1, <1>3, <1>4 DEF Reported, CutEnds, Unsaid

\* What is to be lifted, for run.py, is missing from the harness that ran.
LEMMA TargetsType ==
  ASSUME IInv, phase = "read"
  PROVE  Targets \subseteq Addresses /\ (driver = "run" => Targets \subseteq Missing)
<1>1. Targets \subseteq Addresses
  BY DEF IInv, Typed, TypeOK, Targets, MissingTargets
<1>2. driver = "run" => Targets \subseteq Named
  BY DEF Targets, MissingTargets, Named
<1> QED  BY <1>1, <1>2 DEF IInv, Reported

LEMMA StartLiftingKeeps ==
  ASSUME IInv, StartLifting PROVE IInv'
<1> USE DEF IInv
<1>1. /\ UNCHANGED <<reaches, driver, lifts, lifted, last, built, linked, round, result, cut>>
      /\ phase = "read" /\ Targets # {} /\ phase' = "lift"
      /\ todo' = Targets /\ got' = FALSE /\ seen' = Quiet
  BY DEF StartLifting, program, lifts, harness
<1>2. Missing' = Missing
  BY <1>1, SameMissing
<1>3. Typed'
  BY <1>1, TargetsType DEF Typed, TypeOK, Quiet
<1>4. Fresh'
  <2>1. driver = "run" => lifted = built
    BY <1>1 DEF Fresh
  <2>2. Own => Targets \cap lifted = {}
    BY <1>1, <2>1, TargetsType, MissingType DEF Own
  <2> QED  BY <1>1, <2>1, <2>2 DEF Fresh, Own
<1>5. Reported'
  BY <1>1, <1>2, TargetsType DEF Reported
<1>6. ~cut
  <2>1. seen = Quiet => Targets = {}
    BY DEF Targets, MissingTargets, Quiet
  <2> QED  BY <1>1, <2>1 DEF CutEnds
<1> QED  BY <1>1, <1>3, <1>4, <1>5, <1>6 DEF CutEnds, Unsaid

LEMMA LiftOneKeeps ==
  ASSUME IInv, LiftOne PROVE IInv'
<1> USE DEF IInv
<1>1. /\ UNCHANGED <<reaches, driver, built, linked, seen, phase, round, result, cut>>
      /\ phase = "lift"
  BY DEF LiftOne, program, harness
<1>2. Missing' = Missing
  BY <1>1, SameMissing
<1>3. PICK a \in todo :
        /\ todo' = todo \ {a}
        /\ \/ /\ lifted' = lifted \cup {a}
              /\ \E b \in Lasts(a) :
                   last' = [x \in lifted \cup {a} |-> IF x = a THEN b ELSE last[x]]
              /\ got' = TRUE
           \/ UNCHANGED <<lifts, got>>
  BY DEF LiftOne
<1>4. a \in Addresses
  BY DEF Typed, TypeOK
<1>5. CASE UNCHANGED <<lifts, got>>
  <2>1. Typed' /\ Fresh'
    BY <1>1, <1>3, <1>5 DEF Typed, TypeOK, Fresh, Own, lifts
  <2> QED  BY <1>1, <1>2, <2>1 DEF Reported, CutEnds, Unsaid
<1>6. ASSUME NEW b \in Lasts(a), lifted' = lifted \cup {a}, got' = TRUE,
             last' = [x \in lifted \cup {a} |-> IF x = a THEN b ELSE last[x]]
      PROVE  IInv'
  <2>1. last' \in [lifted' -> Addresses]
    BY <1>6 DEF Typed, TypeOK, Lasts
  <2>2. Typed'
    BY <1>1, <1>3, <1>4, <1>6, <2>1 DEF Typed, TypeOK
  <2>3. Fresh'
    <3>1. Own => a \notin lifted
      BY <1>1 DEF Fresh
    <3>2. Own => a \notin built
      BY <3>1 DEF Typed, TypeOK
    <3> QED  BY <1>1, <1>3, <1>6, <3>2 DEF Fresh, Own
  <2> QED  BY <1>1, <1>2, <2>2, <2>3 DEF Reported, CutEnds, Unsaid
<1> QED  BY <1>3, <1>5, <1>6

\* What the next round starts with.
LEMMA NextRoundGives ==
  ASSUME Typed, NextRound
  PROVE  \/ phase' = "over" /\ result' = "gave up" /\ round' = round
         \/ /\ round' \in 1 .. Rounds /\ result' = result
            /\ phase' = IF driver = "run" THEN "build" ELSE "run"
<1>1. round \in Nat /\ Rounds \in Nat /\ 1 <= round /\ round <= Rounds
  BY LoopAssumption DEF Typed, TypeOK
<1>2. CASE round = Rounds
  BY <1>2 DEF NextRound, End
<1>3. CASE round # Rounds
  <2>1. round' = round + 1
    BY <1>3 DEF NextRound
  <2>2. round' \in 1 .. Rounds
    BY <1>1, <1>3, <2>1
  <2> QED  BY <1>3, <2>1, <2>2 DEF NextRound
<1> QED  BY <1>2, <1>3

LEMMA RunLiftedKeeps ==
  ASSUME IInv, RunLifted PROVE IInv'
<1> USE DEF IInv
<1>1. /\ UNCHANGED <<reaches, driver, lifts, lifted, last, built, linked, seen, todo,
                     got, cut>>
      /\ phase = "lift" /\ driver = "run"
  BY DEF RunLifted, program, lifts, harness
<1>2. Missing' = Missing /\ Missing # {} /\ ~cut
  BY <1>1, SameMissing DEF Reported, CutEnds
<1>3. CASE ~got
  <2>1. phase' = "over" /\ result' = "nothing lifted" /\ round' = round
    BY <1>3 DEF RunLifted, End
  <2> QED
    BY <1>1, <1>2, <2>1 DEF Typed, TypeOK, Answers, Fresh, Own, Reported, CutEnds, Unsaid
<1>4. CASE got
  <2>1. \/ phase' = "over" /\ result' = "gave up" /\ round' = round
        \/ round' \in 1 .. Rounds /\ result' = result /\ phase' = "build"
    BY <1>1, <1>4, NextRoundGives DEF RunLifted
  <2>2. Typed'
    BY <1>1, <2>1 DEF Typed, TypeOK, Answers
  <2>3. Fresh'
    BY <1>1, <1>4, <2>1 DEF Fresh, Own
  <2> QED  BY <1>1, <1>2, <2>1, <2>2, <2>3 DEF Reported, CutEnds, Unsaid
<1> QED  BY <1>3, <1>4

LEMMA ScriptLiftedKeeps ==
  ASSUME IInv, ScriptLifted PROVE IInv'
<1>1. /\ UNCHANGED <<reaches, driver, lifts, lifted, last, built, linked, seen, todo,
                     got, round, result, cut>>
      /\ phase = "lift" /\ driver = "script" /\ phase' = "build"
  BY DEF ScriptLifted, program, lifts, harness
<1> QED
  BY <1>1 DEF IInv, Typed, TypeOK, Fresh, Own, Reported, CutEnds, Unsaid

LEMMA BuildKeeps ==
  ASSUME IInv, Build PROVE IInv'
<1> USE DEF IInv
<1>1. /\ UNCHANGED <<reaches, driver, lifts, lifted, last, seen, todo, got, cut>>
      /\ phase = "build" /\ built' = lifted
      /\ linked' \subseteq lifted
  BY DEF Build, program, lifts, Typed, TypeOK
<1>2. ~cut
  BY <1>1 DEF CutEnds
<1>3. CASE driver = "run"
  <2>1. phase' = "run" /\ round' = round /\ result' = result
    BY <1>3 DEF Build
  <2>2. Typed' /\ Fresh'
    BY <1>1, <1>3, <2>1 DEF Typed, TypeOK, Fresh, Own
  <2> QED  BY <1>1, <1>2, <2>1, <2>2 DEF Reported, CutEnds, Unsaid
<1>4. CASE driver # "run"
  <2>1. \/ phase' = "over" /\ result' = "gave up" /\ round' = round
        \/ round' \in 1 .. Rounds /\ result' = result /\ phase' = "run"
    BY <1>4, NextRoundGives DEF Build
  <2>2. Typed' /\ Fresh'
    BY <1>1, <1>4, <2>1 DEF Typed, TypeOK, Answers, Fresh, Own
  <2> QED  BY <1>1, <1>2, <2>1, <2>2 DEF Reported, CutEnds, Unsaid
<1> QED  BY <1>3, <1>4

LEMMA BuildFailsKeeps ==
  ASSUME IInv, BuildFails PROVE IInv'
<1> USE DEF IInv
<1>1. /\ UNCHANGED <<reaches, driver, lifts, lifted, last, built, linked, seen, todo,
                     got, round, cut>>
      /\ phase = "build" /\ phase' = "over" /\ result' = "no build"
  BY DEF BuildFails, End, program, lifts, harness
<1> QED
  BY <1>1 DEF Typed, TypeOK, Answers, Fresh, Own, Reported, CutEnds, Unsaid

LEMMA StillKeeps ==
  ASSUME IInv, UNCHANGED vars PROVE IInv'
<1>1. Missing' = Missing /\ Unreported' = Unreported
  BY SameMissing, SameUnreported DEF vars, program, harness
<1>2. Targets' = Targets /\ Named' = Named
  BY DEF vars, program, lifts, Targets, MissingTargets, Named, Covered
<1> QED
  BY <1>1, <1>2 DEF IInv, vars, program, lifts, harness, Typed, TypeOK, Fresh, Own,
                    Reported, Excused, CutEnds, Unsaid

LEMMA NextInv == IInv /\ [Next]_vars => IInv'
<1> SUFFICES ASSUME IInv, [Next]_vars PROVE IInv'
  OBVIOUS
<1>1. CASE Run           BY <1>1, RunKeeps
<1>2. CASE NoHarness     BY <1>2, NoHarnessKeeps
<1>3. CASE RunCut        BY <1>3, RunCutKeeps
<1>4. CASE Complete      BY <1>4, CompleteKeeps
<1>5. CASE StartLifting  BY <1>5, StartLiftingKeeps
<1>6. CASE LiftOne       BY <1>6, LiftOneKeeps
<1>7. CASE RunLifted     BY <1>7, RunLiftedKeeps
<1>8. CASE ScriptLifted  BY <1>8, ScriptLiftedKeeps
<1>9. CASE Build         BY <1>9, BuildKeeps
<1>10. CASE BuildFails   BY <1>10, BuildFailsKeeps
<1>11. CASE UNCHANGED vars
  BY <1>11, StillKeeps
<1> QED
  BY <1>1, <1>2, <1>3, <1>4, <1>5, <1>6, <1>7, <1>8, <1>9, <1>10, <1>11 DEF Next, Over

LEMMA AlwaysIInv == Spec => []IInv
BY InitInv, NextInv, PTL DEF Spec

----------------------------------------------------------------------------
(* The theorems. *)

\* For any program and budget, whatever the lifts, the builds and the runs do:
\* what a driver says when it ends is so, but for what a report can lack, and no
\* round follows a run that was cut (run.py:155-164, lift-until-complete.sh:36-39).
THEOREM AnswerHoldsAlways == Spec => []AnswerHolds
<1>1. IInv => AnswerHolds
  BY DEF IInv, Reported, Excused, Fresh, Own, CutEnds, AnswerHolds
<1> QED  BY <1>1, AlwaysIInv, PTL

\* A round of run.py that another follows has lifted something that its build
\* did not have, if its harness was the one it built (run.py:158-160).
THEOREM EachRoundAddsAlways == Spec => EachRoundAdds
<1>1. IInv /\ [Next]_vars => [linked = built => Progress]_vars
  <2> SUFFICES ASSUME IInv, Next, driver = "run", linked = built, round' # round
               PROVE  lifted \ built # {}
    BY DEF Progress
  <2>1. RunLifted /\ got
    BY DEF Next, Run, NoHarness, RunCut, Complete, StartLifting, LiftOne, RunLifted,
           ScriptLifted, Build, BuildFails, Over, vars
  <2> QED  BY <2>1 DEF IInv, Fresh, Own, RunLifted
<1> QED  BY <1>1, AlwaysIInv, PTL DEF Spec, EachRoundAdds

\* The drivers' state stays in its types, the harness within what is lifted and
\* the rounds within the budget (run.py:146, lift-until-complete.sh:23).
THEOREM TypeOKAlways == Spec => []TypeOK
<1>1. IInv => TypeOK
  BY DEF IInv, Typed
<1> QED  BY <1>1, AlwaysIInv, PTL
=============================================================================
