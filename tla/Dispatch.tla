------------------------------ MODULE Dispatch ------------------------------
(***************************************************************************)
(* The control-flow boundary of runtime/linux64/lifted_runtime.cpp: how    *)
(* calls, jumps and returns of lifted code are carried out on the C stack, *)
(* and where a run stops.                                                  *)
(*                                                                         *)
(* The guest is any program over a few functions.  A function is entered   *)
(* at its address, and resumes at its one return point after every call it *)
(* makes; at either place it may return, call, jump or fault.  stack is    *)
(* the guest's stack of return addresses (the bottom one is the harness's  *)
(* slot, Home) and gpc the address the guest itself has reached: what a    *)
(* processor's pc would be.                                                *)
(*                                                                         *)
(* host is the C stack: one record per active trace_once, the newest last. *)
(* body lists the lifted functions that are active inside the trace: its   *)
(* own first, then the ones called directly, each at the address where it  *)
(* is or will resume.  why names the caller of the trace's dispatch_from.  *)
(***************************************************************************)
EXTENDS Naturals, FiniteSets, SequencesExt

CONSTANTS
  Functions,         \* entry addresses of the guest's functions
  ReturnPoint,       \* function -> the address its calls return to
  Lifted,            \* the addresses of the dispatch table
  ThunkImports,      \* imports the runtime answers itself
  HostImports,       \* imports the host answers
  Home,              \* the return address in the harness's stack slot
  kMaxDispatchDepth,
  kMaxDirectDepth,
  kMaxMissing,
  MaxStack,          \* bound: return addresses on the guest's stack
  MaxBody            \* bound: functions active at once in one trace

Points == Functions \cup {ReturnPoint[f] : f \in Functions}
Imports == ThunkImports \cup HostImports

ASSUME DispatchAssumption ==
  /\ ReturnPoint \in [Functions -> Nat]
  /\ Functions \subseteq Nat
  /\ \A f \in Functions : ReturnPoint[f] \notin Functions
  /\ Home \in Nat
  /\ Home \notin Points
  /\ Lifted \subseteq Points
  /\ Imports \cap Points = {}
  /\ kMaxDispatchDepth \in Nat \ {0}
  /\ kMaxDirectDepth \in Nat
  /\ kMaxMissing \in Nat
  /\ MaxStack \in Nat
  /\ MaxBody \in Nat

VARIABLES
  stack, gpc,              \* the guest
  host,                    \* the C stack
  back,                    \* the caller a dispatch_from is returning to;
                           \* "none" while lifted code runs
  g_reason, g_stop_pc,     \* the stop state
  g_depth,
  saved,                   \* g_saved_stop[0 .. g_saved_depth - 1]
  g_missing_targets,
  g_skip_missing           \* the run was started with --skip-missing

guest == <<stack, gpc>>
stop == <<g_reason, g_stop_pc>>
vars == <<guest, host, back, stop, g_depth, saved, g_missing_targets,
          g_skip_missing>>

Reasons == {"returned", "error", "call", "jump", "missing-dispatch",
            "missing-block"}

----------------------------------------------------------------------------
(* The running function. *)

Body == Last(host).body
Here == Last(Body)
DirectlyCalled == Len(Body) > 1

\* Where function code that is at a goes on after a call.
After(a) == IF a \in Functions THEN ReturnPoint[a] ELSE a

\* The C stack with the running function waiting for a call to come back.
Waiting ==
  [host EXCEPT ![Len(host)].body = Append(Front(Body), After(Here))]

\* The runtime's idea of the middle of a lifted function: an address that is no
\* entry but lies between two of the table.
lifted_containing(a) ==
  /\ a \notin Lifted
  /\ \E l \in Lifted : l < a
  /\ \E l \in Lifted : l > a

\* A bug: one too many.
record_missing_bug(a) ==
  g_missing_targets' =
    IF Cardinality(g_missing_targets) <= kMaxMissing
      THEN g_missing_targets \cup {a}
      ELSE g_missing_targets

record_missing(a) ==
  g_missing_targets' =
    IF Cardinality(g_missing_targets) < kMaxMissing
      THEN g_missing_targets \cup {a}
      ELSE g_missing_targets

----------------------------------------------------------------------------
(* Starting and ending traces. *)

SetStop(reason, a) == g_reason' = reason /\ g_stop_pc' = a

\* trace_once at a: the stop state starts afresh.
BeginTrace(h, a, why) ==
  /\ host' = Append(h, [why |-> why, body |-> <<a>>])
  /\ back' = "none"
  /\ SetStop("returned", Home)
  /\ g_depth' = g_depth + 1

\* A bug: one trace too deep.
Dispatch_bug(h, a, why) ==
  IF g_depth > kMaxDispatchDepth
    THEN host' = h /\ back' = why /\ SetStop("error", a) /\ UNCHANGED g_depth
    ELSE BeginTrace(h, a, why)

\* dispatch_from of a lifted address, called on C stack h.
Dispatch(h, a, why) ==
  IF g_depth >= kMaxDispatchDepth
    THEN /\ host' = h
         /\ back' = why
         /\ SetStop("error", a)
         /\ UNCHANGED g_depth
    ELSE BeginTrace(h, a, why)

\* The innermost trace is over, because its function returned or because halt
\* jumped to it over whatever the function had called directly.
EndTrace(reason, a) ==
  /\ host' = Front(host)
  /\ back' = Last(host).why
  /\ SetStop(reason, a)
  /\ g_depth' = g_depth - 1

halt(reason, a) == EndTrace(reason, a) /\ UNCHANGED saved

\* Bugs: a return ends the trace over the functions that wait in it; a return
\* ends no trace; the wrapper restores no stop state.
FunctionReturns_over_bug(reason, a) == EndTrace(reason, a) /\ UNCHANGED saved
FunctionReturns_within_bug(reason, a) ==
  /\ host' = [host EXCEPT ![Len(host)].body = Front(Body)]
  /\ back' = "none"
  /\ SetStop(reason, a)
  /\ UNCHANGED <<g_depth, saved>>
FunctionReturns_stale_bug(reason, a) ==
  IF DirectlyCalled
    THEN /\ FunctionReturns_within_bug(reason, a)
    ELSE EndTrace(reason, a) /\ UNCHANGED saved

\* The running function's C code returns, with the stop state as given.  The
\* wrapper of a directly called function puts back the stop state it saved.
FunctionReturns(reason, a) ==
  IF DirectlyCalled
    THEN /\ host' = [host EXCEPT ![Len(host)].body = Front(Body)]
         /\ IF saved = <<>>
              THEN SetStop(reason, a) /\ UNCHANGED saved
              ELSE /\ SetStop(Last(saved).reason, Last(saved).pc)
                   /\ saved' = Front(saved)
         /\ back' = "none"
         /\ UNCHANGED g_depth
    ELSE EndTrace(reason, a) /\ UNCHANGED saved

\* lifted_trace_enter
SaveStop ==
  saved' = IF Len(saved) < kMaxDirectDepth
             THEN Append(saved, [reason |-> g_reason, pc |-> g_stop_pc])
             ELSE saved

----------------------------------------------------------------------------
(* The guest's side of a transfer of control. *)

Running == back = "none"

Push(target) ==
  /\ Len(stack) < MaxStack
  /\ stack' = Append(stack, After(Here))
  /\ gpc' = target

Pop == stack # <<>> /\ stack' = Front(stack) /\ gpc' = Last(stack)

Go(target) == gpc' = target /\ UNCHANGED stack

----------------------------------------------------------------------------
(* The guest's steps. *)

\* lifted_run_dispatched(entry): the first dispatch_from.
Start ==
  /\ back = "start"
  /\ UNCHANGED saved
  /\ IF gpc \in Lifted
       THEN /\ BeginTrace(host, gpc, "top")
            /\ UNCHANGED <<guest, g_missing_targets>>
       ELSE /\ record_missing(gpc)
            /\ back' = "top"
            /\ UNCHANGED <<host, g_depth>>
            /\ IF g_skip_missing
                 THEN Pop /\ SetStop("error", Home)
                 ELSE UNCHANGED guest /\ SetStop("missing-dispatch", gpc)

\* ret: __remill_function_return, then the function's own C return.
Ret ==
  /\ Running
  /\ Pop
  /\ FunctionReturns("returned", Last(stack))
  /\ UNCHANGED g_missing_targets

\* A call of a lifted function by symbol, through its wrapper.
DirectCall(f) ==
  /\ Running
  /\ f \in Lifted
  /\ Len(Body) < MaxBody
  /\ Push(f)
  /\ SaveStop
  /\ host' = [Waiting EXCEPT ![Len(host)].body = Append(@, f)]
  /\ UNCHANGED <<back, stop, g_depth, g_missing_targets>>

\* Control is where a function that returned at once would have left it, on
\* C stack h: a nested dispatch when that address is lifted, else the code
\* after the skipped transfer (resumed by Otherwise).
SkipTo(h, a, why, Otherwise) ==
  IF a # Home /\ a \in Lifted
    THEN Dispatch(h, a, why) /\ UNCHANGED saved
    ELSE Otherwise

\* A bug: a skipped call leaves its return address on the guest's stack.
MissingCall_bug(f, reason) ==
  /\ Running
  /\ f \notin Lifted
  /\ g_skip_missing
  /\ record_missing(f)
  /\ Push(After(Here))
  /\ host' = Waiting
  /\ SetStop("error", Home)
  /\ UNCHANGED <<back, g_depth, saved>>

\* A call of a function nobody lifted: lifted_missing_function when it is made
\* by symbol, __remill_function_call's second case when it is not.
MissingCall(f, reason) ==
  /\ Running
  /\ f \notin Lifted
  /\ record_missing(f)
  /\ IF g_skip_missing
       THEN /\ gpc' = After(Here)
            /\ UNCHANGED stack
            /\ SkipTo(Waiting, After(Here), "call",
                      /\ host' = Waiting
                      /\ SetStop("error", Home)
                      /\ UNCHANGED <<back, g_depth, saved>>)
       ELSE /\ Push(f)
            /\ halt(reason, f)

\* call through a register or memory: __remill_function_call.
IndirectCall(f) ==
  /\ Running
  /\ f \in Lifted
  /\ Push(f)
  /\ Dispatch(Waiting, f, "call")
  /\ UNCHANGED <<saved, g_missing_targets>>

\* call of an import.  The import pops what the call pushed.
ImportCall ==
  /\ Running
  /\ Imports # {}
  /\ Go(After(Here))
  /\ host' = Waiting
  /\ SetStop("error", Home)
  /\ UNCHANGED <<back, g_depth, saved, g_missing_targets>>

\* jmp to lifted code outside the function: __remill_jump when the target is
\* computed, __remill_missing_block when it is not.
TailJump(a) ==
  /\ Running
  /\ a \in Lifted
  /\ Go(a)
  /\ Dispatch(host, a, "jump")
  /\ UNCHANGED <<saved, g_missing_targets>>

\* jmp to an import.  Its return is the function's return: to lifted code by
\* a nested dispatch, to anything else as the end of the trace, at the address
\* the host's import left in g_stop_pc (the runtime's own thunks leave none).
ImportJump(i) ==
  /\ Running
  /\ i \in Imports
  /\ Pop
  /\ IF Last(stack) # Home /\ Last(stack) \in Lifted
       THEN Dispatch(host, Last(stack), "jump") /\ UNCHANGED saved
       ELSE halt("returned", IF i \in HostImports THEN Last(stack)
                                                   ELSE g_stop_pc)
  /\ UNCHANGED g_missing_targets

\* A computed jmp to an address that is not in the table.
MissingJump(a) ==
  /\ Running
  /\ a \notin Lifted
  /\ record_missing(a)
  /\ IF g_skip_missing
       THEN /\ Pop
            /\ SkipTo(host, Last(stack), "skipped jump",
                      FunctionReturns("error", Home))
       ELSE Go(a) /\ halt("jump", a)

\* A jmp the lifter could see, to an address that is not in the table.
MissingBlock(a) ==
  /\ Running
  /\ a \notin Lifted
  /\ Go(a)
  /\ halt("missing-block", a)
  /\ IF lifted_containing(a) THEN UNCHANGED g_missing_targets
                             ELSE record_missing(a)

\* A fault: __remill_error, a hyper call, an access to unmapped memory.
Fault ==
  /\ Running
  /\ halt("error", Here)
  /\ UNCHANGED <<guest, g_missing_targets>>

----------------------------------------------------------------------------
(* A dispatch_from returns to the one that called it. *)

\* A bug: a stop is taken for a return.
CallReturns_any_bug ==
  /\ back = "call"
  /\ back' = "none"
  /\ SetStop("error", Home)
  /\ UNCHANGED <<guest, host, g_depth, saved, g_missing_targets>>

\* The caller of a function that returned carries on in its own code.
CallReturns ==
  /\ back = "call"
  /\ g_reason = "returned"
  /\ back' = "none"
  /\ SetStop("error", Home)
  /\ UNCHANGED <<guest, host, g_depth, saved, g_missing_targets>>

\* A jump's end is the end of the trace that jumped, and any stop but a return
\* is passed on to the trace around it.
Propagate ==
  /\ \/ back = "jump"
     \/ back \in {"call", "skipped jump"} /\ g_reason # "returned"
  /\ halt(g_reason, g_stop_pc)
  /\ UNCHANGED <<guest, g_missing_targets>>

\* A skipped jump is over: the function that jumped returns, with an error.
SkippedJumpReturns ==
  /\ back = "skipped jump"
  /\ g_reason = "returned"
  /\ FunctionReturns("error", Home)
  /\ UNCHANGED <<guest, g_missing_targets>>

\* The top-level dispatch_from follows a return into lifted code.
Chase ==
  /\ back = "top"
  /\ g_reason = "returned"
  /\ g_stop_pc # Home
  /\ g_stop_pc \in Lifted
  /\ BeginTrace(host, g_stop_pc, "top")
  /\ UNCHANGED <<guest, saved, g_missing_targets>>

\* It ends the run at a return to Home, and at any other stop; a return to
\* code that is not lifted is named as the next thing to lift.
Finish ==
  /\ back = "top"
  /\ back' = "done"
  /\ IF g_reason = "returned" /\ g_stop_pc # Home
       THEN /\ g_stop_pc \notin Lifted
            /\ record_missing(g_stop_pc)
            /\ SetStop("missing-dispatch", g_stop_pc)
       ELSE UNCHANGED <<stop, g_missing_targets>>
  /\ UNCHANGED <<guest, host, g_depth, saved>>

Terminated == back = "done" /\ UNCHANGED vars

----------------------------------------------------------------------------

Init ==
  /\ gpc \in Functions
  /\ stack = <<Home>>
  /\ host = <<>>
  /\ back = "start"
  /\ g_reason = "returned" /\ g_stop_pc = Home
  /\ g_depth = 0
  /\ saved = <<>>
  /\ g_missing_targets = {}
  /\ g_skip_missing \in BOOLEAN

Calls ==
  \/ \E f \in Functions :
       \/ DirectCall(f)
       \/ IndirectCall(f)
       \/ \E reason \in {"call", "missing-dispatch"} : MissingCall(f, reason)
  \/ ImportCall
Jumps ==
  \/ \E a \in Points : TailJump(a) \/ MissingJump(a) \/ MissingBlock(a)
  \/ \E i \in Imports : ImportJump(i)
Unwinding ==
  CallReturns \/ Propagate \/ SkippedJumpReturns \/ Chase \/ Finish

\* The option is set before the run and stays as it is.
InMode(action) == action /\ UNCHANGED g_skip_missing

\* Any guest.
Next ==
  InMode(Start \/ Ret \/ Calls \/ Jumps \/ Fault \/ Unwinding \/ Terminated)
Spec == Init /\ [][Next]_vars

\* A guest in which a function that may be called directly ends by returning:
\* only the first function of a trace jumps out.
OrderlyNext ==
  InMode(\/ Start \/ Ret \/ Calls \/ Fault \/ Unwinding \/ Terminated
         \/ Running /\ ~DirectlyCalled /\ Jumps)
OrderlySpec == Init /\ [][OrderlyNext]_vars

\* What such a guest is in step under: nothing is dispatched at an address that
\* a call returns to, and the stop state of every direct call is saved, however
\* deep they nest.
ReturnsUnlifted == \A f \in Functions : ReturnPoint[f] \notin Lifted
SavesAll == MaxStack <= kMaxDirectDepth + 1

\* The runtime's own steps are always taken: they are plain C code.
FairSpec == Spec /\ WF_vars(InMode(Unwinding))

----------------------------------------------------------------------------
(* Properties. *)

Whys == {"top", "call", "jump", "skipped jump"}
TypeOK ==
  /\ stack \in Seq(Points \cup {Home})
  /\ gpc \in Points \cup {Home}
  /\ host \in Seq([why : Whys, body : Seq(Points)])
  /\ back \in Whys \cup {"start", "none", "done"}
  /\ g_reason \in Reasons
  /\ g_stop_pc \in Points \cup {Home}
  /\ g_depth \in Nat
  /\ saved \in Seq([reason : Reasons, pc : Points \cup {Home}])
  /\ g_missing_targets \subseteq Points
  /\ g_skip_missing \in BOOLEAN

\* The depth counter counts the active traces, however they end, and nesting
\* stops at the limit (lifted_runtime.cpp:662-673, 705).
DepthCounts == g_depth = Len(host) /\ g_depth <= kMaxDispatchDepth

\* Lifted code runs inside a trace, so halt always has somewhere to go and
\* never aborts the process (lifted_runtime.cpp:545-551).
RunsInATrace == Running => host # <<>> /\ Body # <<>>

\* The list of things to lift never names what is lifted, and stays within
\* its array (lifted_runtime.cpp:619-628).
MissingOnlyUnlifted ==
  /\ g_missing_targets \cap Lifted = {}
  /\ Cardinality(g_missing_targets) <= kMaxMissing

\* The lifted code that runs is the code the guest has reached: every call
\* comes back to its caller, once, and no return is taken for another's
\* (lifted_runtime.cpp:1145-1152).  A run reported as returned has returned to
\* the harness's stack slot with nothing left to return to (680-681), and one
\* that stops for want of code names the address the guest has reached, which
\* is what the next round lifts (15-18).
InStep ==
  /\ Running => Here = gpc
  /\ back = "done" /\ g_reason = "returned" => stack = <<>> /\ gpc = Home
  /\ back = "done" /\ g_reason \notin {"returned", "error"} => g_stop_pc = gpc

\* While lifted code runs no return address is pending, so that a jump to an
\* import, or the end of the trace, cannot report an old one, and the saved
\* stop states are those of the functions that are active by a direct call
\* (lifted_runtime.cpp:875-884, 1146-1152).
DirectlyActive(h) == UNION {{t} \X (2 .. Len(h[t].body)) : t \in DOMAIN h}
NoStaleReturn ==
  Running => g_stop_pc = Home /\ Len(saved) = Cardinality(DirectlyActive(host))

\* A return unwinds to its own function, never over a function that called it
\* directly and still waits (lifted_runtime.cpp:20-21).
UnwindsToItself ==
  [][g_reason' = "returned" /\ Len(host') < Len(host)
       => ~DirectlyCalled]_vars

\* A stop other than a return ends the run.
Stopped == back \notin {"none", "start"} /\ g_reason # "returned"
StopsEndTheRun == Stopped ~> back = "done"
=============================================================================
