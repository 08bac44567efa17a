--------------------------- MODULE Dispatch_proof ---------------------------
(***************************************************************************)
(* Proofs about Dispatch, for every guest and every value of the limits:   *)
(* the stop state, the depth counter and the C stack always fit together,  *)
(* however the traces end.                                                 *)
(*                                                                         *)
(* The inductive invariant says what the C stack looks like (GoodHost) and *)
(* where a dispatch_from can be on its way to (GoodBack).  The lemmas say  *)
(* that each way of starting and ending a trace keeps both.                *)
(***************************************************************************)
EXTENDS Dispatch, FiniteSetTheorems, TLAPS

Traces == [why : Whys, body : Seq(Points)]
Places == Points \cup {Home}
Stops == [reason : Reasons, pc : Places]

\* Every trace has a function of its own, and the first one is the top's.
GoodHost(h) ==
  /\ h \in Seq(Traces)
  /\ \A i \in 1 .. Len(h) : Len(h[i].body) > 0
  /\ \A i \in 1 .. Len(h) : h[i].why = "top" <=> i = 1

\* Code runs, or is returned to, within a trace; the top is outside them all.
GoodBack ==
  /\ back \in Whys \cup {"start", "none", "done"}
  /\ back \in {"none", "call", "jump", "skipped jump"} <=> host # <<>>

HostInv ==
  /\ GoodHost(host)
  /\ GoodBack
  /\ g_reason \in Reasons
  /\ g_stop_pc \in Places
  /\ g_depth = Len(host)
  /\ g_depth <= kMaxDispatchDepth

GuestInv == stack \in Seq(Places) /\ gpc \in Places
StartInv == back = "start" => gpc \in Functions
SavedInv == saved \in Seq(Stops)
MissingInv ==
  /\ g_missing_targets \subseteq Points \ Lifted
  /\ IsFiniteSet(g_missing_targets)
  /\ Cardinality(g_missing_targets) <= kMaxMissing

IInv == HostInv /\ GuestInv /\ StartInv /\ SavedInv /\ MissingInv

ModeInv == g_skip_missing \in BOOLEAN

Inner == {"call", "jump", "skipped jump"}

----------------------------------------------------------------------------
(* Sequences and C stacks. *)

LEMMA FrontLast ==
  ASSUME NEW S, NEW s \in Seq(S), s # <<>>
  PROVE  /\ Front(s) \in Seq(S)
         /\ Len(Front(s)) = Len(s) - 1
         /\ \A i \in 1 .. Len(s) - 1 : Front(s)[i] = s[i]
         /\ Last(s) \in S
         /\ Len(s) \in Nat \ {0}
<1>1. Len(s) \in Nat /\ Len(s) > 0
  OBVIOUS
<1>2. Last(s) \in S
  BY <1>1 DEF Last
<1>3. /\ Front(s) \in Seq(S) /\ Len(Front(s)) = Len(s) - 1
      /\ \A i \in 1 .. Len(s) - 1 : Front(s)[i] = s[i]
  <2> DEFINE m == Len(s) - 1
  <2>1. m \in Nat /\ m <= Len(s) /\ Front(s) = SubSeq(s, 1, m)
    BY <1>1 DEF Front
  <2> HIDE DEF m
  <2>2. Len(Front(s)) = m
    BY <1>1, <2>1
  <2>3. \A i \in 1 .. m : Front(s)[i] = s[i]
    BY <1>1, <2>1
  <2>4. Front(s) \in Seq(S)
    BY <1>1, <2>1
  <2> QED  BY <2>2, <2>3, <2>4 DEF m
<1> QED  BY <1>1, <1>2, <1>3

\* A C stack whose newest trace has another body, of at least one function.
WithBody(h, b) == [h EXCEPT ![Len(h)].body = b]

LEMMA Rebody ==
  ASSUME NEW h, GoodHost(h), h # <<>>, NEW b \in Seq(Points), Len(b) > 0
  PROVE  /\ GoodHost(WithBody(h, b)) /\ Len(WithBody(h, b)) = Len(h)
         /\ WithBody(h, b) # <<>> /\ Last(WithBody(h, b)).body = b
<1> DEFINE g == WithBody(h, b)
           n == Len(h)
           t == [h[n] EXCEPT !.body = b]
<1>1. h \in Seq(Traces) /\ n \in Nat /\ n > 0
  BY DEF GoodHost
<1>2. h[n] \in Traces
  BY <1>1
<1>3. t \in Traces /\ t.body = b /\ t.why = h[n].why
  BY <1>2 DEF Traces
<1>4. g = [h EXCEPT ![n] = t]
  BY DEF WithBody
<1> HIDE DEF t, g
<1>5. h \in [1 .. n -> Traces] /\ n \in 1 .. n
  BY <1>1
<1>6. /\ g \in [1 .. n -> Traces] /\ g[n] = t
      /\ \A i \in 1 .. n : i # n => g[i] = h[i]
  BY <1>3, <1>4, <1>5
<1>7. g \in Seq(Traces) /\ Len(g) = n
  BY <1>1, <1>6
<1>8. g # <<>> /\ Last(g).body = b
  <2>1. g # <<>>
    BY <1>1, <1>7
  <2>2. Last(g) = t
    BY <1>6, <1>7 DEF Last
  <2> QED  BY <1>3, <2>1, <2>2
<1>9. GoodHost(g)
  BY <1>1, <1>3, <1>6, <1>7 DEF GoodHost
<1> QED  BY <1>7, <1>8, <1>9 DEF g

\* The running function is at a point of the guest.
LEMMA Running1 ==
  ASSUME HostInv, host # <<>>
  PROVE  /\ Body \in Seq(Points) /\ Len(Body) > 0 /\ Here \in Points
         /\ Last(host).why \in Whys
<1>1. host \in Seq(Traces)
  BY DEF HostInv, GoodHost
<1>2. Last(host) \in Traces
  BY <1>1, FrontLast
<1>3. Body \in Seq(Points) /\ Last(host).why \in Whys
  BY <1>2 DEF Traces, Body
<1>4. Len(Body) > 0
  BY <1>1, FrontLast DEF HostInv, GoodHost, Body, Last
<1>5. Here \in Points
  BY <1>3, <1>4 DEF Here, Last
<1> QED  BY <1>3, <1>4, <1>5

LEMMA AfterPoint ==
  ASSUME NEW a \in Points PROVE After(a) \in Points
BY DEF After, Points

LEMMA WaitingGood ==
  ASSUME HostInv, host # <<>>
  PROVE  GoodHost(Waiting) /\ Len(Waiting) = Len(host) /\ Waiting # <<>>
         /\ Last(Waiting).body = Append(Front(Body), After(Here))
<1> DEFINE b == Append(Front(Body), After(Here))
<1>1. Body \in Seq(Points) /\ Len(Body) > 0 /\ Here \in Points
  BY Running1
<1>2. After(Here) \in Points
  BY <1>1, AfterPoint
<1>3. Front(Body) \in Seq(Points)
  BY <1>1, FrontLast
<1>4. b \in Seq(Points) /\ Len(b) > 0
  BY <1>2, <1>3
<1>5. Waiting = WithBody(host, b)
  BY DEF Waiting, WithBody
<1> HIDE DEF b
<1>6. GoodHost(host)
  BY DEF HostInv
<1>7. GoodHost(Waiting) /\ Len(Waiting) = Len(host) /\ Waiting # <<>>
      /\ Last(Waiting).body = b
  BY <1>4, <1>5, <1>6, Rebody
<1> QED  BY <1>7 DEF b

----------------------------------------------------------------------------
(* Starting and ending traces. *)

LEMMA BeginGood ==
  ASSUME NEW h, GoodHost(h), NEW a \in Points, NEW why \in Whys,
         why = "top" <=> h = <<>>,
         g_depth = Len(h), g_depth < kMaxDispatchDepth,
         BeginTrace(h, a, why)
  PROVE  HostInv' /\ back' # "start"
<1> DEFINE t == [why |-> why, body |-> <<a>>]
<1>1. t \in Traces /\ Len(t.body) = 1 /\ t.why = why
  BY DEF Traces
<1>2. host' = Append(h, t)
  BY DEF BeginTrace
<1> HIDE DEF t
<1>3. h \in Seq(Traces) /\ Len(h) \in Nat
  BY DEF GoodHost
<1>4. GoodHost(host') /\ Len(host') = Len(h) + 1 /\ host' # <<>>
  <2>1. host' \in Seq(Traces) /\ Len(host') = Len(h) + 1
    BY <1>1, <1>2, <1>3
  <2>2. \A i \in 1 .. Len(host') : host'[i] = IF i <= Len(h) THEN h[i] ELSE t
    BY <1>2, <1>3
  <2>3. ASSUME NEW i \in 1 .. Len(host')
        PROVE  Len(host'[i].body) > 0
    <3>1. CASE i <= Len(h)
      BY <1>3, <2>1, <2>2, <3>1 DEF GoodHost
    <3>2. CASE ~(i <= Len(h))
      <4>1. host'[i] = t
        BY <2>2, <3>2
      <4>2. Len(t.body) > 0
        BY <1>1
      <4> QED  BY <4>1, <4>2
    <3> QED  BY <3>1, <3>2
  <2>4. h = <<>> <=> Len(h) = 0
    BY <1>3
  <2>5. ASSUME NEW i \in 1 .. Len(host')
        PROVE  host'[i].why = "top" <=> i = 1
    <3>1. CASE i <= Len(h)
      BY <1>3, <2>1, <2>2, <3>1 DEF GoodHost
    <3>2. CASE i = Len(h) + 1
      <4>1. host'[i].why = why
        BY <1>1, <1>3, <2>2, <3>2
      <4>2. i = 1 <=> Len(h) = 0
        BY <1>3, <3>2
      <4> QED  BY <2>4, <4>1, <4>2
    <3> QED  BY <1>3, <2>1, <3>1, <3>2
  <2>6. host' # <<>>
    BY <1>3, <2>1
  <2> QED  BY <2>1, <2>3, <2>5, <2>6 DEF GoodHost
<1>5. /\ back' = "none" /\ g_reason' = "returned" /\ g_stop_pc' = Home
      /\ g_depth' = g_depth + 1
  BY DEF BeginTrace, SetStop
<1>6. kMaxDispatchDepth \in Nat
  BY DispatchAssumption
<1>7. GoodBack'
  BY <1>4, <1>5 DEF GoodBack
<1>8. g_reason' \in Reasons /\ g_stop_pc' \in Places
  BY <1>5 DEF Reasons, Places
<1>9. g_depth' = Len(host') /\ g_depth' <= kMaxDispatchDepth
  BY <1>3, <1>4, <1>5, <1>6
<1> QED  BY <1>4, <1>5, <1>7, <1>8, <1>9 DEF HostInv

LEMMA DispatchGood ==
  ASSUME NEW h, GoodHost(h), h # <<>>, NEW a \in Points, NEW why \in Inner,
         g_depth = Len(h), g_depth <= kMaxDispatchDepth,
         Dispatch(h, a, why)
  PROVE  HostInv' /\ back' # "start"
<1>1. why \in Whys /\ why # "top"
  BY DEF Inner, Whys
<1>2. kMaxDispatchDepth \in Nat /\ Len(h) \in Nat
  BY DispatchAssumption DEF GoodHost
<1>3. CASE g_depth >= kMaxDispatchDepth
  <2>1. /\ host' = h /\ back' = why /\ g_depth' = g_depth
        /\ g_reason' = "error" /\ g_stop_pc' = a
    BY <1>3 DEF Dispatch, SetStop
  <2>2. GoodBack'
    BY <2>1 DEF GoodBack, Inner, Whys
  <2>3. GoodHost(host')
    BY <2>1
  <2>4. g_reason' \in Reasons /\ g_stop_pc' \in Places
    BY <2>1 DEF Reasons, Places
  <2>5. back' # "start"
    BY <2>1 DEF Inner
  <2> QED  BY <2>1, <2>2, <2>3, <2>4, <2>5 DEF HostInv
<1>4. CASE ~(g_depth >= kMaxDispatchDepth)
  <2>1. BeginTrace(h, a, why)
    BY <1>4 DEF Dispatch
  <2>2. g_depth < kMaxDispatchDepth
    BY <1>2, <1>4
  <2> QED  BY <1>1, <2>1, <2>2, BeginGood
<1> QED  BY <1>3, <1>4

LEMMA EndGood ==
  ASSUME HostInv, host # <<>>, NEW reason \in Reasons, NEW a \in Places,
         EndTrace(reason, a)
  PROVE  HostInv' /\ back' # "start"
<1> DEFINE n == Len(host)
<1>1. host \in Seq(Traces) /\ n \in Nat /\ n > 0
  BY DEF HostInv, GoodHost
<1>2. /\ host' \in Seq(Traces) /\ Len(host') = n - 1
      /\ \A i \in 1 .. n - 1 : host'[i] = host[i]
  BY <1>1, FrontLast DEF EndTrace
<1>3. GoodHost(host')
  BY <1>1, <1>2 DEF GoodHost, HostInv
<1>4. back' = host[n].why /\ back' \in Whys
  BY Running1 DEF EndTrace, Last
<1>5. back' = "top" <=> n = 1
  BY <1>1, <1>4 DEF HostInv, GoodHost
<1>6. host' = <<>> <=> n = 1
  BY <1>1, <1>2
<1>7. GoodBack' /\ back' # "start"
  BY <1>4, <1>5, <1>6 DEF GoodBack, Whys
<1>8. g_reason' = reason /\ g_stop_pc' = a /\ g_depth' = g_depth - 1
  BY DEF EndTrace, SetStop
<1>9. g_depth' = Len(host') /\ g_depth' <= kMaxDispatchDepth
  BY <1>1, <1>2, <1>8, DispatchAssumption DEF HostInv
<1> QED  BY <1>3, <1>7, <1>8, <1>9 DEF HostInv

LEMMA HaltGood ==
  ASSUME HostInv, SavedInv, host # <<>>,
         NEW reason \in Reasons, NEW a \in Places, halt(reason, a)
  PROVE  HostInv' /\ SavedInv' /\ back' # "start"
BY EndGood DEF halt, SavedInv

LEMMA ReturnsGood ==
  ASSUME HostInv, SavedInv, host # <<>>,
         NEW reason \in Reasons, NEW a \in Places, FunctionReturns(reason, a)
  PROVE  HostInv' /\ SavedInv' /\ back' # "start"
<1>1. CASE ~DirectlyCalled
  BY <1>1, EndGood DEF FunctionReturns, SavedInv
<1>2. CASE DirectlyCalled
  <2>1. Body \in Seq(Points) /\ Len(Body) > 1
    BY <1>2, Running1 DEF DirectlyCalled
  <2>2. Front(Body) \in Seq(Points) /\ Len(Front(Body)) > 0
    BY <2>1, FrontLast
  <2>3. host' = WithBody(host, Front(Body))
    BY <1>2 DEF FunctionReturns, WithBody
  <2>4. GoodHost(host') /\ Len(host') = Len(host) /\ host' # <<>>
    BY <2>2, <2>3, Rebody DEF HostInv
  <2>5. /\ SavedInv'
        /\ g_reason' \in Reasons /\ g_stop_pc' \in Places
    <3>1. CASE saved = <<>>
      BY <1>2, <3>1 DEF FunctionReturns, SetStop, SavedInv
    <3>2. CASE saved # <<>>
      <4>1. Front(saved) \in Seq(Stops) /\ Last(saved) \in Stops
        BY <3>2, FrontLast DEF SavedInv
      <4>2. /\ saved' = Front(saved)
            /\ g_reason' = Last(saved).reason /\ g_stop_pc' = Last(saved).pc
        BY <1>2, <3>2 DEF FunctionReturns, SetStop
      <4>3. Last(saved).reason \in Reasons /\ Last(saved).pc \in Places
        BY <4>1 DEF Stops
      <4> QED  BY <4>1, <4>2, <4>3 DEF SavedInv
    <3> QED  BY <3>1, <3>2
  <2>6. back' = "none" /\ g_depth' = g_depth
    BY <1>2 DEF FunctionReturns
  <2>7. GoodBack'
    BY <2>4, <2>6 DEF GoodBack
  <2> QED  BY <2>4, <2>5, <2>6, <2>7 DEF HostInv
<1> QED  BY <1>1, <1>2

----------------------------------------------------------------------------
(* The guest, and the list of what is missing. *)

LEMMA RecordGood ==
  ASSUME MissingInv, NEW a \in Points, a \notin Lifted, record_missing(a)
  PROVE  MissingInv'
<1> DEFINE m == g_missing_targets
<1>1. IsFiniteSet(m \cup {a})
      /\ Cardinality(m \cup {a}) \in {Cardinality(m), Cardinality(m) + 1}
  BY FS_AddElement DEF MissingInv
<1>2. Cardinality(m) \in Nat /\ kMaxMissing \in Nat
  BY FS_CardinalityType, DispatchAssumption DEF MissingInv
<1>3. CASE Cardinality(m) < kMaxMissing
  <2>1. m' = m \cup {a}
    BY <1>3 DEF record_missing
  <2>2. Cardinality(m') <= kMaxMissing
    BY <1>1, <1>2, <1>3, <2>1
  <2> QED  BY <1>1, <2>1, <2>2 DEF MissingInv
<1>4. CASE ~(Cardinality(m) < kMaxMissing)
  BY <1>4 DEF record_missing, MissingInv
<1> QED  BY <1>3, <1>4

LEMMA PushGood ==
  ASSUME HostInv, GuestInv, host # <<>>, NEW target \in Points, Push(target)
  PROVE  GuestInv'
<1>1. After(Here) \in Places
  BY Running1, AfterPoint DEF Places
<1> QED  BY <1>1 DEF Push, GuestInv, Places

LEMMA PopGood ==
  ASSUME GuestInv, Pop
  PROVE  GuestInv' /\ Last(stack) \in Places
BY FrontLast DEF Pop, GuestInv

LEMMA GoGood ==
  ASSUME GuestInv, NEW target \in Places, Go(target) PROVE GuestInv'
BY DEF Go, GuestInv

----------------------------------------------------------------------------
(* Each step keeps the invariant. *)

\* While lifted code runs there is a trace; a dispatch_from that returns to
\* lifted code or to a transfer of control returns into one.
LEMMA InTrace ==
  ASSUME HostInv, back \in {"none", "call", "jump", "skipped jump"}
  PROVE  /\ host # <<>> /\ GoodHost(host) /\ Here \in Points
         /\ g_depth = Len(host) /\ g_depth <= kMaxDispatchDepth
<1>1. host # <<>>
  BY DEF HostInv, GoodBack
<1>2. Here \in Points
  BY <1>1, Running1
<1> QED  BY <1>1, <1>2 DEF HostInv

\* A step that leaves the traces as they are, or lets a function wait in one.
LEMMA ResumeGood ==
  ASSUME HostInv, back \in {"none", "call"}, back' = "none",
         host' = host \/ host' = Waiting,
         g_reason' \in Reasons, g_stop_pc' \in Places, g_depth' = g_depth
  PROVE  HostInv' /\ back' # "start"
<1>1. host # <<>>
  BY InTrace
<1>2. GoodHost(host') /\ Len(host') = Len(host) /\ host' # <<>>
  BY <1>1, WaitingGood DEF HostInv
<1>3. GoodBack'
  BY <1>2 DEF GoodBack
<1> QED  BY <1>2, <1>3 DEF HostInv

LEMMA StartKeeps ==
  ASSUME IInv, Start PROVE IInv'
<1>1. back = "start" /\ host = <<>> /\ gpc \in Points /\ saved' = saved
  BY DEF IInv, StartInv, HostInv, GoodBack, Start, Points
<1>2. CASE gpc \in Lifted
  <2>1. BeginTrace(host, gpc, "top") /\ UNCHANGED <<guest, g_missing_targets>>
    BY <1>2 DEF Start
  <2>2. Len(host) = 0 /\ GoodHost(host) /\ "top" \in Whys /\ g_depth = 0
    BY <1>1 DEF IInv, HostInv, Whys
  <2>3. g_depth < kMaxDispatchDepth
    BY <2>2, DispatchAssumption
  <2>4. HostInv' /\ back' # "start"
    BY <1>1, <2>1, <2>2, <2>3, BeginGood
  <2> QED  BY <1>1, <2>1, <2>4
           DEF IInv, GuestInv, StartInv, SavedInv, MissingInv, guest
<1>3. CASE gpc \notin Lifted
  <2>1. /\ record_missing(gpc) /\ back' = "top"
        /\ host' = host /\ g_depth' = g_depth
    BY <1>3 DEF Start
  <2>2. MissingInv'
    BY <1>1, <1>3, <2>1, RecordGood DEF IInv
  <2>3. GuestInv' /\ g_reason' \in Reasons /\ g_stop_pc' \in Places
    <3>1. CASE g_skip_missing
      BY <1>3, <3>1, PopGood
         DEF Start, SetStop, Reasons, Places, IInv
    <3>2. CASE ~g_skip_missing
      BY <1>1, <1>3, <3>2
         DEF Start, SetStop, Reasons, Places, IInv, GuestInv, guest
    <3> QED  BY <3>1, <3>2
  <2>4. HostInv'
    BY <1>1, <2>1, <2>3 DEF IInv, HostInv, GoodBack, Whys
  <2> QED  BY <1>1, <2>1, <2>2, <2>3, <2>4 DEF IInv, StartInv, SavedInv
<1> QED  BY <1>2, <1>3

LEMMA RetKeeps ==
  ASSUME IInv, Ret PROVE IInv'
<1>1. /\ back = "none" /\ Pop /\ FunctionReturns("returned", Last(stack))
      /\ g_missing_targets' = g_missing_targets
  BY DEF Ret, Running
<1>2. host # <<>>
  BY <1>1, InTrace DEF IInv
<1>3. GuestInv' /\ Last(stack) \in Places
  BY <1>1, PopGood DEF IInv
<1>4. HostInv' /\ SavedInv' /\ back' # "start"
  <2>1. "returned" \in Reasons
    BY DEF Reasons
  <2> QED  BY <1>1, <1>2, <1>3, <2>1, ReturnsGood DEF IInv
<1> QED  BY <1>1, <1>3, <1>4 DEF IInv, StartInv, MissingInv

LEMMA DirectCallKeeps ==
  ASSUME IInv, NEW f \in Functions, DirectCall(f) PROVE IInv'
<1>1. /\ back = "none" /\ back' = "none" /\ Push(f) /\ SaveStop
      /\ host' = [Waiting EXCEPT ![Len(host)].body = Append(@, f)]
      /\ g_reason' = g_reason /\ g_stop_pc' = g_stop_pc
      /\ g_depth' = g_depth /\ g_missing_targets' = g_missing_targets
  BY DEF DirectCall, Running, stop
<1>2. host # <<>> /\ f \in Points
  BY <1>1, InTrace DEF IInv, Points
<1>3. GuestInv'
  BY <1>1, <1>2, PushGood DEF IInv
<1>4. /\ GoodHost(Waiting) /\ Len(Waiting) = Len(host) /\ Waiting # <<>>
      /\ Last(Waiting).body = Append(Front(Body), After(Here))
  BY <1>2, WaitingGood DEF IInv
<1>5. HostInv'
  <2> DEFINE b == Append(Append(Front(Body), After(Here)), f)
  <2>1. Body \in Seq(Points) /\ Len(Body) > 0 /\ Here \in Points
    BY <1>2, Running1 DEF IInv
  <2>2. Front(Body) \in Seq(Points) /\ After(Here) \in Points
    BY <2>1, FrontLast, AfterPoint
  <2>3. b \in Seq(Points) /\ Len(b) > 0
    BY <1>2, <2>2
  <2>4. host' = WithBody(Waiting, b)
    BY <1>1, <1>4 DEF WithBody, Last
  <2> HIDE DEF b
  <2>5. GoodHost(host') /\ Len(host') = Len(host) /\ host' # <<>>
    BY <1>4, <2>3, <2>4, Rebody
  <2>6. GoodBack'
    BY <1>1, <2>5 DEF GoodBack
  <2> QED  BY <1>1, <2>5, <2>6 DEF IInv, HostInv
<1>6. SavedInv'
  <2>1. [reason |-> g_reason, pc |-> g_stop_pc] \in Stops
    BY DEF IInv, HostInv, Stops
  <2> QED  BY <1>1, <2>1 DEF SaveStop, SavedInv, IInv
<1> QED  BY <1>1, <1>3, <1>5, <1>6 DEF IInv, StartInv, MissingInv

LEMMA MissingCallKeeps ==
  ASSUME IInv, NEW f \in Functions,
         NEW reason \in {"call", "missing-dispatch"}, MissingCall(f, reason)
  PROVE  IInv'
<1>1. back = "none" /\ f \notin Lifted /\ record_missing(f)
  BY DEF MissingCall, Running
<1>2. /\ host # <<>> /\ Here \in Points /\ f \in Points
      /\ g_depth = Len(host) /\ g_depth <= kMaxDispatchDepth
  BY <1>1, InTrace DEF IInv, Points
<1>3. MissingInv'
  BY <1>1, <1>2, RecordGood DEF IInv
<1>4. CASE g_skip_missing
  <2>1. After(Here) \in Points
    BY <1>2, AfterPoint
  <2>2. GuestInv'
    BY <1>4, <2>1 DEF MissingCall, IInv, GuestInv, Places
  <2>3. HostInv' /\ back' # "start" /\ saved' = saved
    <3>1. CASE After(Here) # Home /\ After(Here) \in Lifted
      <4>1. Dispatch(Waiting, After(Here), "call") /\ saved' = saved
        BY <1>4, <3>1 DEF MissingCall, SkipTo
      <4>2. GoodHost(Waiting) /\ Len(Waiting) = Len(host) /\ Waiting # <<>>
        BY <1>2, WaitingGood DEF IInv
      <4>3. "call" \in Inner
        BY DEF Inner
      <4> QED  BY <1>2, <2>1, <4>1, <4>2, <4>3, DispatchGood
    <3>2. CASE ~(After(Here) # Home /\ After(Here) \in Lifted)
      <4>1. /\ host' = Waiting /\ SetStop("error", Home)
            /\ back' = back /\ g_depth' = g_depth /\ saved' = saved
        BY <1>4, <3>2 DEF MissingCall, SkipTo
      <4>2. g_reason' \in Reasons /\ g_stop_pc' \in Places
        BY <4>1 DEF SetStop, Reasons, Places
      <4> QED  BY <1>1, <4>1, <4>2, ResumeGood DEF IInv
    <3> QED  BY <3>1, <3>2
  <2> QED  BY <1>3, <2>2, <2>3 DEF IInv, StartInv, SavedInv
<1>5. CASE ~g_skip_missing
  <2>1. Push(f) /\ halt(reason, f)
    BY <1>5 DEF MissingCall
  <2>2. GuestInv'
    BY <1>2, <2>1, PushGood DEF IInv
  <2>3. reason \in Reasons /\ f \in Places
    BY <1>2 DEF Reasons, Places
  <2>4. HostInv' /\ SavedInv' /\ back' # "start"
    BY <1>2, <2>1, <2>3, HaltGood DEF IInv
  <2> QED  BY <1>3, <2>2, <2>4 DEF IInv, StartInv
<1> QED  BY <1>4, <1>5

LEMMA IndirectCallKeeps ==
  ASSUME IInv, NEW f \in Functions, IndirectCall(f) PROVE IInv'
<1>1. /\ back = "none" /\ Push(f) /\ Dispatch(Waiting, f, "call")
      /\ saved' = saved /\ g_missing_targets' = g_missing_targets
  BY DEF IndirectCall, Running
<1>2. /\ host # <<>> /\ f \in Points
      /\ g_depth = Len(host) /\ g_depth <= kMaxDispatchDepth
  BY <1>1, InTrace DEF IInv, Points
<1>3. GoodHost(Waiting) /\ Len(Waiting) = Len(host) /\ Waiting # <<>>
  BY <1>2, WaitingGood DEF IInv
<1>4. "call" \in Inner
  BY DEF Inner
<1>5. HostInv' /\ back' # "start"
  BY <1>1, <1>2, <1>3, <1>4, DispatchGood
<1>6. GuestInv'
  BY <1>1, <1>2, PushGood DEF IInv
<1> QED  BY <1>1, <1>5, <1>6 DEF IInv, StartInv, SavedInv, MissingInv

LEMMA ImportCallKeeps ==
  ASSUME IInv, ImportCall PROVE IInv'
<1>1. /\ back = "none" /\ back' = "none" /\ host' = Waiting
      /\ g_reason' = "error" /\ g_stop_pc' = Home /\ g_depth' = g_depth
      /\ Go(After(Here)) /\ saved' = saved
      /\ g_missing_targets' = g_missing_targets
  BY DEF ImportCall, Running, SetStop
<1>2. After(Here) \in Places
  BY <1>1, InTrace, AfterPoint DEF IInv, Places
<1>3. GuestInv'
  BY <1>1, <1>2, GoGood DEF IInv
<1>4. g_reason' \in Reasons /\ g_stop_pc' \in Places
  BY <1>1 DEF Reasons, Places
<1>5. HostInv' /\ back' # "start"
  BY <1>1, <1>4, ResumeGood DEF IInv
<1> QED  BY <1>1, <1>3, <1>5 DEF IInv, StartInv, SavedInv, MissingInv

LEMMA TailJumpKeeps ==
  ASSUME IInv, NEW a \in Points, TailJump(a) PROVE IInv'
<1>1. /\ back = "none" /\ Go(a) /\ Dispatch(host, a, "jump")
      /\ saved' = saved /\ g_missing_targets' = g_missing_targets
  BY DEF TailJump, Running
<1>2. "jump" \in Inner /\ a \in Places
  BY DEF Inner, Places
<1>3. HostInv' /\ back' # "start"
  BY <1>1, <1>2, InTrace, DispatchGood DEF IInv
<1>4. GuestInv'
  BY <1>1, <1>2, GoGood DEF IInv
<1> QED  BY <1>1, <1>3, <1>4 DEF IInv, StartInv, SavedInv, MissingInv

LEMMA ImportJumpKeeps ==
  ASSUME IInv, NEW i \in Imports, ImportJump(i) PROVE IInv'
<1>1. back = "none" /\ Pop /\ g_missing_targets' = g_missing_targets
  BY DEF ImportJump, Running
<1>2. GuestInv' /\ Last(stack) \in Places
  BY <1>1, PopGood DEF IInv
<1>3. CASE Last(stack) # Home /\ Last(stack) \in Lifted
  <2>1. Dispatch(host, Last(stack), "jump") /\ saved' = saved
    BY <1>3 DEF ImportJump
  <2>2. "jump" \in Inner /\ Last(stack) \in Points
    BY <1>2, <1>3 DEF Inner, Places
  <2>3. HostInv' /\ back' # "start"
    BY <1>1, <2>1, <2>2, InTrace, DispatchGood DEF IInv
  <2> QED  BY <1>1, <1>2, <2>1, <2>3 DEF IInv, StartInv, SavedInv, MissingInv
<1>4. CASE ~(Last(stack) # Home /\ Last(stack) \in Lifted)
  <2> DEFINE pc == IF i \in HostImports THEN Last(stack) ELSE g_stop_pc
  <2>1. halt("returned", pc)
    BY <1>4 DEF ImportJump
  <2>2. "returned" \in Reasons /\ pc \in Places
    BY <1>2 DEF Reasons, IInv, HostInv
  <2> HIDE DEF pc
  <2>3. HostInv' /\ SavedInv' /\ back' # "start"
    BY <1>1, <2>1, <2>2, InTrace, HaltGood DEF IInv
  <2> QED  BY <1>1, <1>2, <2>3 DEF IInv, StartInv, MissingInv
<1> QED  BY <1>3, <1>4

LEMMA MissingJumpKeeps ==
  ASSUME IInv, NEW a \in Points, MissingJump(a) PROVE IInv'
<1>1. back = "none" /\ a \notin Lifted /\ record_missing(a)
  BY DEF MissingJump, Running
<1>2. MissingInv'
  BY <1>1, RecordGood DEF IInv
<1>3. host # <<>>
  BY <1>1, InTrace DEF IInv
<1>4. CASE g_skip_missing
  <2>1. Pop
    BY <1>4 DEF MissingJump
  <2>2. GuestInv' /\ Last(stack) \in Places
    BY <2>1, PopGood DEF IInv
  <2>3. CASE Last(stack) # Home /\ Last(stack) \in Lifted
    <3>1. Dispatch(host, Last(stack), "skipped jump") /\ saved' = saved
      BY <1>4, <2>3 DEF MissingJump, SkipTo
    <3>2. "skipped jump" \in Inner /\ Last(stack) \in Points
      BY <2>2, <2>3 DEF Inner, Places
    <3>3. HostInv' /\ back' # "start"
      BY <1>1, <3>1, <3>2, InTrace, DispatchGood DEF IInv
    <3> QED  BY <1>2, <2>2, <3>1, <3>3 DEF IInv, StartInv, SavedInv
  <2>4. CASE ~(Last(stack) # Home /\ Last(stack) \in Lifted)
    <3>1. FunctionReturns("error", Home)
      BY <1>4, <2>4 DEF MissingJump, SkipTo
    <3>2. "error" \in Reasons /\ Home \in Places
      BY DEF Reasons, Places
    <3>3. HostInv' /\ SavedInv' /\ back' # "start"
      BY <1>3, <3>1, <3>2, ReturnsGood DEF IInv
    <3> QED  BY <1>2, <2>2, <3>3 DEF IInv, StartInv
  <2> QED  BY <2>3, <2>4
<1>5. CASE ~g_skip_missing
  <2>1. Go(a) /\ halt("jump", a)
    BY <1>5 DEF MissingJump
  <2>2. "jump" \in Reasons /\ a \in Places
    BY DEF Reasons, Places
  <2>3. HostInv' /\ SavedInv' /\ back' # "start"
    BY <1>3, <2>1, <2>2, HaltGood DEF IInv
  <2>4. GuestInv'
    BY <2>1, <2>2, GoGood DEF IInv
  <2> QED  BY <1>2, <2>3, <2>4 DEF IInv, StartInv
<1> QED  BY <1>4, <1>5

LEMMA MissingBlockKeeps ==
  ASSUME IInv, NEW a \in Points, MissingBlock(a) PROVE IInv'
<1>1. /\ back = "none" /\ a \notin Lifted /\ Go(a)
      /\ halt("missing-block", a)
  BY DEF MissingBlock, Running
<1>2. "missing-block" \in Reasons /\ a \in Places
  BY DEF Reasons, Places
<1>3. HostInv' /\ SavedInv' /\ back' # "start"
  BY <1>1, <1>2, InTrace, HaltGood DEF IInv
<1>4. GuestInv'
  BY <1>1, <1>2, GoGood DEF IInv
<1>5. MissingInv'
  <2>1. CASE lifted_containing(a)
    BY <2>1 DEF MissingBlock, MissingInv, IInv
  <2>2. CASE ~lifted_containing(a)
    BY <1>1, <2>2, RecordGood DEF MissingBlock, IInv
  <2> QED  BY <2>1, <2>2
<1> QED  BY <1>3, <1>4, <1>5 DEF IInv, StartInv

LEMMA FaultKeeps ==
  ASSUME IInv, Fault PROVE IInv'
<1>1. /\ back = "none" /\ halt("error", Here)
      /\ UNCHANGED <<guest, g_missing_targets>>
  BY DEF Fault, Running
<1>2. "error" \in Reasons /\ Here \in Places
  BY <1>1, InTrace DEF Reasons, Places, IInv
<1>3. HostInv' /\ SavedInv' /\ back' # "start"
  BY <1>1, <1>2, InTrace, HaltGood DEF IInv
<1> QED  BY <1>1, <1>3 DEF IInv, StartInv, GuestInv, MissingInv, guest

LEMMA CallReturnsKeeps ==
  ASSUME IInv, CallReturns PROVE IInv'
<1>1. /\ back = "call" /\ back' = "none" /\ host' = host
      /\ g_reason' = "error" /\ g_stop_pc' = Home /\ g_depth' = g_depth
      /\ UNCHANGED <<guest, saved, g_missing_targets>>
  BY DEF CallReturns, SetStop
<1>2. g_reason' \in Reasons /\ g_stop_pc' \in Places
  BY <1>1 DEF Reasons, Places
<1>3. HostInv' /\ back' # "start"
  BY <1>1, <1>2, ResumeGood DEF IInv
<1> QED  BY <1>1, <1>3
         DEF IInv, StartInv, GuestInv, SavedInv, MissingInv, guest

LEMMA PropagateKeeps ==
  ASSUME IInv, Propagate PROVE IInv'
<1>1. /\ back \in {"call", "jump", "skipped jump"}
      /\ halt(g_reason, g_stop_pc) /\ UNCHANGED <<guest, g_missing_targets>>
  BY DEF Propagate
<1>2. g_reason \in Reasons /\ g_stop_pc \in Places
  BY DEF IInv, HostInv
<1>3. HostInv' /\ SavedInv' /\ back' # "start"
  BY <1>1, <1>2, InTrace, HaltGood DEF IInv
<1> QED  BY <1>1, <1>3 DEF IInv, StartInv, GuestInv, MissingInv, guest

LEMMA SkippedJumpReturnsKeeps ==
  ASSUME IInv, SkippedJumpReturns PROVE IInv'
<1>1. /\ back = "skipped jump" /\ FunctionReturns("error", Home)
      /\ UNCHANGED <<guest, g_missing_targets>>
  BY DEF SkippedJumpReturns
<1>2. "error" \in Reasons /\ Home \in Places
  BY DEF Reasons, Places
<1>3. HostInv' /\ SavedInv' /\ back' # "start"
  BY <1>1, <1>2, InTrace, ReturnsGood DEF IInv
<1> QED  BY <1>1, <1>3 DEF IInv, StartInv, GuestInv, MissingInv, guest

LEMMA ChaseKeeps ==
  ASSUME IInv, Chase PROVE IInv'
<1>1. /\ back = "top" /\ g_stop_pc # Home
      /\ BeginTrace(host, g_stop_pc, "top")
      /\ UNCHANGED <<guest, saved, g_missing_targets>>
  BY DEF Chase
<1>2. host = <<>> /\ g_depth = Len(host)
  BY <1>1 DEF IInv, HostInv, GoodBack
<1>3. g_stop_pc \in Points
  BY <1>1 DEF IInv, HostInv, Places
<1>4. g_depth = 0 /\ g_depth < kMaxDispatchDepth
  BY <1>2, DispatchAssumption
<1>5. HostInv' /\ back' # "start"
  BY <1>1, <1>2, <1>3, <1>4, BeginGood DEF IInv, HostInv, Whys
<1> QED  BY <1>1, <1>5
         DEF IInv, StartInv, GuestInv, SavedInv, MissingInv, guest

LEMMA FinishKeeps ==
  ASSUME IInv, Finish PROVE IInv'
<1>1. /\ back = "top" /\ back' = "done"
      /\ UNCHANGED <<guest, host, g_depth, saved>>
  BY DEF Finish
<1>2. /\ MissingInv'
      /\ g_reason' \in Reasons /\ g_stop_pc' \in Places
  <2>1. CASE g_reason = "returned" /\ g_stop_pc # Home
    <3>1. /\ g_stop_pc \notin Lifted /\ record_missing(g_stop_pc)
          /\ SetStop("missing-dispatch", g_stop_pc)
      BY <2>1 DEF Finish
    <3>2. g_stop_pc \in Points
      BY <2>1 DEF IInv, HostInv, Places
    <3>3. MissingInv'
      BY <3>1, <3>2, RecordGood DEF IInv
    <3> QED  BY <3>1, <3>2, <3>3 DEF SetStop, Reasons, Places
  <2>2. CASE ~(g_reason = "returned" /\ g_stop_pc # Home)
    BY <2>2 DEF Finish, stop, MissingInv, IInv, HostInv
  <2> QED  BY <2>1, <2>2
<1>3. HostInv'
  BY <1>1, <1>2 DEF IInv, HostInv, GoodBack
<1> QED  BY <1>1, <1>2, <1>3 DEF IInv, StartInv, GuestInv, SavedInv, guest

----------------------------------------------------------------------------
(* The theorems. *)

LEMMA InitInv == Init => IInv
<1> SUFFICES ASSUME Init PROVE IInv
  OBVIOUS
<1>1. /\ gpc \in Functions /\ stack = <<Home>> /\ host = <<>>
      /\ back = "start" /\ g_reason = "returned" /\ g_stop_pc = Home
      /\ g_depth = 0 /\ saved = <<>> /\ g_missing_targets = {}
  BY DEF Init
<1>2. HostInv
  BY <1>1, DispatchAssumption
     DEF HostInv, GoodHost, GoodBack, Reasons, Places
<1>3. GuestInv /\ StartInv /\ SavedInv
  BY <1>1 DEF GuestInv, StartInv, SavedInv, Places, Points
<1>4. MissingInv
  BY <1>1, FS_EmptySet, DispatchAssumption DEF MissingInv
<1> QED  BY <1>2, <1>3, <1>4 DEF IInv

LEMMA NextInv == IInv /\ [Next]_vars => IInv'
<1> SUFFICES ASSUME IInv, [Next]_vars PROVE IInv'
  OBVIOUS
<1>1. CASE UNCHANGED vars
  BY <1>1 DEF IInv, HostInv, GoodBack, GuestInv, StartInv, SavedInv,
              MissingInv, vars, guest, stop
<1>2. CASE Start
  BY <1>2, StartKeeps
<1>3. CASE Ret
  BY <1>3, RetKeeps
<1>4. CASE Calls
  BY <1>4, DirectCallKeeps, IndirectCallKeeps, MissingCallKeeps,
     ImportCallKeeps DEF Calls
<1>5. CASE Jumps
  BY <1>5, TailJumpKeeps, MissingJumpKeeps, MissingBlockKeeps,
     ImportJumpKeeps DEF Jumps
<1>6. CASE Fault
  BY <1>6, FaultKeeps
<1>7. CASE Unwinding
  BY <1>7, CallReturnsKeeps, PropagateKeeps, SkippedJumpReturnsKeeps,
     ChaseKeeps, FinishKeeps DEF Unwinding
<1>8. CASE Terminated
  BY <1>1, <1>8 DEF Terminated
<1> QED  BY <1>1, <1>2, <1>3, <1>4, <1>5, <1>6, <1>7, <1>8 DEF Next, InMode

LEMMA AlwaysIInv == Spec => []IInv
BY InitInv, NextInv, PTL DEF Spec

LEMMA AlwaysInMode == Spec => []ModeInv
<1>1. Init => ModeInv
  BY DEF Init, ModeInv
<1>2. ModeInv /\ [Next]_vars => ModeInv'
  BY DEF ModeInv, Next, InMode, vars
<1> QED  BY <1>1, <1>2, PTL DEF Spec

\* Whatever the guest does, the stop state names a reason and an address of
\* the guest, the C stack is made of traces, and what is saved can be restored
\* (lifted_runtime.cpp:539-587, 886-934).
THEOREM TypeOKAlways == Spec => []TypeOK
<1>1. ASSUME IInv, ModeInv PROVE TypeOK
  <2>1. stack \in Seq(Points \cup {Home}) /\ gpc \in Points \cup {Home}
    BY <1>1 DEF IInv, GuestInv, Places
  <2>2. host \in Seq([why : Whys, body : Seq(Points)]) /\ g_depth \in Nat
    BY <1>1 DEF IInv, HostInv, GoodHost, Traces
  <2>3. /\ back \in Whys \cup {"start", "none", "done"}
        /\ g_reason \in Reasons /\ g_stop_pc \in Points \cup {Home}
    BY <1>1 DEF IInv, HostInv, GoodBack, Places
  <2>4. saved \in Seq([reason : Reasons, pc : Points \cup {Home}])
    BY <1>1 DEF IInv, SavedInv, Stops, Places
  <2>5. g_missing_targets \subseteq Points
    BY <1>1 DEF IInv, MissingInv
  <2> QED  BY <1>1, <2>1, <2>2, <2>3, <2>4, <2>5 DEF TypeOK, ModeInv
<1> QED  BY <1>1, AlwaysIInv, AlwaysInMode, PTL

\* Whatever way the traces end, by a return or by a longjmp over any number of
\* functions, g_depth counts the ones that are active and stays within the
\* limit (lifted_runtime.cpp:662-673, 705).
THEOREM DepthCountsAlways == Spec => []DepthCounts
<1>1. IInv => DepthCounts
  BY DEF IInv, HostInv, DepthCounts
<1> QED  BY <1>1, AlwaysIInv, PTL

\* Lifted code only runs inside a trace, so that halt always has a context to
\* jump to and never aborts (lifted_runtime.cpp:545-551).
THEOREM RunsInATraceAlways == Spec => []RunsInATrace
<1>1. ASSUME IInv PROVE RunsInATrace
  <2> SUFFICES ASSUME Running PROVE host # <<>> /\ Body # <<>>
    BY DEF RunsInATrace
  <2>1. host # <<>>
    BY <1>1, InTrace DEF IInv, Running
  <2>2. Body \in Seq(Points) /\ Len(Body) > 0
    BY <1>1, <2>1, Running1 DEF IInv
  <2> QED  BY <2>1, <2>2
<1> QED  BY <1>1, AlwaysIInv, PTL

\* For any number of missing functions, the list of them stays within its array
\* and never names one that is lifted (lifted_runtime.cpp:619-628).
THEOREM MissingOnlyUnliftedAlways == Spec => []MissingOnlyUnlifted
<1>1. IInv => MissingOnlyUnlifted
  BY DEF IInv, MissingInv, MissingOnlyUnlifted
<1> QED  BY <1>1, AlwaysIInv, PTL

----------------------------------------------------------------------------
(***************************************************************************)
(* Orderly guests: the lifted code that runs is the code the guest has     *)
(* reached, no return is taken for another's, and a return unwinds to its  *)
(* own function, for every guest of that kind and every value of the       *)
(* limits.                                                                 *)
(*                                                                         *)
(* What the runtime believes and where the guest is fit together through   *)
(* what each trace began with: the place on the guest's stack of the       *)
(* address that its first function returns to, that address, and how many  *)
(* stop states were saved.  Begun says how that follows from the trace     *)
(* below, and Matches that the guest's stack holds the return addresses of *)
(* all functions that wait.  InOrder, the inductive invariant, says that   *)
(* there are such beginnings while lifted code runs and when a trace has   *)
(* returned; after any other stop only the address it names matters.       *)
(***************************************************************************)

Beginnings == [at : Nat, ret : Places, kept : Nat]

\* The trace after the i-th, begun by why, begins with b.
Begun(h, g, i, why, b) ==
  \/ why = "top" /\ i = 0 /\ b = [at |-> 1, ret |-> Home, kept |-> 0]
  \/ /\ why = "call" /\ i > 0
     /\ b = [at   |-> g[i].at + Len(h[i].body),
             ret  |-> Last(h[i].body),
             kept |-> g[i].kept + Len(h[i].body) - 1]
  \/ why = "jump" /\ i > 0 /\ Len(h[i].body) = 1 /\ b = g[i]

\* Where on the guest's stack the last function of trace i returns from.
TopOf(h, g, i) == g[i].at + Len(h[i].body) - 1

\* The return addresses of the functions of trace i are on the guest's stack,
\* as far as that goes.
Pending(h, g, s, i) ==
  /\ g[i].at <= Len(s) => s[g[i].at] = g[i].ret
  /\ \A j \in 1 .. Len(h[i].body) - 1 :
       g[i].at + j <= Len(s) => s[g[i].at + j] = h[i].body[j]

Matches(h, g, s) ==
  /\ g \in Seq(Beginnings) /\ Len(g) = Len(h)
  /\ \A i \in 1 .. Len(h) : /\ Begun(h, g, i - 1, h[i].why, g[i])
                            /\ g[i].kept < g[i].at
                            /\ Pending(h, g, s, i)
  /\ \A i \in 1 .. Len(h) : \A k \in i + 1 .. Len(h) : TopOf(h, g, i) <= g[k].at

\* A trace that begins with b may come on top.
MayBegin(h, g, s, why, b) ==
  /\ Begun(h, g, Len(h), why, b) /\ b.kept < b.at
  /\ b.at <= Len(s) => s[b.at] = b.ret
  /\ \A i \in 1 .. Len(h) : TopOf(h, g, i) <= b.at

\* Lifted code runs in the function the guest is in.
RunsWith(g) ==
  /\ Matches(host, g, stack)
  /\ Len(stack) = TopOf(host, g, Len(host))
  /\ Len(saved) = g[Len(host)].kept + Len(Body) - 1
  /\ Here = gpc
  /\ g_reason \in {"returned", "error"} /\ g_stop_pc = Home
  /\ Cardinality(DirectlyActive(host)) = Len(saved)

\* A trace that began with b has returned.
ReturnsWith(g, b) ==
  /\ Matches(host, g, stack)
  /\ Begun(host, g, Len(host), back, b)
  /\ \A i \in 1 .. Len(host) : TopOf(host, g, i) <= b.at
  /\ Len(stack) = b.at - 1 /\ gpc = b.ret
  /\ g_stop_pc \in {b.ret, Home}
  /\ Len(saved) = b.kept
  /\ Cardinality(DirectlyActive(host)) = Len(saved)

\* A stop for want of code names the address the guest has reached.
StopsAtGuest == g_reason \notin {"returned", "error"} => g_stop_pc = gpc

Resumes == {Home} \cup {ReturnPoint[f] : f \in Functions}
Fresh == [reason : {"returned", "error"}, pc : {Home}]

Begins == stack = <<Home>> /\ saved = <<>>
Ends == (g_reason = "returned" => stack = <<>> /\ gpc = Home) /\ StopsAtGuest

InOrder ==
  /\ stack \in Seq(Resumes) /\ saved \in Seq(Fresh)
  /\ IsFiniteSet(DirectlyActive(host))
  /\ back = "start" => Begins
  /\ back = "none" => \E g : RunsWith(g)
  /\ back \in Whys /\ g_reason = "returned"
       => \E g, b : b \in Beginnings /\ ReturnsWith(g, b)
  /\ back \in Whys /\ g_reason # "returned" => StopsAtGuest
  /\ back = "done" => Ends

----------------------------------------------------------------------------
(* The beginnings of the traces, and the guest's stack. *)

\* What a trace and its beginning are.
LEMMA TraceIs ==
  ASSUME NEW h, GoodHost(h), NEW g, NEW s, Matches(h, g, s), NEW i \in 1 .. Len(h)
  PROVE  /\ h[i].body \in Seq(Points) /\ Len(h[i].body) \in Nat /\ Len(h[i].body) > 0
         /\ h[i].why \in Whys
         /\ g[i].at \in Nat /\ g[i].ret \in Places /\ g[i].kept \in Nat
         /\ TopOf(h, g, i) = g[i].at + Len(h[i].body) - 1 /\ TopOf(h, g, i) \in Nat
         /\ g[i].at <= TopOf(h, g, i)
<1>1. h[i] \in Traces /\ Len(h[i].body) > 0
  BY DEF GoodHost
<1>2. h[i].body \in Seq(Points) /\ h[i].why \in Whys
  BY <1>1 DEF Traces
<1>3. g[i] \in Beginnings
  BY DEF Matches
<1>4. g[i].at \in Nat /\ g[i].ret \in Places /\ g[i].kept \in Nat
  BY <1>3 DEF Beginnings
<1>5. Len(h[i].body) \in Nat
  BY <1>2
<1> QED  BY <1>1, <1>2, <1>4, <1>5 DEF TopOf

\* The guest's stack may change where no return address waits.
LEMMA MatchesOn ==
  ASSUME NEW h, GoodHost(h), NEW g, NEW s, NEW t, Matches(h, g, s),
         Len(s) \in Nat, Len(t) \in Nat,
         \A i \in 1 .. Len(h) : \A k \in 1 .. Len(t) :
           k <= TopOf(h, g, i) => k <= Len(s) /\ t[k] = s[k]
  PROVE  Matches(h, g, t)
<1>1. ASSUME NEW i \in 1 .. Len(h) PROVE Pending(h, g, t, i)
  <2> DEFINE p == g[i].at
             l == Len(h[i].body)
  <2>1. Pending(h, g, s, i) /\ g[i].kept < p
    BY DEF Matches
  <2>2. /\ p \in Nat /\ g[i].kept \in Nat /\ l \in Nat /\ l > 0
        /\ TopOf(h, g, i) = p + l - 1
    BY TraceIs
  <2>3. p > 0
    BY <2>1, <2>2
  <2> HIDE DEF p, l
  <2>4. ASSUME p <= Len(t) PROVE t[p] = g[i].ret
    <3>1. p \in 1 .. Len(t) /\ p <= TopOf(h, g, i)
      BY <2>2, <2>3, <2>4
    <3>2. p <= Len(s) /\ t[p] = s[p]
      BY <3>1
    <3> QED  BY <2>1, <3>2 DEF Pending, p
  <2>5. ASSUME NEW j \in 1 .. l - 1, p + j <= Len(t) PROVE t[p + j] = h[i].body[j]
    <3>1. p + j \in 1 .. Len(t) /\ p + j <= TopOf(h, g, i)
      BY <2>2, <2>3, <2>5
    <3>2. p + j <= Len(s) /\ t[p + j] = s[p + j]
      BY <3>1
    <3> QED  BY <2>1, <3>2 DEF Pending, p, l
  <2> QED  BY <2>4, <2>5 DEF Pending, p, l
<1> QED  BY <1>1 DEF Matches

\* It may lose its end.
LEMMA MatchesPopped ==
  ASSUME NEW h, GoodHost(h), NEW g, NEW s \in Seq(Resumes), s # <<>>, Matches(h, g, s)
  PROVE  Matches(h, g, Front(s))
<1>1. /\ Len(Front(s)) = Len(s) - 1 /\ Len(s) \in Nat \ {0}
      /\ \A k \in 1 .. Len(s) - 1 : Front(s)[k] = s[k]
  BY FrontLast
<1> DEFINE t == Front(s)
<1> HIDE DEF t
<1>2. Matches(h, g, t)
  BY <1>1, MatchesOn DEF t
<1> QED  BY <1>2 DEF t

\* It may grow beyond the return addresses that wait.
LEMMA MatchesPushed ==
  ASSUME NEW h, GoodHost(h), NEW g, NEW s \in Seq(Resumes), NEW x, Matches(h, g, s),
         \A i \in 1 .. Len(h) : TopOf(h, g, i) <= Len(s)
  PROVE  Matches(h, g, Append(s, x))
<1> DEFINE t == Append(s, x)
<1>1. /\ Len(t) = Len(s) + 1 /\ Len(s) \in Nat
      /\ \A k \in 1 .. Len(s) : t[k] = s[k]
  OBVIOUS
<1> HIDE DEF t
<1>2. ASSUME NEW i \in 1 .. Len(h), NEW k \in 1 .. Len(t), k <= TopOf(h, g, i)
      PROVE  k <= Len(s) /\ t[k] = s[k]
  <2>1. TopOf(h, g, i) <= Len(s) /\ TopOf(h, g, i) \in Nat
    BY TraceIs
  <2> QED  BY <1>1, <1>2, <2>1
<1>3. Matches(h, g, t)
  BY <1>1, <1>2, MatchesOn
<1> QED  BY <1>3 DEF t

\* The newest trace may go on with other functions, if those that wait in it
\* have their return addresses.
LEMMA MatchesRebodied ==
  ASSUME NEW h, GoodHost(h), h # <<>>, NEW g, NEW s, Matches(h, g, s),
         NEW b \in Seq(Points), Len(b) > 0,
         \A j \in 1 .. Len(b) - 1 :
           g[Len(h)].at + j <= Len(s) => s[g[Len(h)].at + j] = b[j]
  PROVE  Matches(WithBody(h, b), g, s)
<1> DEFINE n == Len(h)
           h2 == WithBody(h, b)
<1>1. n \in Nat /\ n > 0 /\ h \in Seq(Traces)
  BY DEF GoodHost
<1>2. h \in [1 .. n -> Traces] /\ n \in 1 .. n
  BY <1>1
<1>3. h[n] \in Traces
  BY <1>2
<1>4. /\ Len(h2) = n
      /\ \A i \in 1 .. n : i # n => h2[i] = h[i]
      /\ h2[n].why = h[n].why /\ h2[n].body = b
  <2>1. Len(h2) = n
    BY Rebody
  <2>2. h2 = [h EXCEPT ![n] = [h[n] EXCEPT !.body = b]]
    BY DEF WithBody
  <2>3. /\ \A i \in 1 .. n : i # n => h2[i] = h[i]
        /\ h2[n] = [h[n] EXCEPT !.body = b]
    BY <1>2, <2>2
  <2> QED  BY <1>3, <2>1, <2>3 DEF Traces
<1> HIDE DEF h2
<1>5. ASSUME NEW i \in 1 .. n
      PROVE  /\ Begun(h2, g, i - 1, h2[i].why, g[i])
             /\ g[i].kept < g[i].at
             /\ Pending(h2, g, s, i)
  <2>1. /\ Begun(h, g, i - 1, h[i].why, g[i]) /\ g[i].kept < g[i].at
        /\ Pending(h, g, s, i)
    BY DEF Matches
  <2>2. h2[i].why = h[i].why
    BY <1>4
  <2>3. i - 1 > 0 => h2[i - 1] = h[i - 1]
    BY <1>1, <1>4
  <2>4. Begun(h2, g, i - 1, h2[i].why, g[i])
    BY <2>1, <2>2, <2>3 DEF Begun
  <2>5. Pending(h2, g, s, i)
    BY <1>4, <2>1 DEF Pending
  <2> QED  BY <2>1, <2>4, <2>5
<1>6. ASSUME NEW i \in 1 .. n, NEW k \in i + 1 .. n PROVE TopOf(h2, g, i) <= g[k].at
  <2>1. TopOf(h, g, i) <= g[k].at
    BY DEF Matches
  <2>2. h2[i] = h[i]
    BY <1>1, <1>4
  <2> QED  BY <2>1, <2>2 DEF TopOf
<1> QED  BY <1>4, <1>5, <1>6 DEF Matches, h2

\* A new trace.
LEMMA MatchesBegun ==
  ASSUME NEW h, GoodHost(h), NEW g, NEW s, Matches(h, g, s),
         NEW why \in Whys, NEW a \in Points, NEW b \in Beginnings,
         MayBegin(h, g, s, why, b)
  PROVE  /\ Matches(Append(h, [why |-> why, body |-> <<a>>]), Append(g, b), s)
         /\ Append(g, b)[Len(h) + 1] = b
<1> DEFINE t == [why |-> why, body |-> <<a>>]
           h2 == Append(h, t)
           g2 == Append(g, b)
           n == Len(h)
<1>0. /\ Begun(h, g, Len(h), why, b) /\ b.kept < b.at
      /\ b.at <= Len(s) => s[b.at] = b.ret
      /\ \A i \in 1 .. n : TopOf(h, g, i) <= b.at
  BY DEF MayBegin
<1>1. t.why = why /\ Len(t.body) = 1 /\ t \in Traces
  BY DEF Traces
<1> HIDE DEF t
<1>2. h \in Seq(Traces) /\ n \in Nat /\ g \in Seq(Beginnings) /\ Len(g) = n
  BY DEF GoodHost, Matches
<1>3. /\ Len(h2) = n + 1 /\ h2[n + 1] = t
      /\ \A i \in 1 .. n : h2[i] = h[i]
  BY <1>1, <1>2
<1>4. /\ g2 \in Seq(Beginnings) /\ Len(g2) = n + 1 /\ g2[n + 1] = b
      /\ \A i \in 1 .. n : g2[i] = g[i]
  BY <1>2
<1> HIDE DEF h2, g2
<1>5. ASSUME NEW i \in 1 .. n + 1
      PROVE  /\ Begun(h2, g2, i - 1, h2[i].why, g2[i])
             /\ g2[i].kept < g2[i].at
             /\ Pending(h2, g2, s, i)
  <2>1. i - 1 > 0 => h2[i - 1] = h[i - 1] /\ g2[i - 1] = g[i - 1]
    BY <1>2, <1>3, <1>4
  <2>2. CASE i \in 1 .. n
    <3>1. /\ Begun(h, g, i - 1, h[i].why, g[i]) /\ g[i].kept < g[i].at
          /\ Pending(h, g, s, i) /\ h2[i] = h[i] /\ g2[i] = g[i]
      BY <1>3, <1>4, <2>2 DEF Matches
    <3> QED  BY <2>1, <3>1 DEF Begun, Pending
  <2>3. CASE i = n + 1
    <3>1. i - 1 = n /\ h2[i] = t /\ g2[i] = b
      BY <1>2, <1>3, <1>4, <2>3
    <3>2. Begun(h2, g2, n, why, b)
      BY <1>0, <2>1, <3>1 DEF Begun
    <3>3. Pending(h2, g2, s, i)
      <4> DEFINE l == Len(h2[i].body)
      <4>0. l = 1
        BY <1>1, <3>1
      <4> HIDE DEF l
      <4>1. 1 .. l - 1 = {}
        BY <4>0
      <4>2. g2[i].at <= Len(s) => s[g2[i].at] = g2[i].ret
        BY <1>0, <3>1
      <4> QED  BY <4>1, <4>2 DEF Pending, l
    <3> QED  BY <1>0, <1>1, <3>1, <3>2, <3>3
  <2> QED  BY <1>2, <2>2, <2>3
<1>6. ASSUME NEW i \in 1 .. n + 1, NEW k \in i + 1 .. n + 1
      PROVE  TopOf(h2, g2, i) <= g2[k].at
  <2>1. i \in 1 .. n
    BY <1>2, <1>6
  <2>2. TopOf(h2, g2, i) = TopOf(h, g, i)
    BY <1>3, <1>4, <2>1 DEF TopOf
  <2>3. CASE k \in 1 .. n
    BY <1>4, <2>1, <2>2, <2>3, <1>6 DEF Matches
  <2>4. CASE k = n + 1
    BY <1>0, <1>4, <2>1, <2>2, <2>4
  <2> QED  BY <1>2, <2>1, <2>3, <2>4, <1>6
<1>7. Matches(h2, g2, s)
  BY <1>3, <1>4, <1>5, <1>6 DEF Matches
<1> QED  BY <1>4, <1>7 DEF h2, g2, t

\* The newest trace is gone, and what it began with is what it returns with.
LEMMA MatchesEnded ==
  ASSUME NEW h, GoodHost(h), h # <<>>, NEW g, NEW s, Matches(h, g, s)
  PROVE  /\ Matches(Front(h), Front(g), s)
         /\ Begun(Front(h), Front(g), Len(Front(h)), Last(h).why, Last(g))
         /\ Last(g) = g[Len(h)] /\ Last(h) = h[Len(h)] /\ Last(g) \in Beginnings
         /\ \A i \in 1 .. Len(Front(h)) : TopOf(Front(h), Front(g), i) <= Last(g).at
<1> DEFINE n == Len(h)
           h2 == Front(h)
           g2 == Front(g)
<1>1. /\ h \in Seq(Traces) /\ n \in Nat \ {0} /\ Len(h2) = n - 1
      /\ \A i \in 1 .. n - 1 : h2[i] = h[i]
  BY FrontLast DEF GoodHost
<1>2. g \in Seq(Beginnings) /\ Len(g) = n /\ g # <<>>
  BY <1>1 DEF Matches
<1>3. /\ g2 \in Seq(Beginnings) /\ Len(g2) = n - 1
      /\ \A i \in 1 .. n - 1 : g2[i] = g[i]
  BY <1>2, FrontLast
<1>4. Last(g) = g[n] /\ Last(h) = h[n] /\ Last(g) \in Beginnings
  BY <1>1, <1>2 DEF Last
<1> HIDE DEF h2, g2
<1>5. ASSUME NEW i \in 1 .. n, NEW why, NEW b, Begun(h, g, i - 1, why, b)
      PROVE  Begun(h2, g2, i - 1, why, b)
  <2>1. i - 1 > 0 => h2[i - 1] = h[i - 1] /\ g2[i - 1] = g[i - 1]
    BY <1>1, <1>3
  <2> QED  BY <1>5, <2>1 DEF Begun
<1>6. ASSUME NEW i \in 1 .. n - 1
      PROVE  /\ Begun(h2, g2, i - 1, h2[i].why, g2[i])
             /\ g2[i].kept < g2[i].at
             /\ Pending(h2, g2, s, i)
  <2>1. i \in 1 .. n /\ h2[i] = h[i] /\ g2[i] = g[i]
    BY <1>1, <1>3
  <2>2. /\ Begun(h, g, i - 1, h[i].why, g[i]) /\ g[i].kept < g[i].at
        /\ Pending(h, g, s, i)
    BY <2>1 DEF Matches
  <2>3. Begun(h2, g2, i - 1, h[i].why, g[i])
    BY <1>5, <2>1, <2>2
  <2> QED  BY <2>1, <2>2, <2>3 DEF Pending
<1>7. ASSUME NEW i \in 1 .. n - 1
      PROVE  /\ TopOf(h2, g2, i) = TopOf(h, g, i)
             /\ \A k \in i + 1 .. n : TopOf(h2, g2, i) <= g[k].at
  <2>1. i \in 1 .. n /\ h2[i] = h[i] /\ g2[i] = g[i]
    BY <1>1, <1>3
  <2> QED  BY <2>1 DEF Matches, TopOf
<1>8. Matches(h2, g2, s)
  <2>1. ASSUME NEW i \in 1 .. n - 1, NEW k \in i + 1 .. n - 1
        PROVE  TopOf(h2, g2, i) <= g2[k].at
    <3>1. k \in i + 1 .. n /\ k \in 1 .. n - 1
      BY <1>1
    <3> QED  BY <1>3, <1>7, <3>1
  <2> QED  BY <1>1, <1>3, <1>6, <2>1 DEF Matches
<1>9. Begun(h2, g2, n - 1, h[n].why, g[n])
  <2>1. n \in 1 .. n /\ Begun(h, g, n - 1, h[n].why, g[n])
    BY <1>1 DEF Matches
  <2> QED  BY <1>5, <2>1
<1>10. \A i \in 1 .. n - 1 : TopOf(h2, g2, i) <= g[n].at
  <2>1. ASSUME NEW i \in 1 .. n - 1 PROVE TopOf(h2, g2, i) <= g[n].at
    <3>1. n \in i + 1 .. n
      BY <1>1
    <3> QED  BY <1>7, <3>1
  <2> QED  BY <2>1
<1> QED  BY <1>1, <1>4, <1>8, <1>9, <1>10 DEF h2, g2

----------------------------------------------------------------------------
(* The functions that are active by a direct call. *)

LEMMA DirectlyActiveIs ==
  ASSUME NEW h, GoodHost(h)
  PROVE  \A p : p \in DirectlyActive(h) <=>
           \E t \in 1 .. Len(h) : \E j \in 2 .. Len(h[t].body) : p = <<t, j>>
<1>1. DOMAIN h = 1 .. Len(h)
  BY DEF GoodHost
<1> QED  BY <1>1 DEF DirectlyActive

\* Only the lengths of the bodies matter, and only those of two and more.
LEMMA DirectSame ==
  ASSUME NEW h, GoodHost(h), NEW k, GoodHost(k),
         Len(h) <= Len(k),
         \A t \in 1 .. Len(h) : Len(h[t].body) = Len(k[t].body),
         \A t \in Len(h) + 1 .. Len(k) : Len(k[t].body) = 1
  PROVE  DirectlyActive(h) = DirectlyActive(k)
<1>1. Len(h) \in Nat /\ Len(k) \in Nat
  BY DEF GoodHost
<1>2. ASSUME NEW p PROVE p \in DirectlyActive(h) <=> p \in DirectlyActive(k)
  <2>1. p \in DirectlyActive(h) <=>
          \E t \in 1 .. Len(h) : \E j \in 2 .. Len(h[t].body) : p = <<t, j>>
    BY DirectlyActiveIs
  <2>2. p \in DirectlyActive(k) <=>
          \E t \in 1 .. Len(k) : \E j \in 2 .. Len(k[t].body) : p = <<t, j>>
    BY DirectlyActiveIs
  <2>3. \A t \in 1 .. Len(k) : t \in 1 .. Len(h) \/ t \in Len(h) + 1 .. Len(k)
    BY <1>1
  <2>4. \A t \in 1 .. Len(h) : t \in 1 .. Len(k)
    BY <1>1
  <2>5. ASSUME NEW t \in 1 .. Len(k), NEW j, t \in Len(h) + 1 .. Len(k)
        PROVE  j \notin 2 .. Len(k[t].body)
    <3>1. Len(k[t].body) = 1
      BY <2>5
    <3>2. 2 .. 1 = {}
      OBVIOUS
    <3> QED  BY <3>1, <3>2
  <2>6. \A t \in 1 .. Len(h) : 2 .. Len(h[t].body) = 2 .. Len(k[t].body)
    OBVIOUS
  <2> QED  BY <2>1, <2>2, <2>3, <2>4, <2>5, <2>6, Zenon
<1> QED  BY <1>2

\* A direct call adds its function to them, and its return takes it away.
LEMMA DirectEntered ==
  ASSUME NEW h, GoodHost(h), NEW k, GoodHost(k), h # <<>>, Len(k) = Len(h),
         \A t \in 1 .. Len(h) - 1 : Len(h[t].body) = Len(k[t].body),
         Len(k[Len(h)].body) = Len(h[Len(h)].body) + 1
  PROVE  LET p == <<Len(h), Len(h[Len(h)].body) + 1>>
         IN  /\ DirectlyActive(k) = DirectlyActive(h) \cup {p}
             /\ DirectlyActive(h) = DirectlyActive(k) \ {p}
             /\ p \in DirectlyActive(k) /\ p \notin DirectlyActive(h)
<1> DEFINE n == Len(h)
           l == Len(h[n].body)
<1>1. n \in Nat \ {0} /\ h \in Seq(Traces)
  BY FrontLast DEF GoodHost
<1>2. l \in Nat /\ l > 0
  <2>1. n \in 1 .. n
    BY <1>1
  <2>2. h[n] \in Traces /\ Len(h[n].body) > 0
    BY <1>1, <2>1 DEF GoodHost
  <2> QED  BY <2>2 DEF Traces
<1>3. \A p : p \in DirectlyActive(h) <=>
               \E t \in 1 .. n : \E j \in 2 .. Len(h[t].body) : p = <<t, j>>
  BY DirectlyActiveIs
<1>4. \A p : p \in DirectlyActive(k) <=>
               \E t \in 1 .. n : \E j \in 2 .. Len(k[t].body) : p = <<t, j>>
  BY DirectlyActiveIs
<1>5. \A t \in 1 .. n : t # n => Len(h[t].body) = Len(k[t].body)
  BY <1>1
<1>6. Len(k[n].body) = l + 1 /\ n \in 1 .. n
  BY <1>1
<1> HIDE DEF n, l
<1>7. <<n, l + 1>> \in DirectlyActive(k)
  <2>1. l + 1 \in 2 .. Len(k[n].body)
    BY <1>2, <1>6
  <2> QED  BY <1>4, <1>6, <2>1
<1>8. <<n, l + 1>> \notin DirectlyActive(h)
  <2>1. l + 1 \notin 2 .. l
    BY <1>2
  <2> QED  BY <1>3, <2>1 DEF l
<1>9. ASSUME NEW p, p # <<n, l + 1>>
      PROVE  p \in DirectlyActive(h) <=> p \in DirectlyActive(k)
  <2>1. ASSUME NEW t \in 1 .. n, NEW j
        PROVE  j \in 2 .. Len(h[t].body) => j \in 2 .. Len(k[t].body)
    BY <1>2, <1>5, <1>6 DEF l
  <2>2. ASSUME NEW t \in 1 .. n, NEW j, ~(t = n /\ j = l + 1)
        PROVE  j \in 2 .. Len(k[t].body) => j \in 2 .. Len(h[t].body)
    BY <1>2, <1>5, <1>6, <2>2 DEF l
  <2> QED  BY <1>3, <1>4, <1>9, <2>1, <2>2
<1> QED  BY <1>7, <1>8, <1>9 DEF n, l

----------------------------------------------------------------------------
(* Where the guest is while lifted code runs, and how it goes on. *)

LEMMA ResumeAfter ==
  ASSUME NEW a \in Points
  PROVE  After(a) \in Resumes /\ After(a) \in Points /\ After(a) # Home
         /\ (ReturnsUnlifted => After(a) \notin Lifted)
BY DispatchAssumption DEF After, Points, Resumes, ReturnsUnlifted

LEMMA RunningIs ==
  ASSUME HostInv, stack \in Seq(Resumes), host # <<>>,
         NEW g, RunsWith(g)
  PROVE  /\ GoodHost(host) /\ Len(host) \in Nat \ {0} /\ Len(host) \in 1 .. Len(host)
         /\ Body = host[Len(host)].body /\ Body \in Seq(Points)
         /\ Len(Body) \in Nat \ {0} /\ Here = Body[Len(Body)] /\ Here \in Points
         /\ g[Len(host)] \in Beginnings
         /\ g[Len(host)].at \in Nat /\ g[Len(host)].kept \in Nat
         /\ g[Len(host)].kept < g[Len(host)].at
         /\ Len(stack) = g[Len(host)].at + Len(Body) - 1
         /\ \A i \in 1 .. Len(host) : TopOf(host, g, i) <= Len(stack)
         /\ Pending(host, g, stack, Len(host))
         /\ stack # <<>>
         /\ Len(Body) = 1 => Last(stack) = g[Len(host)].ret
         /\ Len(Body) > 1 => Last(stack) = Body[Len(Body) - 1]
         /\ ~DirectlyCalled => Len(Body) = 1
<1> DEFINE n == Len(host)
           l == Len(Body)
<1>1. /\ GoodHost(host) /\ n \in Nat \ {0} /\ n \in 1 .. n
  <2>1. GoodHost(host) /\ host \in Seq(Traces)
    BY DEF HostInv, GoodHost
  <2> QED  BY <2>1, FrontLast
<1>2. /\ Body = host[n].body /\ Body \in Seq(Points)
      /\ l \in Nat \ {0} /\ Here = Body[l] /\ Here \in Points
  <2>1. Body \in Seq(Points) /\ Len(Body) > 0 /\ Here \in Points
    BY Running1
  <2> QED  BY <2>1 DEF Body, Here, Last
<1>3. Matches(host, g, stack) /\ Len(stack) = TopOf(host, g, n)
  BY DEF RunsWith
<1>4. /\ g[n] \in Beginnings /\ g[n].at \in Nat /\ g[n].kept \in Nat
      /\ g[n].kept < g[n].at /\ Pending(host, g, stack, n)
  <2>1. g[n] \in Beginnings
    BY <1>1, <1>3 DEF Matches
  <2> QED  BY <1>1, <1>3, <2>1, TraceIs DEF Matches
<1>5. Len(stack) = g[n].at + l - 1 /\ Len(stack) \in Nat
  BY <1>2, <1>3 DEF TopOf
<1>6. ASSUME NEW i \in 1 .. n PROVE TopOf(host, g, i) <= Len(stack)
  <2>1. CASE i = n
    <3>1. TopOf(host, g, i) = Len(stack)
      BY <1>3, <2>1
    <3> QED  BY <1>5, <3>1
  <2>2. CASE i # n
    <3>1. n \in i + 1 .. n
      BY <1>1, <2>2
    <3>2. TopOf(host, g, i) <= g[n].at
      BY <1>3, <3>1 DEF Matches
    <3>3. TopOf(host, g, i) \in Nat
      BY <1>1, <1>3, TraceIs
    <3> QED  BY <1>2, <1>4, <1>5, <3>2, <3>3
  <2> QED  BY <2>1, <2>2
<1>7. stack # <<>> /\ Last(stack) = stack[g[n].at + l - 1]
  <2> DEFINE p == g[n].at
             q == g[n].kept
  <2>1. /\ p \in Nat /\ q \in Nat /\ q < p /\ l \in Nat \ {0}
        /\ Len(stack) = p + l - 1
    BY <1>2, <1>4, <1>5
  <2> HIDE DEF p, q, l
  <2>2. Len(stack) > 0
    BY <2>1
  <2>3. stack # <<>>
    BY <2>2
  <2> QED  BY <2>1, <2>3 DEF Last, p, l
<1>8. l = 1 => Last(stack) = g[n].ret
  BY <1>2, <1>4, <1>5, <1>7 DEF Pending
<1>9. ASSUME l > 1 PROVE Last(stack) = Body[l - 1]
  <2>1. l - 1 \in 1 .. l - 1 /\ g[n].at + (l - 1) <= Len(stack)
    BY <1>2, <1>4, <1>5, <1>9
  <2>2. stack[g[n].at + (l - 1)] = Body[l - 1]
    BY <1>2, <1>4, <2>1 DEF Pending
  <2>3. g[n].at + (l - 1) = g[n].at + l - 1
    BY <1>2, <1>4
  <2> QED  BY <1>7, <2>2, <2>3
<1>10. ~DirectlyCalled => l = 1
  <2>1. ~DirectlyCalled => ~(l > 1)
    BY DEF DirectlyCalled
  <2>2. l \in Nat \ {0}
    BY <1>2
  <2> HIDE DEF l
  <2> QED  BY <2>1, <2>2
<1> QED  BY <1>1, <1>2, <1>4, <1>5, <1>6, <1>7, <1>8, <1>9, <1>10

\* The running trace goes on with other functions.
LEMMA GoesOn ==
  ASSUME GoodHost(host), host # <<>>, NEW g, Matches(host, g, stack'),
         NEW b \in Seq(Points), Len(b) > 0, host' = WithBody(host, b),
         \A j \in 1 .. Len(b) - 1 :
           g[Len(host)].at + j <= Len(stack') => stack'[g[Len(host)].at + j] = b[j],
         Len(stack') = g[Len(host)].at + Len(b) - 1,
         Len(saved') = g[Len(host)].kept + Len(b) - 1,
         gpc' = b[Len(b)],
         g_reason' \in {"returned", "error"}, g_stop_pc' = Home,
         Cardinality(DirectlyActive(host')) = Len(saved')
  PROVE  \E k : RunsWith(k)'
<1>1. Matches(host', g, stack')
  BY MatchesRebodied
<1>2. Len(host') = Len(host) /\ Last(host').body = b
  BY Rebody
<1>3. host'[Len(host')].body = b
  BY <1>2 DEF Last
<1>4. Body' = b /\ Here' = b[Len(b)]
  BY <1>2 DEF Body, Here, Last
<1>5. RunsWith(g)'
  BY <1>1, <1>2, <1>3, <1>4 DEF RunsWith, TopOf
<1> QED  BY <1>5

\* A new trace runs.
LEMMA BeginsRunning ==
  ASSUME NEW h, GoodHost(h), NEW g, Matches(h, g, stack'),
         NEW why \in Whys, NEW a \in Points, NEW b \in Beginnings,
         BeginTrace(h, a, why), MayBegin(h, g, stack', why, b),
         Len(stack') = b.at, stack'[b.at] = b.ret, Len(saved') = b.kept, gpc' = a,
         IsFiniteSet(DirectlyActive(h)), Cardinality(DirectlyActive(h)) = Len(saved')
  PROVE  back' = "none" /\ IsFiniteSet(DirectlyActive(host')) /\ \E k : RunsWith(k)'
<1> DEFINE t == [why |-> why, body |-> <<a>>]
           k == Append(g, b)
<1>1. /\ host' = Append(h, t) /\ back' = "none"
      /\ g_reason' = "returned" /\ g_stop_pc' = Home
  BY DEF BeginTrace, SetStop
<1>2. Matches(host', k, stack') /\ k[Len(h) + 1] = b
  <2> DEFINE s == stack'
  <2>1. Matches(h, g, s) /\ MayBegin(h, g, s, why, b)
    OBVIOUS
  <2> HIDE DEF s
  <2>2. Matches(Append(h, t), k, s) /\ k[Len(h) + 1] = b
    BY <2>1, MatchesBegun
  <2> QED  BY <1>1, <2>2 DEF s
<1> HIDE DEF k
<1>3. h \in Seq(Traces) /\ t \in Traces /\ t.body = <<a>> /\ Len(h) \in Nat
  BY DEF GoodHost, Traces
<1> HIDE DEF t
<1>4. /\ Len(host') = Len(h) + 1 /\ host'[Len(h) + 1] = t
      /\ \A i \in 1 .. Len(h) : host'[i] = h[i]
      /\ host' \in Seq(Traces)
  BY <1>1, <1>3
<1>5. Last(host') = t
  BY <1>4 DEF Last
<1>6. Body' = <<a>> /\ Here' = a /\ Len(Body') = 1
  <2>1. Body' = <<a>>
    BY <1>3, <1>5 DEF Body
  <2>2. Here' = Last(<<a>>)
    BY <2>1 DEF Here
  <2> QED  BY <2>1, <2>2 DEF Last
<1>7. TopOf(host', k, Len(host')) = b.at
  <2>1. b.at \in Nat
    BY DEF Beginnings
  <2>2. k[Len(host')] = b /\ Len(host'[Len(host')].body) = 1
    <3>1. Len(host') = Len(h) + 1 /\ host'[Len(h) + 1].body = <<a>>
      BY <1>3, <1>4
    <3> QED  BY <1>2, <3>1
  <2>3. TopOf(host', k, Len(host')) = b.at + 1 - 1
    BY <2>2 DEF TopOf
  <2> QED  BY <2>1, <2>3
<1>8. DirectlyActive(host') = DirectlyActive(h)
  <2>1. GoodHost(host')
    <3>1. \A i \in 1 .. Len(host') : i \in 1 .. Len(h) \/ i = Len(h) + 1
      BY <1>3, <1>4
    <3>2. ASSUME NEW i \in 1 .. Len(host') PROVE Len(host'[i].body) > 0
      <4>1. CASE i \in 1 .. Len(h)
        BY <1>4, <4>1 DEF GoodHost
      <4>2. CASE i = Len(h) + 1
        <5>1. host'[i].body = <<a>>
          BY <1>3, <1>4, <4>2
        <5> QED  BY <5>1
      <4> QED  BY <3>1, <4>1, <4>2
    <3>3. ASSUME NEW i \in 1 .. Len(host') PROVE host'[i].why = "top" <=> i = 1
      <4>1. CASE i \in 1 .. Len(h)
        BY <1>4, <4>1 DEF GoodHost
      <4>2. CASE i = Len(h) + 1
        <5>1. host'[i].why = why
          BY <1>4, <4>2 DEF t
        <5>2. why = "top" <=> Len(h) = 0
          BY <1>3 DEF Begun, MayBegin
        <5> QED  BY <1>3, <4>2, <5>1, <5>2
      <4> QED  BY <3>1, <4>1, <4>2
    <3> QED  BY <1>4, <3>2, <3>3 DEF GoodHost
  <2>2. \A i \in 1 .. Len(h) : Len(h[i].body) = Len(host'[i].body)
    BY <1>4
  <2>3. \A i \in Len(h) + 1 .. Len(host') : Len(host'[i].body) = 1
    <3>1. \A i \in Len(h) + 1 .. Len(host') : i = Len(h) + 1
      BY <1>3, <1>4
    <3>2. Len(t.body) = 1
      BY <1>3
    <3> QED  BY <1>4, <3>1, <3>2
  <2>4. Len(h) <= Len(host')
    BY <1>3, <1>4
  <2> QED  BY <2>1, <2>2, <2>3, <2>4, DirectSame
<1>9. b.kept \in Nat
  BY DEF Beginnings
<1>10. RunsWith(k)'
  <2>1. Len(saved') = k[Len(host')].kept + Len(Body') - 1
    BY <1>2, <1>3, <1>4, <1>6, <1>9
  <2> QED  BY <1>1, <1>2, <1>6, <1>7, <1>8, <2>1 DEF RunsWith
<1> QED  BY <1>1, <1>8, <1>10

\* Another body for the newest trace, and how many are then active directly.
LEMMA DirectRebodied ==
  ASSUME NEW h, GoodHost(h), h # <<>>, NEW b \in Seq(Points), Len(b) > 0,
         IsFiniteSet(DirectlyActive(h))
  PROVE  LET d == DirectlyActive(WithBody(h, b))
             l == Len(h[Len(h)].body)
             m == Cardinality(DirectlyActive(h))
         IN  /\ Len(b) = l => d = DirectlyActive(h)
             /\ Len(b) = l + 1 => IsFiniteSet(d) /\ Cardinality(d) = m + 1
             /\ Len(b) + 1 = l => IsFiniteSet(d) /\ Cardinality(d) = m - 1
<1> DEFINE n == Len(h)
           l == Len(h[n].body)
           k == WithBody(h, b)
           D == DirectlyActive(h)
           E == DirectlyActive(k)
<1>1. n \in Nat \ {0} /\ h \in Seq(Traces) /\ n \in 1 .. n
  <2>1. h \in Seq(Traces)
    BY DEF GoodHost
  <2> QED  BY <2>1, FrontLast
<1>2. GoodHost(k) /\ Len(k) = n /\ k # <<>> /\ Last(k).body = b
  BY Rebody
<1>3. k[n].body = b
  BY <1>2 DEF Last
<1>4. \A t \in 1 .. n : t # n => k[t] = h[t]
  BY <1>1 DEF WithBody
<1>5. l \in Nat /\ Len(b) \in Nat /\ Cardinality(D) \in Nat
  <2>1. h[n] \in Traces
    BY <1>1
  <2> QED  BY <2>1, FS_CardinalityType DEF Traces
<1>6. \A t \in 1 .. n - 1 : Len(h[t].body) = Len(k[t].body)
  BY <1>1, <1>4
<1>6a. Len(k[n].body) = Len(b) /\ Len(h[n].body) = l
  BY <1>3
<1> HIDE DEF k
<1>7. ASSUME Len(b) = l PROVE E = D
  <2>1. \A t \in 1 .. n : Len(h[t].body) = Len(k[t].body)
    BY <1>1, <1>4, <1>6a, <1>7
  <2>2. n + 1 .. n = {} /\ n <= n
    BY <1>1
  <2> QED  BY <1>2, <2>1, <2>2, DirectSame
<1>8. ASSUME Len(b) = l + 1 PROVE IsFiniteSet(E) /\ Cardinality(E) = Cardinality(D) + 1
  <2>1. E = D \cup {<<n, l + 1>>} /\ <<n, l + 1>> \notin D
    BY <1>2, <1>6, <1>6a, <1>8, DirectEntered
  <2> QED  BY <2>1, FS_AddElement
<1>9. ASSUME Len(b) + 1 = l PROVE IsFiniteSet(E) /\ Cardinality(E) = Cardinality(D) - 1
  <2>1. /\ GoodHost(k) /\ k # <<>> /\ Len(h) = Len(k)
        /\ \A t \in 1 .. Len(k) - 1 : Len(k[t].body) = Len(h[t].body)
        /\ Len(h[Len(k)].body) = Len(k[Len(k)].body) + 1
    BY <1>2, <1>6, <1>6a, <1>9
  <2> DEFINE p == <<Len(k), Len(k[Len(k)].body) + 1>>
  <2>2. E = D \ {p} /\ p \in D
    BY <2>1, DirectEntered
  <2> HIDE DEF p
  <2> QED  BY <2>2, FS_RemoveElement
<1> QED  BY <1>7, <1>8, <1>9 DEF k

\* The newest trace is gone.
LEMMA DirectEnded ==
  ASSUME NEW h, GoodHost(h), h # <<>>
  PROVE  /\ GoodHost(Front(h))
         /\ DirectlyActive(Front(h)) \subseteq DirectlyActive(h)
         /\ Len(Last(h).body) = 1 => DirectlyActive(Front(h)) = DirectlyActive(h)
<1> DEFINE n == Len(h)
           k == Front(h)
<1>1. /\ h \in Seq(Traces) /\ n \in Nat \ {0} /\ k \in Seq(Traces) /\ Len(k) = n - 1
      /\ \A i \in 1 .. n - 1 : k[i] = h[i]
  BY FrontLast DEF GoodHost
<1>2. Last(h) = h[n]
  BY DEF Last
<1> HIDE DEF k
<1>3. GoodHost(k)
  BY <1>1 DEF GoodHost
<1>4. DirectlyActive(k) \subseteq DirectlyActive(h)
  <2>1. \A p : p \in DirectlyActive(k) <=>
          \E t \in 1 .. n - 1 : \E j \in 2 .. Len(k[t].body) : p = <<t, j>>
    BY <1>1, <1>3, DirectlyActiveIs
  <2>2. \A p : p \in DirectlyActive(h) <=>
          \E t \in 1 .. n : \E j \in 2 .. Len(h[t].body) : p = <<t, j>>
    BY DirectlyActiveIs
  <2>3. \A t \in 1 .. n - 1 : t \in 1 .. n /\ k[t] = h[t]
    BY <1>1
  <2> QED  BY <2>1, <2>2, <2>3, Zenon
<1>5. ASSUME Len(Last(h).body) = 1 PROVE DirectlyActive(k) = DirectlyActive(h)
  <2>1. Len(k) <= n /\ \A t \in Len(k) + 1 .. n : t = n
    BY <1>1
  <2>2. \A t \in Len(k) + 1 .. n : Len(h[t].body) = 1
    BY <1>2, <1>5, <2>1
  <2>3. \A t \in 1 .. Len(k) : Len(k[t].body) = Len(h[t].body)
    BY <1>1
  <2> QED  BY <1>3, <2>1, <2>2, <2>3, DirectSame
<1> QED  BY <1>3, <1>4, <1>5 DEF k

\* The newest trace returns.
LEMMA ReturnsFrom ==
  ASSUME GoodHost(host), host # <<>>, NEW g, Matches(host, g, stack'),
         NEW pc, EndTrace("returned", pc), pc \in {g[Len(host)].ret, Home},
         Len(stack') = g[Len(host)].at - 1, gpc' = g[Len(host)].ret,
         Len(saved') = g[Len(host)].kept,
         Cardinality(DirectlyActive(host')) = Len(saved')
  PROVE  /\ g_reason' = "returned"
         /\ \E k, b : b \in Beginnings /\ ReturnsWith(k, b)'
<1> DEFINE k == Front(g)
<1>0. PICK b : b = g[Len(host)]
  OBVIOUS
<1>1. /\ host' = Front(host) /\ back' = Last(host).why
      /\ g_reason' = "returned" /\ g_stop_pc' = pc
  BY DEF EndTrace, SetStop
<1>2. /\ Matches(Front(host), k, stack')
      /\ Begun(Front(host), k, Len(Front(host)), Last(host).why, Last(g))
      /\ Last(g) = b /\ Last(g) \in Beginnings
      /\ \A i \in 1 .. Len(Front(host)) : TopOf(Front(host), k, i) <= Last(g).at
  <2> DEFINE s == stack'
  <2>1. Matches(host, g, s)
    OBVIOUS
  <2> HIDE DEF s
  <2>2. /\ Matches(Front(host), k, s)
        /\ Begun(Front(host), k, Len(Front(host)), Last(host).why, Last(g))
        /\ Last(g) = g[Len(host)] /\ Last(g) \in Beginnings
        /\ \A i \in 1 .. Len(Front(host)) : TopOf(Front(host), k, i) <= Last(g).at
    BY <2>1, MatchesEnded, Zenon
  <2> QED  BY <1>0, <2>2 DEF s
<1>2a. /\ Begun(Front(host), k, Len(Front(host)), Last(host).why, b)
       /\ b \in Beginnings
       /\ \A i \in 1 .. Len(Front(host)) : TopOf(Front(host), k, i) <= b.at
  BY <1>2
<1>3. Len(stack') = b.at - 1 /\ gpc' = b.ret /\ Len(saved') = b.kept
      /\ pc \in {b.ret, Home}
  BY <1>0
<1> HIDE DEF k
<1>4. ReturnsWith(k, b)'
  BY <1>1, <1>2, <1>2a, <1>3 DEF ReturnsWith
<1> QED  BY <1>1, <1>2a, <1>4

\* Any other end is a stop, at the address the guest has reached if it was for
\* want of code there.
LEMMA HaltInOrder ==
  ASSUME HostInv, InOrder, host # <<>>, NEW reason, NEW pc, halt(reason, pc),
         reason # "returned", reason = "error" \/ pc = gpc', stack' \in Seq(Resumes)
  PROVE  InOrder'
<1>1. /\ host' = Front(host) /\ back' = Last(host).why /\ saved' = saved
      /\ g_reason' = reason /\ g_stop_pc' = pc
  BY DEF halt, EndTrace, SetStop
<1>2. GoodHost(host)
  BY DEF HostInv
<1>3. back' \in Whys
  BY <1>1, Running1
<1>4. IsFiniteSet(DirectlyActive(host'))
  BY <1>1, <1>2, DirectEnded, FS_Subset DEF InOrder
<1>5. StopsAtGuest'
  BY <1>1 DEF StopsAtGuest
<1>6. back' \notin {"start", "none", "done"}
  BY <1>3 DEF Whys
<1> QED  BY <1>1, <1>3, <1>4, <1>5, <1>6 DEF InOrder

----------------------------------------------------------------------------
(* Every step of an orderly guest keeps the order. *)

LEMMA NowRuns ==
  ASSUME stack' \in Seq(Resumes), saved' \in Seq(Fresh), back' = "none",
         IsFiniteSet(DirectlyActive(host')), \E k : RunsWith(k)'
  PROVE  InOrder'
BY DEF InOrder, Whys

LEMMA NowReturned ==
  ASSUME stack' \in Seq(Resumes), saved' \in Seq(Fresh), back' \in Whys,
         IsFiniteSet(DirectlyActive(host')), g_reason' = "returned",
         \E k, b : b \in Beginnings /\ ReturnsWith(k, b)'
  PROVE  InOrder'
BY DEF InOrder, Whys

LEMMA NowStopped ==
  ASSUME stack' \in Seq(Resumes), saved' \in Seq(Fresh), back' \in Whys,
         IsFiniteSet(DirectlyActive(host')), g_reason' # "returned", StopsAtGuest'
  PROVE  InOrder'
BY DEF InOrder, Whys

LEMMA StackMoves ==
  ASSUME stack \in Seq(Resumes)
  PROVE  /\ stack # <<>> => Last(stack) \in Resumes
         /\ stack # <<>> /\ stack' = Front(stack)
              => stack' \in Seq(Resumes) /\ Len(stack') = Len(stack) - 1
         /\ \A a \in Resumes : stack' = Append(stack, a)
              => stack' \in Seq(Resumes) /\ Len(stack') = Len(stack) + 1
                 /\ stack'[Len(stack) + 1] = a
                 /\ \A i \in 1 .. Len(stack) : stack'[i] = stack[i]
BY FrontLast

LEMMA StartInOrder ==
  ASSUME IInv, InOrder, Start PROVE InOrder'
<1>1. /\ back = "start" /\ saved' = saved /\ stack = <<Home>> /\ saved = <<>>
      /\ host = <<>> /\ gpc \in Points
  BY DEF Start, InOrder, Begins, IInv, HostInv, GoodBack, StartInv, Points
<1>2. saved' \in Seq(Fresh) /\ stack \in Seq(Resumes)
  BY <1>1 DEF InOrder
<1>3. DirectlyActive(host) = {} /\ IsFiniteSet({}) /\ Cardinality({}) = 0
  BY <1>1, FS_EmptySet DEF DirectlyActive
<1>4. CASE gpc \in Lifted
  <2> DEFINE b == [at |-> 1, ret |-> Home, kept |-> 0]
  <2>1. BeginTrace(host, gpc, "top") /\ stack' = stack /\ gpc' = gpc
    BY <1>4 DEF Start, guest
  <2>2. b \in Beginnings /\ b.at = 1 /\ b.ret = Home /\ b.kept = 0
    BY DEF Beginnings, Places
  <2>3. GoodHost(host) /\ Matches(host, <<>>, stack') /\ Len(host) = 0
    BY <1>1 DEF GoodHost, Matches
  <2>4. Begun(host, <<>>, Len(host), "top", b)
    BY <2>3 DEF Begun
  <2> HIDE DEF b
  <2>5. Len(stack') = b.at /\ stack'[b.at] = b.ret
    BY <1>1, <2>1, <2>2
  <2>6. MayBegin(host, <<>>, stack', "top", b)
    BY <1>1, <2>2, <2>4, <2>5 DEF MayBegin
  <2>7. Len(saved') = b.kept
    BY <1>1, <2>2
  <2>8. "top" \in Whys
    BY DEF Whys
  <2>9. back' = "none" /\ IsFiniteSet(DirectlyActive(host')) /\ \E k : RunsWith(k)'
    BY <1>1, <1>3, <2>1, <2>2, <2>3, <2>5, <2>6, <2>7, <2>8, BeginsRunning
  <2> QED  BY <1>2, <2>1, <2>9, NowRuns
<1>5. CASE gpc \notin Lifted
  <2>1. back' = "top" /\ host' = host
    BY <1>5 DEF Start
  <2>2. stack' \in Seq(Resumes) /\ g_reason' # "returned" /\ StopsAtGuest'
    <3>1. CASE g_skip_missing
      <4>1. Pop /\ SetStop("error", Home)
        BY <1>5, <3>1 DEF Start
      <4> QED  BY <1>2, <4>1, StackMoves DEF Pop, SetStop, StopsAtGuest
    <3>2. CASE ~g_skip_missing
      <4>1. stack' = stack /\ gpc' = gpc /\ SetStop("missing-dispatch", gpc)
        BY <1>5, <3>2 DEF Start, guest
      <4> QED  BY <1>2, <4>1 DEF SetStop, StopsAtGuest
    <3> QED  BY <3>1, <3>2
  <2>3. IsFiniteSet(DirectlyActive(host')) /\ back' \in Whys
    BY <1>3, <2>1 DEF Whys
  <2> QED  BY <1>2, <2>2, <2>3, NowStopped
<1> QED  BY <1>4, <1>5

\* What a step of lifted code starts from.
LEMMA AtPoint ==
  ASSUME IInv, InOrder, Running
  PROVE  /\ HostInv /\ GoodHost(host) /\ host # <<>> /\ stack \in Seq(Resumes)
         /\ saved \in Seq(Fresh) /\ IsFiniteSet(DirectlyActive(host))
         /\ g_reason \in {"returned", "error"} /\ g_stop_pc = Home
         /\ \E g : RunsWith(g)
<1>1. back = "none" /\ HostInv
  BY DEF Running, IInv
<1>2. host # <<>> /\ GoodHost(host)
  BY <1>1 DEF HostInv, GoodBack
<1>3. \E g : RunsWith(g)
  BY <1>1 DEF InOrder
<1> QED  BY <1>1, <1>2, <1>3 DEF InOrder, RunsWith

LEMMA RetInOrder ==
  ASSUME IInv, InOrder, Ret PROVE InOrder'
<1>1. /\ Running /\ stack # <<>> /\ stack' = Front(stack) /\ gpc' = Last(stack)
      /\ FunctionReturns("returned", Last(stack))
  BY DEF Ret, Pop
<1>2. /\ HostInv /\ GoodHost(host) /\ host # <<>> /\ stack \in Seq(Resumes)
      /\ saved \in Seq(Fresh) /\ IsFiniteSet(DirectlyActive(host))
  BY <1>1, AtPoint
<1>3. PICK g : RunsWith(g)
  BY <1>1, AtPoint
<1> DEFINE n == Len(host)
           l == Len(Body)
           p == g[n].at
           q == g[n].kept
<1>4. /\ n \in Nat \ {0} /\ Body = host[n].body /\ Body \in Seq(Points)
      /\ l \in Nat \ {0} /\ p \in Nat /\ q \in Nat /\ q < p
      /\ Len(stack) = p + l - 1 /\ Len(saved) = q + l - 1
      /\ Pending(host, g, stack, n)
      /\ l = 1 => Last(stack) = g[n].ret
      /\ l > 1 => Last(stack) = Body[l - 1]
      /\ Cardinality(DirectlyActive(host)) = Len(saved)
  BY <1>2, <1>3, RunningIs DEF RunsWith
<1>5. stack' \in Seq(Resumes) /\ Len(stack') = Len(stack) - 1
  BY <1>1, <1>2, StackMoves
<1>6. Matches(host, g, stack')
  BY <1>1, <1>2, <1>3, MatchesPopped DEF RunsWith
<1>7. CASE DirectlyCalled
  <2> DEFINE b == Front(Body)
  <2>1. l > 1 /\ host' = WithBody(host, b) /\ back' = "none"
    BY <1>1, <1>7 DEF FunctionReturns, WithBody, DirectlyCalled
  <2>2. /\ b \in Seq(Points) /\ Len(b) = l - 1 /\ \A i \in 1 .. l - 1 : b[i] = Body[i]
    <3>1. Body # <<>>
      BY <2>1
    <3> QED  BY <1>4, <3>1, FrontLast
  <2> HIDE DEF b, p, q, l, n
  <2>3. saved # <<>>
    BY <1>4, <2>1
  <2>4. /\ g_reason' = Last(saved).reason /\ g_stop_pc' = Last(saved).pc
        /\ saved' = Front(saved)
    BY <1>1, <1>7, <2>3 DEF FunctionReturns, SetStop
  <2>5. /\ saved' \in Seq(Fresh) /\ Len(saved') = Len(saved) - 1
        /\ Last(saved) \in Fresh
    BY <1>2, <2>3, <2>4, FrontLast
  <2>6. g_reason' \in {"returned", "error"} /\ g_stop_pc' = Home
    BY <2>4, <2>5 DEF Fresh
  <2>7. Len(b) > 0 /\ Len(b) \in Nat /\ Len(b) + 1 = l
    BY <1>4, <2>1, <2>2
  <2>8. ASSUME NEW j \in 1 .. Len(b) - 1, p + j <= Len(stack')
        PROVE  stack'[p + j] = b[j]
    <3>1. j \in 1 .. l - 1 /\ j \in 1 .. l - 2 /\ p + j \in 1 .. Len(stack) - 1
      BY <1>4, <1>5, <2>7, <2>8
    <3>2. stack'[p + j] = stack[p + j]
      BY <1>1, <1>2, <3>1, FrontLast
    <3>3. stack[p + j] = Body[j]
      BY <1>4, <3>1 DEF Pending, p, l, n
    <3> QED  BY <2>2, <3>1, <3>2, <3>3
  <2>9. gpc' = b[Len(b)]
    <3>1. Len(b) = l - 1 /\ l - 1 \in 1 .. l - 1
      BY <1>4, <2>1, <2>7
    <3> QED  BY <1>1, <1>4, <2>1, <2>2, <3>1
  <2>10. IsFiniteSet(DirectlyActive(host'))
         /\ Cardinality(DirectlyActive(host')) = Len(saved')
    BY <1>2, <1>4, <2>1, <2>2, <2>5, <2>7, DirectRebodied DEF n, l
  <2>11. Len(stack') = p + Len(b) - 1 /\ Len(saved') = q + Len(b) - 1
    BY <1>4, <1>5, <2>5, <2>7
  <2>12. \E k : RunsWith(k)'
    BY <1>2, <1>6, <2>1, <2>2, <2>6, <2>7, <2>8, <2>9, <2>10, <2>11, GoesOn DEF p, q, n
  <2> QED  BY <1>5, <2>1, <2>5, <2>10, <2>12, NowRuns
<1>8. CASE ~DirectlyCalled
  <2>1. l = 1 /\ EndTrace("returned", Last(stack)) /\ saved' = saved
    <3>1. l \in Nat \ {0} /\ ~(l > 1)
      BY <1>4, <1>8 DEF DirectlyCalled
    <3>2. EndTrace("returned", Last(stack)) /\ saved' = saved
      BY <1>1, <1>8 DEF FunctionReturns
    <3> HIDE DEF l
    <3> QED  BY <3>1, <3>2
  <2>2. host' = Front(host) /\ back' = Last(host).why
    BY <2>1 DEF EndTrace
  <2>3. DirectlyActive(host') = DirectlyActive(host)
    <3>1. Len(Last(host).body) = 1
      BY <2>1 DEF Body
    <3> QED  BY <1>2, <2>2, <3>1, DirectEnded
  <2>4. Len(stack') = g[n].at - 1 /\ gpc' = g[n].ret /\ Last(stack) = g[n].ret
        /\ Len(saved') = g[n].kept
    BY <1>1, <1>4, <1>5, <2>1
  <2>5. Cardinality(DirectlyActive(host')) = Len(saved')
    BY <1>4, <2>1, <2>3
  <2>6. Last(stack) \in {g[n].ret, Home}
    BY <2>4
  <2>7. g_reason' = "returned" /\ \E k, b : b \in Beginnings /\ ReturnsWith(k, b)'
    BY <1>2, <1>6, <2>1, <2>4, <2>5, <2>6, ReturnsFrom
  <2>8. back' \in Whys
    BY <1>2, <2>2, Running1
  <2> QED  BY <1>2, <1>5, <2>1, <2>3, <2>7, <2>8, NowReturned
<1> QED  BY <1>7, <1>8

\* The functions of a trace of which the last waits for a call to come back.
LEMMA WaitingBody ==
  ASSUME Body \in Seq(Points), Len(Body) \in Nat \ {0}, After(Here) \in Points
  PROVE  LET w == Append(Front(Body), After(Here))
         IN  /\ w \in Seq(Points) /\ Len(w) = Len(Body) /\ w[Len(Body)] = After(Here)
             /\ \A i \in 1 .. Len(Body) - 1 : w[i] = Body[i]
<1> DEFINE l == Len(Body)
           v == Front(Body)
<1>1. Body # <<>>
  OBVIOUS
<1>2. /\ v \in Seq(Points) /\ Len(v) = l - 1 /\ l \in Nat \ {0}
      /\ \A i \in 1 .. l - 1 : v[i] = Body[i]
  BY <1>1, FrontLast
<1> HIDE DEF v, l
<1>3. \A i \in 1 .. l - 1 : Append(v, After(Here))[i] = v[i]
  BY <1>2
<1>4. /\ Append(v, After(Here)) \in Seq(Points) /\ Len(Append(v, After(Here))) = l
      /\ Append(v, After(Here))[l] = After(Here)
  BY <1>2
<1> QED  BY <1>2, <1>3, <1>4 DEF v, l

LEMMA DirectCallInOrder ==
  ASSUME SavesAll, IInv, InOrder, NEW f \in Functions, DirectCall(f) PROVE InOrder'
<1>1. /\ Running /\ Len(stack) < MaxStack /\ stack' = Append(stack, After(Here))
      /\ gpc' = f /\ SaveStop /\ back' = back /\ g_reason' = g_reason
      /\ g_stop_pc' = g_stop_pc /\ f \in Points
      /\ host' = [Waiting EXCEPT ![Len(host)].body = Append(@, f)]
  BY DEF DirectCall, Push, stop, Points
<1>2. /\ HostInv /\ GoodHost(host) /\ host # <<>> /\ stack \in Seq(Resumes)
      /\ saved \in Seq(Fresh) /\ IsFiniteSet(DirectlyActive(host))
      /\ g_reason \in {"returned", "error"} /\ g_stop_pc = Home
  BY <1>1, AtPoint
<1>3. PICK g : RunsWith(g)
  BY <1>1, AtPoint
<1> DEFINE n == Len(host)
           l == Len(Body)
           p == g[n].at
           q == g[n].kept
           w == Append(Front(Body), After(Here))
           b == Append(w, f)
<1>4. /\ n \in Nat \ {0} /\ Body = host[n].body /\ Body \in Seq(Points)
      /\ l \in Nat \ {0} /\ p \in Nat /\ q \in Nat /\ q < p
      /\ Len(stack) = p + l - 1 /\ Len(saved) = q + l - 1
      /\ Pending(host, g, stack, n) /\ Here \in Points
      /\ Cardinality(DirectlyActive(host)) = Len(saved)
      /\ \A i \in 1 .. n : TopOf(host, g, i) <= Len(stack)
  BY <1>2, <1>3, RunningIs DEF RunsWith
<1>5. After(Here) \in Resumes /\ After(Here) \in Points
  BY <1>4, ResumeAfter
<1>6. /\ stack' \in Seq(Resumes) /\ Len(stack') = Len(stack) + 1
      /\ stack'[Len(stack) + 1] = After(Here)
      /\ \A i \in 1 .. Len(stack) : stack'[i] = stack[i]
  BY <1>1, <1>2, <1>5, StackMoves
<1>7. Matches(host, g, stack')
  BY <1>1, <1>2, <1>3, <1>4, MatchesPushed DEF RunsWith
<1>8. /\ w \in Seq(Points) /\ Len(w) = l /\ w[l] = After(Here)
      /\ \A i \in 1 .. l - 1 : w[i] = Body[i]
  BY <1>4, <1>5, WaitingBody
<1>9. host' = WithBody(host, b)
  <2>1. Waiting = WithBody(host, w)
    BY DEF Waiting, WithBody
  <2>2. host' = [WithBody(host, w) EXCEPT ![n].body = Append(@, f)]
    BY <1>1, <2>1
  <2>3. host \in Seq(Traces) /\ n \in 1 .. n
    BY <1>2, <1>4 DEF GoodHost
  <2>4. host[n] \in Traces
    BY <2>3
  <2> HIDE DEF w, n
  <2>5. \A t : [[host[n] EXCEPT !.body = w] EXCEPT !.body = t]
                = [host[n] EXCEPT !.body = t]
    BY <2>4 DEF Traces
  <2> QED  BY <2>2, <2>3, <2>4, <2>5 DEF WithBody, Traces, n
<1> HIDE DEF w
<1>10. /\ b \in Seq(Points) /\ Len(b) = l + 1 /\ b[l + 1] = f
       /\ \A i \in 1 .. l : b[i] = w[i]
  BY <1>1, <1>4, <1>8
<1> HIDE DEF b, l, n, p, q
<1>11. /\ saved' = Append(saved, [reason |-> g_reason, pc |-> g_stop_pc])
       /\ saved' \in Seq(Fresh) /\ Len(saved') = Len(saved) + 1
  <2>1. Len(saved) < kMaxDirectDepth
    <3>1. MaxStack \in Nat /\ kMaxDirectDepth \in Nat /\ MaxStack <= kMaxDirectDepth + 1
      BY DispatchAssumption DEF SavesAll
    <3> QED  BY <1>1, <1>4, <3>1
  <2>2. [reason |-> g_reason, pc |-> g_stop_pc] \in Fresh
    BY <1>2 DEF Fresh
  <2>3. saved' = Append(saved, [reason |-> g_reason, pc |-> g_stop_pc])
    BY <1>1, <2>1 DEF SaveStop
  <2> QED  BY <1>2, <2>2, <2>3
<1>12. ASSUME NEW j \in 1 .. Len(b) - 1, p + j <= Len(stack')
       PROVE  stack'[p + j] = b[j]
  <2>1. CASE j = l
    <3>1. p + j = Len(stack) + 1 /\ j \in 1 .. l
      BY <1>4, <2>1
    <3> QED  BY <1>6, <1>8, <1>10, <2>1, <3>1
  <2>2. CASE j # l
    <3>1. j \in 1 .. l - 1 /\ j \in 1 .. l /\ p + j \in 1 .. Len(stack)
      BY <1>4, <1>10, <2>2
    <3>2. stack[p + j] = Body[j]
      BY <1>4, <3>1 DEF Pending, p, l, n
    <3> QED  BY <1>6, <1>8, <1>10, <3>1, <3>2
  <2> QED  BY <2>1, <2>2
<1>13. IsFiniteSet(DirectlyActive(host'))
       /\ Cardinality(DirectlyActive(host')) = Len(saved')
  <2>1. Len(b) > 0 /\ Len(b) = Len(host[Len(host)].body) + 1
    BY <1>4, <1>10 DEF l, n
  <2> QED  BY <1>2, <1>4, <1>9, <1>10, <1>11, <2>1, DirectRebodied
<1>14. /\ Len(stack') = p + Len(b) - 1 /\ Len(saved') = q + Len(b) - 1
       /\ Len(b) > 0 /\ gpc' = b[Len(b)]
  <2>1. Len(b) = l + 1 /\ gpc' = b[l + 1]
    BY <1>1, <1>10
  <2>2. Len(b) > 0 /\ Len(stack') = p + Len(b) - 1 /\ Len(saved') = q + Len(b) - 1
    BY <1>4, <1>6, <1>11, <2>1
  <2> QED  BY <2>1, <2>2
<1>15. \E k : RunsWith(k)'
  BY <1>1, <1>2, <1>7, <1>9, <1>10, <1>12, <1>13, <1>14, GoesOn DEF p, q, n
<1> QED  BY <1>1, <1>6, <1>11, <1>13, <1>15, NowRuns DEF Running

\* A function that waits for a call to come back.
LEMMA WaitingIs ==
  ASSUME IInv, InOrder, Running, NEW g, RunsWith(g)
  PROVE  /\ GoodHost(Waiting) /\ Waiting # <<>> /\ Len(Waiting) = Len(host)
         /\ DirectlyActive(Waiting) = DirectlyActive(host)
         /\ Waiting[Len(host)].body = Append(Front(Body), After(Here))
         /\ Len(Waiting[Len(host)].body) = Len(Body)
         /\ Last(Waiting[Len(host)].body) = After(Here)
         /\ Matches(Waiting, g, stack)
         /\ Matches(Waiting, g, Append(stack, After(Here)))
         /\ \A i \in 1 .. Len(host) : TopOf(Waiting, g, i) <= Len(stack)
<1>1. /\ HostInv /\ GoodHost(host) /\ host # <<>> /\ stack \in Seq(Resumes)
      /\ IsFiniteSet(DirectlyActive(host))
  BY AtPoint
<1> DEFINE n == Len(host)
           l == Len(Body)
           p == g[n].at
           w == Append(Front(Body), After(Here))
<1>2. /\ n \in Nat \ {0} /\ Body = host[n].body /\ Body \in Seq(Points)
      /\ l \in Nat \ {0} /\ p \in Nat
      /\ Len(stack) = p + l - 1
      /\ Pending(host, g, stack, n) /\ Here \in Points
      /\ \A i \in 1 .. n : TopOf(host, g, i) <= Len(stack)
  BY <1>1, RunningIs
<1>3. After(Here) \in Points
  BY <1>2, ResumeAfter
<1>4. /\ w \in Seq(Points) /\ Len(w) = l /\ w[l] = After(Here)
      /\ \A i \in 1 .. l - 1 : w[i] = Body[i]
  BY <1>2, <1>3, WaitingBody
<1>5. Waiting = WithBody(host, w)
  BY DEF Waiting, WithBody
<1> HIDE DEF w
<1>6. /\ GoodHost(Waiting) /\ Waiting # <<>> /\ Len(Waiting) = n
      /\ Waiting[n].body = w
  <2>1. /\ GoodHost(Waiting) /\ Waiting # <<>> /\ Len(Waiting) = n
        /\ Last(Waiting).body = w
    BY <1>1, <1>2, <1>4, <1>5, Rebody
  <2> QED  BY <2>1 DEF Last
<1>7. DirectlyActive(Waiting) = DirectlyActive(host)
  <2>1. Len(w) > 0 /\ Len(w) = Len(host[Len(host)].body)
    BY <1>2, <1>4
  <2> QED  BY <1>1, <1>4, <1>5, <2>1, DirectRebodied
<1> HIDE DEF l, p, n
<1>8. Len(Waiting[n].body) = l /\ Last(Waiting[n].body) = After(Here)
  BY <1>4, <1>6 DEF Last
<1>9. Matches(host, g, stack) /\ Matches(host, g, Append(stack, After(Here)))
  <2>1. Matches(host, g, stack)
    BY DEF RunsWith
  <2> QED  BY <1>1, <1>2, <2>1, MatchesPushed DEF n
<1>10. ASSUME NEW s, Len(s) \in Nat, \A i \in 1 .. Len(stack) : s[i] = stack[i],
              Matches(host, g, s)
       PROVE  Matches(Waiting, g, s)
  <2>1. ASSUME NEW j \in 1 .. Len(w) - 1, p + j <= Len(s) PROVE s[p + j] = w[j]
    <3>1. j \in 1 .. l - 1 /\ p + j \in 1 .. Len(stack)
      BY <1>2, <1>4, <2>1
    <3>2. stack[p + j] = Body[j]
      BY <1>2, <3>1 DEF Pending, p, l, n
    <3> QED  BY <1>4, <1>10, <3>1, <3>2
  <2>2. Len(w) > 0
    BY <1>2, <1>4
  <2> QED  BY <1>1, <1>4, <1>5, <1>10, <2>1, <2>2, MatchesRebodied DEF p, n
<1>11. Matches(Waiting, g, stack) /\ Matches(Waiting, g, Append(stack, After(Here)))
  <2>1. /\ Len(stack) \in Nat /\ Len(Append(stack, After(Here))) \in Nat
        /\ \A i \in 1 .. Len(stack) : Append(stack, After(Here))[i] = stack[i]
    BY <1>1
  <2> QED  BY <1>9, <1>10, <2>1
<1>12. \A i \in 1 .. n : TopOf(Waiting, g, i) = TopOf(host, g, i)
  <2>1. \A i \in 1 .. n : Len(Waiting[i].body) = Len(host[i].body)
    <3>1. host \in Seq(Traces) /\ n = Len(host)
      BY <1>1 DEF GoodHost, n
    <3>2. \A i \in 1 .. n : i # n => Waiting[i] = host[i]
      BY <1>5, <3>1 DEF WithBody
    <3> QED  BY <1>2, <1>8, <3>2 DEF l
  <2> QED  BY <2>1 DEF TopOf
<1> QED  BY <1>2, <1>6, <1>7, <1>8, <1>11, <1>12 DEF n, l, w

LEMMA DispatchInOrder ==
  ASSUME NEW h, GoodHost(h), NEW g, Matches(h, g, stack'),
         NEW why \in Whys, NEW a \in Points, NEW b \in Beginnings,
         Dispatch(h, a, why), MayBegin(h, g, stack', why, b),
         Len(stack') = b.at, stack'[b.at] = b.ret, Len(saved') = b.kept, gpc' = a,
         IsFiniteSet(DirectlyActive(h)), Cardinality(DirectlyActive(h)) = Len(saved'),
         stack' \in Seq(Resumes), saved' \in Seq(Fresh)
  PROVE  InOrder'
<1>1. CASE g_depth >= kMaxDispatchDepth
  <2>1. /\ host' = h /\ back' = why /\ g_reason' = "error"
    BY <1>1 DEF Dispatch, SetStop
  <2>2. StopsAtGuest'
    BY <2>1 DEF StopsAtGuest
  <2> QED  BY <2>1, <2>2, NowStopped
<1>2. CASE ~(g_depth >= kMaxDispatchDepth)
  <2>1. BeginTrace(h, a, why)
    BY <1>2 DEF Dispatch
  <2>2. back' = "none" /\ IsFiniteSet(DirectlyActive(host')) /\ \E k : RunsWith(k)'
    BY <2>1, BeginsRunning
  <2> QED  BY <2>2, NowRuns
<1> QED  BY <1>1, <1>2

LEMMA IndirectCallInOrder ==
  ASSUME IInv, InOrder, NEW f \in Functions, IndirectCall(f) PROVE InOrder'
<1>1. /\ Running /\ stack' = Append(stack, After(Here)) /\ gpc' = f
      /\ Dispatch(Waiting, f, "call") /\ saved' = saved /\ f \in Points
      /\ "call" \in Whys
  BY DEF IndirectCall, Push, Points, Whys
<1>2. /\ HostInv /\ host # <<>> /\ stack \in Seq(Resumes)
      /\ saved \in Seq(Fresh) /\ IsFiniteSet(DirectlyActive(host))
  BY <1>1, AtPoint
<1>3. PICK g : RunsWith(g)
  BY <1>1, AtPoint
<1> DEFINE n == Len(host)
           l == Len(Body)
           p == g[n].at
           q == g[n].kept
           b == [at |-> p + l, ret |-> After(Here), kept |-> q + l - 1]
<1>4. /\ n \in Nat \ {0} /\ l \in Nat \ {0} /\ p \in Nat /\ q \in Nat /\ q < p
      /\ Len(stack) = p + l - 1 /\ Len(saved) = q + l - 1
      /\ Here \in Points
      /\ Cardinality(DirectlyActive(host)) = Len(saved)
  BY <1>2, <1>3, RunningIs DEF RunsWith
<1>5. /\ GoodHost(Waiting) /\ Len(Waiting) = n
      /\ DirectlyActive(Waiting) = DirectlyActive(host)
      /\ Len(Waiting[n].body) = l /\ Last(Waiting[n].body) = After(Here)
      /\ Matches(Waiting, g, stack')
      /\ \A i \in 1 .. n : TopOf(Waiting, g, i) <= Len(stack)
  BY <1>1, <1>3, WaitingIs
<1>6. After(Here) \in Resumes /\ After(Here) \in Places
  BY <1>4, ResumeAfter DEF Places
<1>7. /\ stack' \in Seq(Resumes) /\ Len(stack') = Len(stack) + 1
      /\ stack'[Len(stack) + 1] = After(Here)
  BY <1>1, <1>2, <1>6, StackMoves
<1>8. Begun(Waiting, g, Len(Waiting), "call", b)
  BY <1>4, <1>5 DEF Begun
<1>9. /\ b \in Beginnings /\ b.at = p + l /\ b.ret = After(Here) /\ b.kept = q + l - 1
  <2>1. p + l \in Nat /\ q + l - 1 \in Nat
    BY <1>4
  <2> QED  BY <1>6, <2>1 DEF Beginnings
<1> HIDE DEF b, p, q, l
<1>10. \A i \in 1 .. n : TopOf(Waiting, g, i) <= b.at
  <2>1. ASSUME NEW i \in 1 .. n PROVE TopOf(Waiting, g, i) <= b.at
    <3>1. TopOf(Waiting, g, i) \in Nat
      BY <1>5, TraceIs
    <3>2. TopOf(Waiting, g, i) <= Len(stack)
      BY <1>5
    <3> QED  BY <1>4, <1>9, <3>1, <3>2
  <2> QED  BY <2>1
<1>11. Len(stack') = b.at /\ stack'[b.at] = b.ret
  <2>1. b.at = Len(stack) + 1
    BY <1>4, <1>9
  <2> QED  BY <1>7, <1>9, <2>1
<1>12. b.kept < b.at
  BY <1>4, <1>9
<1>13. MayBegin(Waiting, g, stack', "call", b)
  BY <1>5, <1>8, <1>10, <1>11, <1>12 DEF MayBegin
<1>14. Len(saved') = b.kept /\ saved' \in Seq(Fresh)
  BY <1>1, <1>2, <1>4, <1>9
<1>15. Cardinality(DirectlyActive(Waiting)) = Len(saved')
       /\ IsFiniteSet(DirectlyActive(Waiting))
  BY <1>1, <1>2, <1>4, <1>5
<1> QED  BY <1>1, <1>5, <1>7, <1>9, <1>11, <1>13, <1>14, <1>15, DispatchInOrder

\* The call came back, or was never made: the function that waits goes on.
LEMMA ResumesRunning ==
  ASSUME IInv, InOrder, Running, gpc' = After(Here), stack' = stack,
         host' = Waiting, SetStop("error", Home), back' = back, saved' = saved
  PROVE  InOrder'
<1>1. /\ HostInv /\ host # <<>> /\ stack \in Seq(Resumes)
      /\ saved \in Seq(Fresh) /\ IsFiniteSet(DirectlyActive(host))
  BY AtPoint
<1>2. PICK g : RunsWith(g)
  BY AtPoint
<1> DEFINE n == Len(host)
           l == Len(Body)
<1>3. /\ n \in Nat \ {0} /\ l \in Nat \ {0} /\ Here \in Points
      /\ Len(stack) = g[n].at + l - 1 /\ Len(saved) = g[n].kept + l - 1
      /\ Cardinality(DirectlyActive(host)) = Len(saved)
  BY <1>1, <1>2, RunningIs DEF RunsWith
<1>4. /\ Len(Waiting) = n /\ DirectlyActive(Waiting) = DirectlyActive(host)
      /\ Len(Waiting[n].body) = l /\ Last(Waiting[n].body) = After(Here)
      /\ Matches(Waiting, g, stack)
  BY <1>2, WaitingIs
<1>5. Matches(host', g, stack') /\ Len(stack') = TopOf(host', g, Len(host'))
  BY <1>3, <1>4 DEF TopOf
<1>6. Body' = Waiting[n].body /\ Here' = gpc'
  BY <1>4 DEF Body, Here, Last
<1>7. Len(saved') = g[Len(host')].kept + Len(Body') - 1
  BY <1>3, <1>4, <1>6
<1>8. g_reason' \in {"returned", "error"} /\ g_stop_pc' = Home
  BY DEF SetStop
<1>9. RunsWith(g)'
  BY <1>3, <1>4, <1>5, <1>6, <1>7, <1>8 DEF RunsWith
<1> QED  BY <1>1, <1>4, <1>9, NowRuns DEF Running

LEMMA ImportCallInOrder ==
  ASSUME IInv, InOrder, ImportCall PROVE InOrder'
BY ResumesRunning DEF ImportCall, Go

LEMMA MissingCallInOrder ==
  ASSUME ReturnsUnlifted, IInv, InOrder, NEW f \in Functions,
         NEW reason \in {"call", "missing-dispatch"}, MissingCall(f, reason)
  PROVE  InOrder'
<1>1. Running /\ f \notin Lifted
  BY DEF MissingCall
<1>2. /\ HostInv /\ host # <<>> /\ stack \in Seq(Resumes) /\ Here \in Points
  BY <1>1, AtPoint, Running1
<1>3. After(Here) \in Resumes /\ After(Here) \notin Lifted
  BY <1>2, ResumeAfter
<1>4. CASE g_skip_missing
  <2>1. /\ gpc' = After(Here) /\ stack' = stack /\ host' = Waiting
        /\ SetStop("error", Home) /\ back' = back /\ saved' = saved
    BY <1>3, <1>4 DEF MissingCall, SkipTo
  <2> QED  BY <1>1, <2>1, ResumesRunning
<1>5. CASE ~g_skip_missing
  <2>1. Push(f) /\ halt(reason, f)
    BY <1>5 DEF MissingCall
  <2>2. stack' \in Seq(Resumes) /\ gpc' = f
    BY <1>2, <1>3, <2>1 DEF Push
  <2> QED  BY <1>2, <2>1, <2>2, HaltInOrder
<1> QED  BY <1>4, <1>5

LEMMA FaultInOrder ==
  ASSUME IInv, InOrder, Fault PROVE InOrder'
<1>1. Running /\ halt("error", Here) /\ stack' = stack
  BY DEF Fault, guest
<1> QED  BY <1>1, AtPoint, HaltInOrder

LEMMA TailJumpInOrder ==
  ASSUME IInv, InOrder, ~DirectlyCalled, NEW a \in Points, TailJump(a) PROVE InOrder'
<1>1. /\ Running /\ gpc' = a /\ stack' = stack /\ Dispatch(host, a, "jump")
      /\ saved' = saved /\ "jump" \in Whys
  BY DEF TailJump, Go, Whys
<1>2. /\ HostInv /\ GoodHost(host) /\ host # <<>> /\ stack \in Seq(Resumes)
      /\ saved \in Seq(Fresh) /\ IsFiniteSet(DirectlyActive(host))
  BY <1>1, AtPoint
<1>3. PICK g : RunsWith(g)
  BY <1>1, AtPoint
<1> DEFINE n == Len(host)
           l == Len(Body)
<1>3b. PICK b : b = g[n]
  OBVIOUS
<1>4. /\ n \in Nat \ {0} /\ l \in Nat \ {0} /\ b \in Beginnings /\ b.kept < b.at
      /\ Len(stack) = b.at + l - 1 /\ Len(saved) = b.kept + l - 1
      /\ b.at \in Nat /\ b.kept \in Nat /\ l = Len(host[n].body)
      /\ Cardinality(DirectlyActive(host)) = Len(saved)
      /\ \A i \in 1 .. n : TopOf(host, g, i) <= Len(stack)
      /\ Pending(host, g, stack, n) /\ Matches(host, g, stack)
  BY <1>2, <1>3, <1>3b, RunningIs DEF RunsWith
<1>5. l = 1
  BY <1>2, <1>3, RunningIs
<1>6. Len(stack) = b.at /\ Len(saved) = b.kept
  BY <1>4, <1>5
<1>7. stack[b.at] = b.ret
  BY <1>3b, <1>4, <1>6 DEF Pending
<1>8. Begun(host, g, n, "jump", b)
  BY <1>3b, <1>4, <1>5 DEF Begun
<1>9. MayBegin(host, g, stack, "jump", b)
  BY <1>4, <1>6, <1>7, <1>8 DEF MayBegin
<1> QED  BY <1>1, <1>2, <1>4, <1>6, <1>7, <1>9, DispatchInOrder

\* A trace that ends with its first function's return.
LEMMA PopsAndReturns ==
  ASSUME IInv, InOrder, Running, ~DirectlyCalled, Pop, NEW pc, halt("returned", pc),
         pc \in {Last(stack), Home}
  PROVE  InOrder'
<1>1. /\ stack # <<>> /\ stack' = Front(stack) /\ gpc' = Last(stack)
      /\ EndTrace("returned", pc) /\ saved' = saved
      /\ host' = Front(host) /\ back' = Last(host).why
  BY DEF Pop, halt, EndTrace
<1>2. /\ HostInv /\ GoodHost(host) /\ host # <<>> /\ stack \in Seq(Resumes)
      /\ saved \in Seq(Fresh) /\ IsFiniteSet(DirectlyActive(host))
  BY AtPoint
<1>3. PICK g : RunsWith(g)
  BY AtPoint
<1> DEFINE n == Len(host)
           l == Len(Body)
           p == g[n].at
           q == g[n].kept
<1>4. /\ l \in Nat \ {0} /\ p \in Nat /\ q \in Nat
      /\ Len(stack) = p + l - 1 /\ Len(saved) = q + l - 1
      /\ l = 1 => Last(stack) = g[n].ret
      /\ Cardinality(DirectlyActive(host)) = Len(saved)
  BY <1>2, <1>3, RunningIs DEF RunsWith
<1>5. l = 1
  BY <1>2, <1>3, RunningIs
<1>6. stack' \in Seq(Resumes) /\ Len(stack') = Len(stack) - 1
  BY <1>1, <1>2, StackMoves
<1>7. Matches(host, g, stack')
  BY <1>1, <1>2, <1>3, MatchesPopped DEF RunsWith
<1>8. DirectlyActive(host') = DirectlyActive(host)
  <2>1. Len(Last(host).body) = 1
    BY <1>5 DEF Body
  <2> QED  BY <1>1, <1>2, <2>1, DirectEnded
<1>9. Len(stack') = g[n].at - 1 /\ gpc' = g[n].ret /\ pc \in {g[n].ret, Home}
      /\ Len(saved') = g[n].kept
  <2>1. gpc' = g[n].ret /\ pc \in {g[n].ret, Home}
    BY <1>1, <1>4, <1>5
  <2> HIDE DEF p, q, l
  <2>2. Len(stack') = p - 1 /\ Len(saved') = q
    BY <1>1, <1>4, <1>5, <1>6
  <2> QED  BY <2>1, <2>2 DEF p, q
<1>10. Cardinality(DirectlyActive(host')) = Len(saved')
  BY <1>1, <1>4, <1>8
<1>11. g_reason' = "returned" /\ \E k, b : b \in Beginnings /\ ReturnsWith(k, b)'
  BY <1>1, <1>2, <1>7, <1>9, <1>10, ReturnsFrom
<1>12. back' \in Whys
  BY <1>1, <1>2, Running1
<1> QED  BY <1>1, <1>2, <1>6, <1>8, <1>11, <1>12, NowReturned

LEMMA ImportJumpInOrder ==
  ASSUME ReturnsUnlifted, IInv, InOrder, ~DirectlyCalled,
         NEW i \in Imports, ImportJump(i)
  PROVE  InOrder'
<1>1. Running /\ Pop /\ stack # <<>>
  BY DEF ImportJump, Pop
<1>2. stack \in Seq(Resumes) /\ g_stop_pc = Home
  BY <1>1, AtPoint
<1>3. Last(stack) \in Resumes
  BY <1>1, <1>2, StackMoves
<1>4. ~(Last(stack) # Home /\ Last(stack) \in Lifted)
  BY <1>3 DEF Resumes, ReturnsUnlifted
<1>5. halt("returned", IF i \in HostImports THEN Last(stack) ELSE g_stop_pc)
  BY <1>4 DEF ImportJump
<1>6. (IF i \in HostImports THEN Last(stack) ELSE g_stop_pc) \in {Last(stack), Home}
  BY <1>2
<1> QED  BY <1>1, <1>5, <1>6, PopsAndReturns

LEMMA MissingJumpInOrder ==
  ASSUME ReturnsUnlifted, IInv, InOrder, ~DirectlyCalled,
         NEW a \in Points, MissingJump(a)
  PROVE  InOrder'
<1>1. Running
  BY DEF MissingJump
<1>2. HostInv /\ host # <<>> /\ stack \in Seq(Resumes)
  BY <1>1, AtPoint
<1>3. CASE g_skip_missing
  <2>1. Pop
    BY <1>3 DEF MissingJump
  <2>2. Last(stack) \in Resumes /\ stack' \in Seq(Resumes)
    BY <1>2, <2>1, StackMoves DEF Pop
  <2>3. ~(Last(stack) # Home /\ Last(stack) \in Lifted)
    BY <2>2 DEF Resumes, ReturnsUnlifted
  <2>4. halt("error", Home)
    BY <1>3, <2>3 DEF MissingJump, SkipTo, FunctionReturns, halt
  <2> QED  BY <1>2, <2>2, <2>4, HaltInOrder
<1>4. CASE ~g_skip_missing
  <2>1. gpc' = a /\ stack' = stack /\ halt("jump", a)
    BY <1>4 DEF MissingJump, Go
  <2> QED  BY <1>2, <2>1, HaltInOrder
<1> QED  BY <1>3, <1>4

LEMMA MissingBlockInOrder ==
  ASSUME IInv, InOrder, NEW a \in Points, MissingBlock(a) PROVE InOrder'
<1>1. Running /\ gpc' = a /\ stack' = stack /\ halt("missing-block", a)
  BY DEF MissingBlock, Go
<1> QED  BY <1>1, AtPoint, HaltInOrder

LEMMA CallReturnsInOrder ==
  ASSUME IInv, InOrder, CallReturns PROVE InOrder'
<1>1. /\ back = "call" /\ g_reason = "returned" /\ back' = "none"
      /\ g_reason' = "error" /\ g_stop_pc' = Home
      /\ stack' = stack /\ gpc' = gpc /\ host' = host /\ saved' = saved
  BY DEF CallReturns, SetStop, guest
<1>2. /\ HostInv /\ GoodHost(host) /\ host # <<>> /\ stack \in Seq(Resumes)
      /\ saved \in Seq(Fresh) /\ IsFiniteSet(DirectlyActive(host))
  BY <1>1 DEF IInv, HostInv, GoodBack, InOrder
<1>3. PICK g, b : b \in Beginnings /\ ReturnsWith(g, b)
  BY <1>1 DEF InOrder, Whys
<1> DEFINE n == Len(host)
           l == Len(host[n].body)
           p == g[n].at
           q == g[n].kept
<1>4. /\ Matches(host, g, stack) /\ Begun(host, g, n, "call", b)
      /\ Len(stack) = b.at - 1 /\ gpc = b.ret /\ Len(saved) = b.kept
      /\ Cardinality(DirectlyActive(host)) = Len(saved)
  BY <1>1, <1>3 DEF ReturnsWith
<1>5. n \in 1 .. n /\ b = [at |-> p + l, ret |-> Last(host[n].body), kept |-> q + l - 1]
  <2>1. host \in Seq(Traces)
    BY <1>2 DEF GoodHost
  <2>2. n \in Nat \ {0}
    BY <1>2, <2>1, FrontLast
  <2> QED  BY <1>4, <2>2 DEF Begun
<1>6. p \in Nat /\ q \in Nat /\ l \in Nat \ {0}
  BY <1>2, <1>4, <1>5, TraceIs
<1>7. Body = host[n].body /\ Here = gpc /\ Len(Body) = l
  BY <1>4, <1>5 DEF Body, Here, Last
<1>8. b.at = p + l /\ b.kept = q + l - 1
  BY <1>5
<1>9. Len(stack) = TopOf(host, g, n) /\ Len(saved) = q + l - 1
  <2> HIDE DEF p, q, l
  <2>1. Len(stack) = p + l - 1 /\ Len(saved) = q + l - 1
    BY <1>4, <1>6, <1>8
  <2> QED  BY <2>1 DEF TopOf, p, l
<1>10. RunsWith(g)'
  BY <1>1, <1>4, <1>7, <1>9 DEF RunsWith, Body, Here
<1> QED  BY <1>1, <1>2, <1>10, NowRuns

\* How a return is passed on: only a jump's.
LEMMA Returned ==
  ASSUME IInv, InOrder, g_reason = "returned", back \in Whys, back # "call"
  PROVE  /\ back \in {"top", "jump"}
         /\ back = "top" => g_stop_pc = Home /\ stack = <<>> /\ gpc = Home
         /\ back = "jump" => Len(Body) = 1
<1>1. PICK g, b : b \in Beginnings /\ ReturnsWith(g, b)
  BY DEF InOrder
<1>2. Begun(host, g, Len(host), back, b) /\ Len(stack) = b.at - 1 /\ gpc = b.ret
      /\ g_stop_pc \in {b.ret, Home}
  BY <1>1 DEF ReturnsWith
<1>3. back \in {"top", "jump"}
  BY <1>2 DEF Begun
<1>4. ASSUME back = "top" PROVE g_stop_pc = Home /\ stack = <<>> /\ gpc = Home
  <2>1. b = [at |-> 1, ret |-> Home, kept |-> 0]
    BY <1>2, <1>4 DEF Begun
  <2>2. stack \in Seq(Resumes)
    BY DEF InOrder
  <2>3. b.at = 1 /\ b.ret = Home
    BY <2>1
  <2>4. Len(stack) = 0
    BY <1>2, <2>3
  <2> QED  BY <1>2, <2>2, <2>3, <2>4
<1>5. ASSUME back = "jump" PROVE Len(Body) = 1
  BY <1>2, <1>5 DEF Begun, Body, Last
<1> QED  BY <1>3, <1>4, <1>5

LEMMA PropagateInOrder ==
  ASSUME IInv, InOrder, Propagate PROVE InOrder'
<1>1. /\ back \in {"call", "jump", "skipped jump"} /\ back \in Whys
      /\ back = "jump" \/ g_reason # "returned"
      /\ halt(g_reason, g_stop_pc)
      /\ stack' = stack /\ gpc' = gpc
  BY DEF Propagate, guest, Whys
<1>2. /\ HostInv /\ GoodHost(host) /\ host # <<>> /\ stack \in Seq(Resumes)
      /\ saved \in Seq(Fresh) /\ IsFiniteSet(DirectlyActive(host))
  BY <1>1 DEF IInv, HostInv, GoodBack, InOrder
<1>3. CASE g_reason # "returned"
  <2>1. g_reason = "error" \/ g_stop_pc = gpc'
    BY <1>1, <1>3 DEF InOrder, StopsAtGuest
  <2> QED  BY <1>1, <1>2, <1>3, <2>1, HaltInOrder
<1>4. CASE g_reason = "returned"
  <2>1. back = "jump" /\ Len(Body) = 1
    BY <1>1, <1>4, Returned
  <2>2. PICK g, b : b \in Beginnings /\ ReturnsWith(g, b)
    BY <1>1, <1>4 DEF InOrder
  <2>3. /\ Matches(host, g, stack) /\ b = g[Len(host)]
        /\ Len(stack) = b.at - 1 /\ gpc = b.ret /\ g_stop_pc \in {b.ret, Home}
        /\ Len(saved) = b.kept /\ Cardinality(DirectlyActive(host)) = Len(saved)
    BY <2>1, <2>2 DEF ReturnsWith, Begun
  <2>4. /\ EndTrace("returned", g_stop_pc) /\ saved' = saved
        /\ host' = Front(host) /\ back' = Last(host).why
    BY <1>1, <1>4 DEF halt, EndTrace
  <2>5. DirectlyActive(host') = DirectlyActive(host)
    BY <1>2, <2>1, <2>4, DirectEnded DEF Body
  <2>6. /\ Len(stack') = g[Len(host)].at - 1 /\ gpc' = g[Len(host)].ret
        /\ g_stop_pc \in {g[Len(host)].ret, Home} /\ Len(saved') = g[Len(host)].kept
        /\ Matches(host, g, stack')
        /\ Cardinality(DirectlyActive(host')) = Len(saved')
    BY <1>1, <2>3, <2>4, <2>5
  <2>7. g_reason' = "returned" /\ \E k, c : c \in Beginnings /\ ReturnsWith(k, c)'
    BY <1>2, <2>4, <2>6, ReturnsFrom
  <2>8. back' \in Whys
    BY <1>2, <2>4, Running1
  <2> QED  BY <1>1, <1>2, <2>4, <2>5, <2>7, <2>8, NowReturned
<1> QED  BY <1>3, <1>4

LEMMA FinishInOrder ==
  ASSUME IInv, InOrder, Finish PROVE InOrder'
<1>1. /\ back = "top" /\ back' = "done" /\ back \in Whys
      /\ stack' = stack /\ gpc' = gpc /\ host' = host /\ saved' = saved
  BY DEF Finish, guest, Whys
<1>2. g_reason' = g_reason /\ g_stop_pc' = g_stop_pc
  <2>1. g_reason = "returned" => g_stop_pc = Home
    BY <1>1, Returned
  <2> QED  BY <2>1 DEF Finish, stop
<1>3. Ends'
  <2>1. g_reason = "returned" => stack = <<>> /\ gpc = Home
    BY <1>1, Returned
  <2>2. StopsAtGuest'
    BY <1>1, <1>2 DEF InOrder, StopsAtGuest
  <2> QED  BY <1>1, <1>2, <2>1, <2>2 DEF Ends
<1> QED  BY <1>1, <1>3 DEF InOrder, Whys

LEMMA InitInOrder == Init => InOrder
<1> SUFFICES ASSUME Init PROVE InOrder
  OBVIOUS
<1>1. stack = <<Home>> /\ saved = <<>> /\ host = <<>> /\ back = "start"
  BY DEF Init
<1>2. stack \in Seq(Resumes) /\ saved \in Seq(Fresh)
  BY <1>1 DEF Resumes
<1>3. IsFiniteSet(DirectlyActive(host))
  <2>1. DirectlyActive(host) = {}
    BY <1>1 DEF DirectlyActive
  <2> QED  BY <2>1, FS_EmptySet
<1> QED  BY <1>1, <1>2, <1>3 DEF InOrder, Begins, Whys

LEMMA NextInOrder ==
  ASSUME ReturnsUnlifted, SavesAll
  PROVE  IInv /\ InOrder /\ [OrderlyNext]_vars => InOrder'
<1> SUFFICES ASSUME IInv, InOrder, [OrderlyNext]_vars PROVE InOrder'
  OBVIOUS
<1>1. CASE UNCHANGED vars
  <2>1. /\ stack' = stack /\ gpc' = gpc /\ host' = host /\ back' = back
        /\ g_reason' = g_reason /\ g_stop_pc' = g_stop_pc /\ saved' = saved
    BY <1>1 DEF vars, guest, stop
  <2>2. ASSUME NEW g, NEW b
        PROVE  /\ RunsWith(g)' <=> RunsWith(g)
               /\ ReturnsWith(g, b)' <=> ReturnsWith(g, b)
    BY <2>1 DEF RunsWith, ReturnsWith, Body, Here
  <2>3. (Begins' <=> Begins) /\ (Ends' <=> Ends) /\ (StopsAtGuest' <=> StopsAtGuest)
    BY <2>1 DEF Begins, Ends, StopsAtGuest
  <2> QED  BY <2>1, <2>2, <2>3 DEF InOrder
<1>2. CASE Start
  BY <1>2, StartInOrder
<1>3. CASE Ret
  BY <1>3, RetInOrder
<1>4. CASE Calls
  BY <1>4, DirectCallInOrder, IndirectCallInOrder, MissingCallInOrder,
     ImportCallInOrder DEF Calls
<1>5. CASE ~DirectlyCalled /\ Jumps
  BY <1>5, TailJumpInOrder, MissingJumpInOrder, MissingBlockInOrder,
     ImportJumpInOrder DEF Jumps
<1>6. CASE Fault
  BY <1>6, FaultInOrder
<1>7. CASE Unwinding
  <2>1. ~SkippedJumpReturns /\ ~Chase
    BY Returned DEF SkippedJumpReturns, Chase, Whys
  <2> QED  BY <1>7, <2>1, CallReturnsInOrder, PropagateInOrder, FinishInOrder
           DEF Unwinding
<1>8. CASE Terminated
  BY <1>1, <1>8 DEF Terminated
<1> QED  BY <1>1, <1>2, <1>3, <1>4, <1>5, <1>6, <1>7, <1>8 DEF OrderlyNext, InMode

----------------------------------------------------------------------------
(* The theorems about orderly guests. *)

LEMMA OrderlyIsGuest == [OrderlyNext]_vars => [Next]_vars
BY DEF OrderlyNext, Next, InMode

LEMMA AlwaysInOrder ==
  ASSUME ReturnsUnlifted, SavesAll PROVE OrderlySpec => [](IInv /\ InOrder)
<1>1. IInv /\ [OrderlyNext]_vars => IInv'
  BY OrderlyIsGuest, NextInv
<1>2. IInv /\ InOrder /\ [OrderlyNext]_vars => InOrder'
  BY NextInOrder
<1> QED  BY InitInv, InitInOrder, <1>1, <1>2, PTL DEF OrderlySpec

\* For any orderly guest whose calls return to addresses outside the table:
\* lifted code runs where the guest is, a run that has returned left nothing on
\* the guest's stack, and one that stops for want of code names the address the
\* guest has reached (lifted_runtime.cpp:15-18, 680-681, 1145-1152).
THEOREM InStepAlways ==
  ASSUME ReturnsUnlifted, SavesAll PROVE OrderlySpec => []InStep
<1>1. ASSUME IInv, InOrder PROVE InStep
  <2>1. Running => Here = gpc
    BY <1>1 DEF InOrder, Running, RunsWith
  <2>2. back = "done" => Ends
    BY <1>1 DEF InOrder
  <2> QED  BY <2>1, <2>2 DEF InStep, Ends, StopsAtGuest
<1> QED  BY <1>1, AlwaysInOrder, PTL

\* No return address is pending while lifted code runs, and exactly the stop
\* states of the functions that are active by a direct call are saved
\* (lifted_runtime.cpp:875-934).
THEOREM NoStaleReturnAlways ==
  ASSUME ReturnsUnlifted, SavesAll PROVE OrderlySpec => []NoStaleReturn
<1>1. ASSUME IInv, InOrder PROVE NoStaleReturn
  BY <1>1 DEF InOrder, Running, RunsWith, NoStaleReturn
<1> QED  BY <1>1, AlwaysInOrder, PTL

\* The steps that end a trace with a return.
LEMMA StepUnwinds ==
  ASSUME IInv, IInv', InOrder, OrderlyNext,
         g_reason' = "returned", Len(host') < Len(host), DirectlyCalled
  PROVE  FALSE
<1>1. g_depth \in Nat /\ g_depth' \in Nat /\ g_depth' < g_depth
  BY DEF IInv, HostInv, GoodHost
<1>2. ASSUME NEW h, NEW a, NEW why, Dispatch(h, a, why) PROVE FALSE
  BY <1>1, <1>2 DEF Dispatch, BeginTrace
<1>3. ~Start
  BY <1>1 DEF Start, BeginTrace
<1>4. ~Ret
  BY <1>1 DEF Ret, FunctionReturns
<1>5. ~Calls
  <2>1. ASSUME NEW f \in Functions PROVE ~DirectCall(f)
    BY <1>1 DEF DirectCall
  <2>2. ASSUME NEW f \in Functions PROVE ~IndirectCall(f)
    BY <1>2 DEF IndirectCall
  <2>3. ASSUME NEW f \in Functions, NEW reason \in {"call", "missing-dispatch"}
        PROVE  ~MissingCall(f, reason)
    <3>1. ~(Push(f) /\ halt(reason, f))
      BY DEF halt, EndTrace, SetStop
    <3>2. g_depth' # g_depth
      BY <1>1
    <3> QED  BY <1>2, <3>1, <3>2 DEF MissingCall, SkipTo
  <2>4. ~ImportCall
    BY <1>1 DEF ImportCall
  <2> QED  BY <2>1, <2>2, <2>3, <2>4 DEF Calls
<1>6. ~Fault
  BY DEF Fault, halt, EndTrace, SetStop
<1>7. ~Unwinding
  <2>1. ~SkippedJumpReturns /\ ~Chase
    BY Returned DEF SkippedJumpReturns, Chase, Whys
  <2>2. ~CallReturns /\ ~Finish
    BY <1>1 DEF CallReturns, Finish
  <2>3. ~Propagate
    <3> SUFFICES ASSUME Propagate PROVE FALSE
      OBVIOUS
    <3>1. g_reason = "returned" /\ back = "jump" /\ back \in Whys
      BY DEF Propagate, halt, EndTrace, SetStop, Whys
    <3>2. Len(Body) = 1
      BY <3>1, Returned
    <3> QED  BY <3>2 DEF DirectlyCalled
  <2> QED  BY <2>1, <2>2, <2>3 DEF Unwinding
<1>8. ~Terminated
  BY <1>1 DEF Terminated, vars
<1> QED  BY <1>3, <1>4, <1>5, <1>6, <1>7, <1>8 DEF OrderlyNext, InMode

\* No return ends a trace over a function that called it directly and waits
\* (lifted_runtime.cpp:20-21, 766-771).
THEOREM UnwindsToItselfAlways ==
  ASSUME ReturnsUnlifted, SavesAll PROVE OrderlySpec => UnwindsToItself
<1>1. ASSUME IInv, IInv', InOrder, [OrderlyNext]_vars
      PROVE  [g_reason' = "returned" /\ Len(host') < Len(host)
                => ~DirectlyCalled]_vars
  BY <1>1, StepUnwinds
<1>2. IInv /\ [OrderlyNext]_vars => IInv'
  BY OrderlyIsGuest, NextInv
<1> QED  BY <1>1, <1>2, AlwaysInOrder, PTL DEF OrderlySpec, UnwindsToItself
=============================================================================
