-------------------------- MODULE UpstreamsProofs --------------------------
(***************************************************************************)
(* Theorems about Upstreams, for any set of providers, any priorities and  *)
(* any number of status changes during a call.                             *)
(***************************************************************************)
EXTENDS Upstreams, FiniteSetTheorems, TLAPS

LEMMA NPositive == N \in Nat /\ N > 0
<1>1. N \in Nat
  BY UpstreamsAssumption, FS_CardinalityType DEF N
<1>2. N # 0
  BY UpstreamsAssumption, FS_EmptySet DEF N
<1>. QED BY <1>1, <1>2
----------------------------------------------------------------------------
(* A change of the environment adds to the past of the providers and       *)
(* leaves the call alone.                                                  *)

LEMMA StateType ==
  ASSUME TypeOK, NEW p \in Providers
  PROVE  State(p) \in States
BY DEF TypeOK, State, States

LEMMA ChangeFrame ==
  ASSUME IInv, Change,
         healthStatus' \in [Providers -> HealthStatus], up' \in [Providers -> BOOLEAN]
  PROVE  /\ UNCHANGED <<Priority, loopVars>>
         /\ past' \in [Providers -> SUBSET States]
         /\ \A p \in Providers : State(p)' \in past'[p] /\ past[p] \subseteq past'[p]
<1>1. \A p \in Providers : State(p)' \in States
  BY DEF State, States
<1>2. \A p \in Providers : past'[p] = past[p] \cup {State(p)'}
  BY DEF Change
<1>3. past' \in [Providers -> SUBSET States]
  BY <1>1 DEF Change, IInv, TypeOK
<1>. QED BY <1>2, <1>3 DEF Change

LEMMA ChangeStep ==
  ASSUME IInv, Change,
         healthStatus' \in [Providers -> HealthStatus], up' \in [Providers -> BOOLEAN]
  PROVE  IInv'
<1>. USE ChangeFrame DEF IInv, loopVars
<1>1. TypeOK'
  BY UpstreamsAssumption DEF TypeOK, Change
<1>2. PastNow'
  BY DEF PastNow
<1>3. \A p \in Providers : past[p] # {} /\ past[p] \subseteq past'[p]
  BY DEF PastNow
<1>4. PoolWanted'
  <2>1. ASSUME NEW q \in upstreamPool
        PROVE  /\ WasUp(q) => WasUp(q)'
               /\ \A s : Was(q, s) => Was(q, s)'
    BY <1>3 DEF WasUp, Was, TypeOK
  <2>. QED BY <2>1 DEF PoolWanted, Wanted, Collecting
<1>5. ReturnedWell' /\ CandidateFits'
  BY <1>3 DEF ReturnedWell, CandidateFits, Collecting, WasUp, Change, TypeOK
<1>6. \A p \in Providers, s \in HealthStatus : Steady(p, s)' => Steady(p, s)
  BY <1>3 DEF Steady
<1>7. \A p \in Providers : (InRange(p)' <=> InRange(p)) /\ (NotMissed(p)' <=> NotMissed(p))
  BY DEF InRange, NotMissed
<1>8. HealthyTracked'
  BY <1>6, <1>7 DEF HealthyTracked, HealthStatus
<1>9. WarningTracked'
  <2>1. \A q \in upstreamPool : Was(q, "Healthy") => Was(q, "Healthy")'
    BY <1>3 DEF TypeOK, Was
  <2>. QED BY <1>6, <1>7, <2>1 DEF WarningTracked, HealthStatus
<1>10. QuietTracked'
  BY DEF Change, TypeOK, QuietTracked
<1>. QED BY <1>1, <1>2, <1>4, <1>5, <1>8, <1>9, <1>10
----------------------------------------------------------------------------
(* The steps of GetUpstreams.                                              *)

callVars == <<Priority, envVars>>

\* What is known of the past of q stands still.
SamePast(q) == /\ InRange(q)' <=> InRange(q)
               /\ WasUp(q)' <=> WasUp(q)
               /\ \A s : /\ Was(q, s)' <=> Was(q, s)
                         /\ Steady(q, s)' <=> Steady(q, s)
                         /\ Reads(q, s)' <=> Reads(q, s)

\* While GetUpstreams runs, what it reads stands still between two changes.
LEMMA CallFrame ==
  ASSUME UNCHANGED callVars
  PROVE  /\ UNCHANGED <<Priority, healthStatus, up, past, changes>>
         /\ \A p \in Providers : State(p)' = State(p) /\ SamePast(p)
<1>1. UNCHANGED <<Priority, healthStatus, up, past, changes>>
  BY DEF callVars, envVars
<1>2. ASSUME NEW p \in Providers
      PROVE  State(p)' = State(p) /\ SamePast(p)
  <2>1. State(p)' = State(p) /\ (InRange(p)' <=> InRange(p)) /\ (WasUp(p)' <=> WasUp(p))
    BY <1>1 DEF State, InRange, WasUp
  <2>2. ASSUME NEW s
        PROVE  /\ Was(p, s)' <=> Was(p, s)
               /\ Steady(p, s)' <=> Steady(p, s)
               /\ Reads(p, s)' <=> Reads(p, s)
    BY <1>1 DEF Was, Steady, Reads
  <2>. QED BY <2>1, <2>2 DEF SamePast
<1>. QED BY <1>1, <1>2

\* The present is part of the past.
LEMMA PresentPast ==
  ASSUME PastNow, NEW p \in Providers
  PROVE  /\ up[p] => WasUp(p)
         /\ Was(p, healthStatus[p])
         /\ \A s : Steady(p, s) => Reads(p, s)
<1>1. State(p) \in past[p] /\ State(p).up = up[p] /\ State(p).status = healthStatus[p]
  BY DEF PastNow, State
<1>2. ASSUME NEW s, Steady(p, s)
      PROVE  Reads(p, s)
  <2>1. State(p) = [up |-> TRUE, status |-> s]
    BY <1>1, <1>2 DEF Steady
  <2>2. State(p).up /\ State(p).status = s
    BY <2>1
  <2>. QED BY <1>1, <2>2 DEF Reads
<1>. QED BY <1>1, <1>2 DEF WasUp, Was

LEMMA VisitStep ==
  ASSUME IInv, NEW p \in Providers, Visit(p)
  PROVE  IInv'
<1>. USE DEF IInv, Visit
<1>1. /\ UNCHANGED <<Priority, healthStatus, up, past, changes, pass, priority, upstreamPool>>
      /\ \A q \in Providers : State(q)' = State(q) /\ SamePast(q)
  BY CallFrame DEF callVars
<1>2. TypeOK'
  BY <1>1 DEF TypeOK
<1>3. PastNow' /\ ReturnedWell'
  BY <1>1 DEF PastNow, ReturnedWell, Collecting
<1>4. PoolWanted'
  BY <1>1 DEF PoolWanted, SamePast, Wanted, Collecting, TypeOK
<1>5. CandidateFits'
  BY <1>1, PresentPast DEF CandidateFits, SamePast, Fits, Collecting, WasUp, TypeOK
<1>6. \A q \in Providers, s \in HealthStatus : Steady(q, s) /\ NotMissed(q) => NotMissed(q)'
  BY <1>1, PresentPast DEF NotMissed, Fits, Reads
<1>7. HealthyTracked' /\ WarningTracked'
  BY <1>1, <1>6 DEF HealthyTracked, WarningTracked, SamePast, HealthStatus, TypeOK
<1>8. QuietTracked'
  <2>1. \A s : Taken(s)' = Taken(s)
    BY <1>1 DEF Taken, Fits, Reads
  <2>2. \A s : NoneBefore(s)' <=> NoneBefore(s)
    BY <1>1 DEF NoneBefore, SamePast
  <2>. QED BY <1>1, <2>1, <2>2 DEF QuietTracked, SamePast
<1>. QED BY <1>2, <1>3, <1>4, <1>5, <1>7, <1>8

LEMMA TestStep ==
  ASSUME IInv, NEW p \in Providers, Test(p)
  PROVE  IInv'
<1>. USE DEF IInv, Test
<1>1. /\ UNCHANGED <<Priority, healthStatus, up, past, changes, pass, priority, todo>>
      /\ \A q \in Providers : State(q)' = State(q) /\ SamePast(q)
  BY CallFrame DEF callVars
<1>2. TypeOK'
  BY <1>1 DEF TypeOK
<1>3. PastNow' /\ ReturnedWell'
  BY <1>1 DEF PastNow, ReturnedWell, Collecting
<1>4. Priority[p] = priority /\ WasUp(p) /\ p \notin todo /\ (changes = 0 => up[p])
  BY DEF CandidateFits
<1>5. PoolWanted'
  <2>1. healthStatus[p] = Wanted => Was(p, Wanted) /\ Wanted \in {"Healthy", "Warning"}
    BY PresentPast DEF Wanted
  <2>2. Wanted' = Wanted /\ Collecting' = Collecting
    BY <1>1 DEF Wanted, Collecting
  <2>. QED BY <1>1, <1>4, <2>1, <2>2 DEF PoolWanted, SamePast, TypeOK
<1>6. CandidateFits'
  BY <1>1 DEF CandidateFits, SamePast, Collecting, TypeOK
<1>7. \A q \in Providers : Steady(q, Wanted) /\ NotMissed(q) => NotMissed(q)'
  BY <1>1, PresentPast DEF NotMissed, Reads
<1>8. HealthyTracked'
  BY <1>1, <1>7 DEF HealthyTracked, SamePast, Wanted, Collecting
<1>9. WarningTracked'
  BY <1>1, <1>7 DEF WarningTracked, SamePast, Wanted, Collecting
<1>10. QuietTracked'
  <2>1. changes = 0 => Taken(Wanted)' = IF healthStatus[p] = Wanted THEN Taken(Wanted) \cup {p}
                                        ELSE Taken(Wanted)
    BY <1>1, <1>4 DEF Taken, Reads, Wanted, TypeOK
  <2>2. \A s : NoneBefore(s)' <=> NoneBefore(s)
    BY <1>1 DEF NoneBefore, SamePast
  <2>3. /\ pass = "available" => Wanted = "Healthy" /\ Taken("Healthy")' = Taken(Wanted)'
        /\ pass = "warning" => Wanted = "Warning" /\ Taken("Warning")' = Taken(Wanted)'
    BY <1>1 DEF Wanted, Taken
  <2>. QED BY <1>1, <2>1, <2>2, <2>3 DEF QuietTracked, SamePast, Collecting
<1>. QED BY <1>2, <1>3, <1>5, <1>6, <1>8, <1>9, <1>10

LEMMA NextPriorityStep ==
  ASSUME IInv, NextPriority
  PROVE  IInv'
<1>. USE DEF IInv, NextPriority, Collecting
<1>1. /\ UNCHANGED <<Priority, healthStatus, up, past, changes, pass, upstreamPool>>
      /\ \A q \in Providers : State(q)' = State(q) /\ SamePast(q)
  BY CallFrame DEF callVars
<1>2. TypeOK'
  BY <1>1, NPositive DEF TypeOK
<1>3. PastNow' /\ PoolWanted' /\ CandidateFits' /\ ReturnedWell'
  BY <1>1 DEF PastNow, PoolWanted, CandidateFits, ReturnedWell, SamePast, Collecting, Wanted, TypeOK
<1>4. \A q \in Providers : NotMissed(q) => NotMissed(q)'
  BY <1>1, NPositive DEF NotMissed, TypeOK
<1>5. HealthyTracked'
  BY <1>1, <1>4 DEF HealthyTracked, SamePast
<1>6. WarningTracked'
  BY <1>1, <1>4 DEF WarningTracked, SamePast
<1>7. QuietTracked'
  <2>1. \A s \in {"Healthy", "Warning"} : (Taken(s) = {} /\ NoneBefore(s)) => NoneBefore(s)'
    BY <1>1, NPositive DEF Taken, NoneBefore, InRange, SamePast, TypeOK
  <2>2. \A s \in {"Healthy", "Warning"} : Taken(s)' = {}
    BY DEF Taken
  <2>. QED BY <1>1, <2>1, <2>2 DEF QuietTracked, SamePast
<1>. QED BY <1>2, <1>3, <1>5, <1>6, <1>7

\* The first pass ends with nothing only if no provider was available all along.
LEMMA NextPassStep ==
  ASSUME IInv, NextPass
  PROVE  IInv'
<1>. USE DEF IInv, NextPass
<1>1. /\ UNCHANGED <<Priority, healthStatus, up, past, changes, upstreamPool>>
      /\ \A q \in Providers : State(q)' = State(q) /\ SamePast(q)
  BY CallFrame DEF callVars
<1>2. TypeOK'
  BY <1>1, NPositive DEF TypeOK
<1>3. PastNow' /\ PoolWanted' /\ CandidateFits' /\ ReturnedWell'
  BY <1>1 DEF PastNow, PoolWanted, CandidateFits, ReturnedWell, SamePast, Collecting, Wanted, TypeOK
<1>4. \A q \in Providers : InRange(q) => ~NotMissed(q)
  BY NPositive DEF InRange, NotMissed, TypeOK
<1>5. HealthyTracked'
  BY <1>1, <1>4 DEF HealthyTracked, SamePast
<1>6. \A q \in Providers : InRange(q) => NotMissed(q)'
  BY <1>1, NPositive DEF InRange, NotMissed, TypeOK
<1>7. WarningTracked'
  BY <1>1, <1>6 DEF WarningTracked, SamePast
<1>8. QuietTracked'
  <2>1. Taken("Warning")' = {} /\ NoneBefore("Warning")'
    BY <1>1, NPositive DEF Taken, NoneBefore, InRange, SamePast, TypeOK
  <2>2. (Taken("Healthy") = {} /\ NoneBefore("Healthy"))
        => \A q \in Providers : Reads(q, "Healthy") => ~InRange(q)
    BY NPositive DEF Taken, NoneBefore, InRange, TypeOK
  <2>. QED BY <1>1, <2>1, <2>2 DEF QuietTracked, SamePast
<1>. QED BY <1>2, <1>3, <1>5, <1>7, <1>8

LEMMA ReturnStep ==
  ASSUME IInv, Return
  PROVE  IInv'
<1>. USE DEF IInv, Return, Collecting
<1>1. /\ UNCHANGED <<Priority, healthStatus, up, past, changes, priority, todo, upstreamPool>>
      /\ \A q \in Providers : State(q)' = State(q) /\ SamePast(q)
  BY CallFrame DEF callVars
<1>2. TypeOK'
  BY <1>1 DEF TypeOK
<1>3. PastNow' /\ PoolWanted' /\ CandidateFits' /\ ReturnedWell'
  BY <1>1 DEF PastNow, PoolWanted, CandidateFits, ReturnedWell, SamePast, Collecting, Wanted, TypeOK
<1>4. \A q \in Providers : NotMissed(q)' <=> NotMissed(q)
  BY <1>1 DEF NotMissed
<1>5. \A q \in Providers : InRange(q) /\ NotMissed(q) /\ pass = "warning" => upstreamPool # {}
  BY NPositive DEF InRange, NotMissed, TypeOK
<1>6. HealthyTracked'
  BY <1>1, <1>4 DEF HealthyTracked, SamePast
<1>7. pass = "available" => upstreamPool # {} /\ \A q \in upstreamPool : Was(q, "Healthy")
  BY DEF PoolWanted, Wanted
<1>8. WarningTracked'
  <2>1. \A q \in upstreamPool : Was(q, "Healthy")' <=> Was(q, "Healthy")
    BY <1>1 DEF SamePast, TypeOK
  <2>. QED BY <1>1, <1>4, <1>5, <1>7, <2>1 DEF WarningTracked, SamePast
<1>9. QuietTracked'
  <2>1. \A s \in {"Healthy", "Warning"} : /\ Taken(s)' = Taken(s)
                                         /\ NoneBefore(s)' <=> NoneBefore(s)
    BY <1>1 DEF Taken, NoneBefore, SamePast
  <2>2. priority + 1 = N => priority = N - 1
    BY NPositive DEF TypeOK
  <2>. QED BY <1>1, <2>1, <2>2 DEF QuietTracked, SamePast
<1>. QED BY <1>2, <1>3, <1>6, <1>8, <1>9

LEMMA CallStep ==
  ASSUME IInv, Call
  PROVE  IInv'
<1>. USE DEF IInv, Call
<1>1. \A q \in Providers : /\ State(q)' = State(q) /\ State(q) \in States
                           /\ InRange(q)' <=> InRange(q)
                           /\ \A s : Reads(q, s)' <=> Reads(q, s)
  BY StateType DEF State, InRange, Reads
<1>2. TypeOK'
  BY <1>1, NPositive, UpstreamsAssumption DEF TypeOK
<1>3. PastNow' /\ PoolWanted' /\ CandidateFits' /\ ReturnedWell'
  BY <1>1 DEF PastNow, PoolWanted, CandidateFits, ReturnedWell, Collecting, Wanted, TypeOK
<1>4. \A q \in Providers : InRange(q) => NotMissed(q)'
  BY NPositive DEF InRange, NotMissed, TypeOK
<1>5. HealthyTracked' /\ WarningTracked'
  BY <1>1, <1>4 DEF HealthyTracked, WarningTracked
<1>6. QuietTracked'
  <2>1. Taken("Healthy")' = {} /\ NoneBefore("Healthy")'
    BY <1>1, NPositive DEF Taken, NoneBefore, InRange, TypeOK
  <2>. QED BY <2>1 DEF QuietTracked
<1>. QED BY <1>2, <1>3, <1>5, <1>6
----------------------------------------------------------------------------
(* The theorems.                                                           *)

LEMMA InitIInv ==
  ASSUME Init
  PROVE  IInv
<1>. USE DEF Init
<1>1. /\ healthStatus \in [Providers -> HealthStatus] /\ up \in [Providers -> BOOLEAN]
      /\ Priority \in [Providers -> Int]
  BY UpstreamsAssumption
<1>2. \A p \in Providers : State(p) \in States
  BY <1>1 DEF State, States
<1>3. TypeOK
  BY <1>1, <1>2, NPositive, UpstreamsAssumption DEF TypeOK
<1>4. PastNow /\ PoolWanted /\ CandidateFits /\ ReturnedWell
  BY DEF PastNow, PoolWanted, CandidateFits, ReturnedWell
<1>5. HealthyTracked /\ WarningTracked
  BY DEF HealthyTracked, WarningTracked
<1>6. QuietTracked
  BY DEF QuietTracked
<1>. QED BY <1>3, <1>4, <1>5, <1>6 DEF IInv

\* The inductive invariant holds in every reachable state.
THEOREM Inductive == Spec => []IInv
<1>1. Init => IInv
  BY InitIInv
<1>2. IInv /\ [Next]_vars => IInv'
  <2>. SUFFICES ASSUME IInv, [Next]_vars
                PROVE  IInv'
    OBVIOUS
  <2>1. ASSUME NEW p \in Providers, NEW s \in HealthStatus, Mark(p, s)
        PROVE  IInv'
    <3>1. healthStatus' \in [Providers -> HealthStatus] /\ up' \in [Providers -> BOOLEAN]
      BY <2>1 DEF Mark, IInv, TypeOK
    <3>. QED BY <2>1, <3>1, ChangeStep DEF Mark
  <2>2. ASSUME NEW p \in Providers, Toggle(p)
        PROVE  IInv'
    <3>1. healthStatus' \in [Providers -> HealthStatus] /\ up' \in [Providers -> BOOLEAN]
      BY <2>2 DEF Toggle, IInv, TypeOK
    <3>. QED BY <2>2, <3>1, ChangeStep DEF Toggle
  <2>3. ASSUME NEW p \in Providers, Visit(p) \/ Test(p)
        PROVE  IInv'
    BY <2>3, VisitStep, TestStep
  <2>4. CASE UNCHANGED vars
    <3>1. UNCHANGED <<Priority, healthStatus, up, pass, priority, todo, candidate, upstreamPool, past, changes>>
      BY <2>4 DEF vars, envVars, loopVars
    <3>2. TypeOK' /\ PastNow' /\ PoolWanted' /\ CandidateFits' /\ ReturnedWell'
      BY <3>1 DEF IInv, TypeOK, PastNow, State, PoolWanted, CandidateFits, ReturnedWell, WasUp, Was,
                  Wanted, Collecting
    <3>3. HealthyTracked' /\ WarningTracked'
      BY <3>1 DEF IInv, HealthyTracked, WarningTracked, Steady, InRange, NotMissed, Was
    <3>4. QuietTracked'
      BY <3>1 DEF IInv, QuietTracked, Taken, NoneBefore, InRange, Reads
    <3>. QED BY <3>2, <3>3, <3>4 DEF IInv
  <2>. QED
    BY <2>1, <2>2, <2>3, <2>4, NextPriorityStep, NextPassStep, ReturnStep, CallStep DEF Next
<1>. QED BY <1>1, <1>2, PTL DEF Spec

\* Every variable keeps its type; the loop variable stays below the number of
\* providers (din_upstreams.go:43, 57).
THEOREM TypeCorrect == Spec => []TypeOK
<1>1. IInv => TypeOK
  BY DEF IInv
<1>. QED BY <1>1, Inductive, PTL

\* The pool holds upstreams of one priority only, none of which was down during the
\* whole call or Unhealthy during the whole call (din_upstreams.go:45, 59,
\* provider.go:45-51).
THEOREM PoolEarnedHolds == Spec => []PoolEarned
<1>1. IInv => PoolEarned
  BY DEF IInv, PoolEarned, PoolWanted
<1>. QED BY <1>1, Inductive, PTL

\* Whatever changes during the call, a provider that stays available is served or
\* outranked (din_upstreams.go:43-52).
THEOREM SteadyServedHolds == Spec => []SteadyServed
<1>1. IInv => SteadyServed
  <2>. SUFFICES ASSUME IInv, pass = "done",
                       NEW p \in Providers, Steady(p, "Healthy"), InRange(p)
                PROVE  /\ upstreamPool # {}
                       /\ \A q \in upstreamPool : Priority[q] <= Priority[p]
                       /\ p \notin upstreamPool => \A q \in upstreamPool : Priority[q] < Priority[p]
    BY DEF SteadyServed
  <2>1. upstreamPool # {} /\ todo = {} /\ candidate = {} /\ NotMissed(p)
    BY DEF IInv, HealthyTracked, ReturnedWell
  <2>2. \A q \in upstreamPool : Priority[q] = priority
    BY DEF IInv, PoolWanted
  <2>3. priority \in Int /\ Priority[p] \in Int
    BY NPositive DEF IInv, TypeOK
  <2>. QED BY <2>1, <2>2, <2>3 DEF NotMissed
<1>. QED BY <1>1, Inductive, PTL

\* The same for a provider that keeps its warning, unless those that are served in
\* its place were up and Healthy, if not at once (din_upstreams.go:56-67).
THEOREM SteadyWarningServedHolds == Spec => []SteadyWarningServed
<1>1. IInv => SteadyWarningServed
  <2>. SUFFICES ASSUME IInv, pass = "done",
                       NEW p \in Providers, Steady(p, "Warning"), InRange(p)
                PROVE  /\ upstreamPool # {}
                       /\ p \notin upstreamPool =>
                            \A q \in upstreamPool : \/ WasUp(q) /\ Was(q, "Healthy")
                                                    \/ Priority[q] < Priority[p]
    BY DEF SteadyWarningServed
  <2>1. /\ upstreamPool # {} /\ todo = {} /\ candidate = {}
        /\ NotMissed(p) \/ \A q \in upstreamPool : Was(q, "Healthy")
    BY DEF IInv, WarningTracked, ReturnedWell
  <2>2. \A q \in upstreamPool : Priority[q] = priority /\ WasUp(q)
    BY DEF IInv, PoolWanted
  <2>3. priority \in Int /\ Priority[p] \in Int
    BY NPositive DEF IInv, TypeOK
  <2>. QED BY <2>1, <2>2, <2>3 DEF NotMissed
<1>. QED BY <1>1, Inductive, PTL

\* A call during which nothing changes returns exactly the foremost available
\* providers, or the foremost with a warning (din_upstreams.go:43-67).
THEOREM QuietCallExactHolds == Spec => []QuietCallExact
<1>1. IInv => QuietCallExact
  <2>. SUFFICES ASSUME IInv, pass = "done", changes = 0
                PROVE  upstreamPool = IF Foremost(With("Healthy")) # {}
                                      THEN Foremost(With("Healthy"))
                                      ELSE Foremost(With("Warning"))
    BY DEF QuietCallExact
  <2>1. todo = {} /\ candidate = {} /\ priority \in 0..N - 1 /\ \A p \in Providers : Priority[p] \in Int
    BY DEF IInv, TypeOK, ReturnedWell
  <2>2. ASSUME NEW s, NoneBefore(s), upstreamPool = Taken(s), upstreamPool # {} \/ priority = N - 1
        PROVE  upstreamPool = Foremost(With(s))
    <3>1. ASSUME NEW p \in Taken(s)
          PROVE  p \in Foremost(With(s))
      BY <2>1, <2>2, <3>1, NPositive DEF Taken, Foremost, With, NoneBefore, InRange
    <3>2. ASSUME NEW p \in Foremost(With(s))
          PROVE  p \in Taken(s)
      <4>1. p \in Providers /\ Reads(p, s) /\ Priority[p] \in 0..N - 1 /\ priority <= Priority[p]
        BY <2>2 DEF Foremost, With, NoneBefore, InRange
      <4>2. Priority[p] <= priority
        <5>1. CASE upstreamPool # {}
          <6>1. PICK q \in Providers : Priority[q] = priority /\ Reads(q, s)
            BY <2>2, <5>1 DEF Taken
          <6>. QED BY <2>1, <6>1 DEF Foremost, With, InRange
        <5>2. CASE priority = N - 1
          BY <4>1, <5>2, NPositive
        <5>. QED BY <2>2, <5>1, <5>2
      <4>. QED BY <2>1, <4>1, <4>2, NPositive DEF Taken
    <3>. QED BY <2>2, <3>1, <3>2
  <2>3. \/ upstreamPool = Taken("Healthy") /\ NoneBefore("Healthy") /\ upstreamPool # {}
        \/ /\ \A p \in Providers : Reads(p, "Healthy") => ~InRange(p)
           /\ upstreamPool = Taken("Warning") /\ NoneBefore("Warning")
           /\ upstreamPool # {} \/ priority = N - 1
    BY DEF IInv, QuietTracked
  <2>4. (\A p \in Providers : Reads(p, "Healthy") => ~InRange(p)) => Foremost(With("Healthy")) = {}
    BY DEF Foremost, With
  <2>. QED BY <2>2, <2>3, <2>4
<1>. QED BY <1>1, Inductive, PTL
=============================================================================
