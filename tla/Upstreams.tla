----------------------------- MODULE Upstreams -----------------------------
(***************************************************************************)
(* GetUpstreams (modules/din_upstreams.go): the pool of upstreams that the *)
(* reverse proxy may pick from for a request.  A first pass collects the   *)
(* available providers of the best priority; if there are none, a second   *)
(* pass collects those with a warning.  Each pass ranges over the          *)
(* providers once per priority.  Nothing is locked: the health checks      *)
(* (Network.tla) and Caddy change what it reads between two reads, also    *)
(* between the two that Available() makes of one provider, Caddy's view of *)
(* the upstream first and then the status.                                 *)
(*                                                                         *)
(* A definition marked "Mutant" is a plausible slip in the definition that *)
(* follows it; it takes part in no behaviour.                              *)
(***************************************************************************)
EXTENDS Integers, FiniteSets

CONSTANTS
  Providers,   \* the providers of the network
  Priorities,  \* the priorities a configuration gives them
  MaxChanges   \* bound: how often statuses change from one call to the next

ASSUME UpstreamsAssumption ==
  /\ IsFiniteSet(Providers)
  /\ Providers # {}
  /\ Priorities \subseteq Int
  /\ MaxChanges \in Nat

N == Cardinality(Providers)

HealthStatus == {"Healthy", "Warning", "Unhealthy"}

VARIABLES
  Priority,      \* provider.Priority, set once by the configuration
  healthStatus,  \* provider.healthStatus
  up,            \* provider.upstream.Available(), Caddy's own view
  pass,          \* which pass over the providers GetUpstreams is in
  priority,      \* its loop variable
  todo,          \* the providers the inner range still visits
  candidate,     \* the one it is at, at most, if Caddy's view of it was good
  upstreamPool,  \* the pool collected so far
  past,          \* history variable: every state of a provider since the call began
  changes        \* how often statuses changed since the call began

envVars  == <<healthStatus, up, past, changes>>
loopVars == <<pass, priority, todo, candidate, upstreamPool>>
vars == <<Priority, envVars, loopVars>>

State(p) == [up |-> up[p], status |-> healthStatus[p]]

States == [up : BOOLEAN, status : HealthStatus]
----------------------------------------------------------------------------
Init ==
  /\ Priority \in [Providers -> Priorities]
  /\ healthStatus \in [Providers -> HealthStatus]
  /\ up \in [Providers -> BOOLEAN]
  /\ pass = "idle"
  /\ priority = 0
  /\ todo = {}
  /\ candidate = {}
  /\ upstreamPool = {}
  /\ past = [p \in Providers |-> {State(p)}]
  /\ changes = 0

(* The environment: health checks write healthStatus, Caddy counts failed  *)
(* and concurrent requests.                                                *)
Change ==
  /\ changes < MaxChanges
  /\ changes' = changes + 1
  /\ past' = [p \in Providers |-> past[p] \cup {State(p)'}]
  /\ UNCHANGED <<Priority, loopVars>>

Mark(p, status) == /\ status # healthStatus[p]
                   /\ healthStatus' = [healthStatus EXCEPT ![p] = status]
                   /\ UNCHANGED up
                   /\ Change

Toggle(p) == /\ up' = [up EXCEPT ![p] = ~@]
             /\ UNCHANGED healthStatus
             /\ Change
----------------------------------------------------------------------------
(* GetUpstreams.                                                           *)

Collecting == pass \in {"available", "warning"}

Wanted == IF pass = "available" THEN "Healthy" ELSE "Warning"

\* Mutant: upstream.Available() is not asked.
FitsThoughDown(p) == Priority[p] = priority

\* Mutant: the priority is not looked at.
FitsAnyPriority(p) == up[p]

\* p.Priority == priority, and the first half of p.Available() or
\* p.IsAvailableWithWarning(): p.upstream.Available().
Fits(p) == Priority[p] = priority /\ up[p]

Visit(p) ==
  /\ Collecting
  /\ p \in todo /\ candidate = {}
  /\ todo' = todo \ {p}
  /\ candidate' = IF Fits(p) THEN {p} ELSE {}
  /\ UNCHANGED <<Priority, envVars, pass, priority, upstreamPool>>

\* The other half: p.Healthy(), or p.Warning() in the second pass.
Test(p) ==
  /\ Collecting
  /\ p \in candidate
  /\ candidate' = candidate \ {p}
  /\ upstreamPool' = IF healthStatus[p] = Wanted THEN upstreamPool \cup {p} ELSE upstreamPool
  /\ UNCHANGED <<Priority, envVars, pass, priority, todo>>

\* Mutant: the loop runs one priority too far.
PriorityPastEnd ==
  /\ Collecting
  /\ todo = {} /\ candidate = {} /\ upstreamPool = {}
  /\ priority + 1 <= N
  /\ priority' = priority + 1
  /\ todo' = Providers
  /\ UNCHANGED <<Priority, envVars, pass, candidate, upstreamPool>>

\* Nothing of this priority, try the next one.
NextPriority ==
  /\ Collecting
  /\ todo = {} /\ candidate = {} /\ upstreamPool = {}
  /\ priority + 1 < N
  /\ priority' = priority + 1
  /\ todo' = Providers
  /\ UNCHANGED <<Priority, envVars, pass, candidate, upstreamPool>>

\* Mutant: the priority is not reset for the second pass.
PassNotReset ==
  /\ pass = "available"
  /\ todo = {} /\ candidate = {} /\ upstreamPool = {}
  /\ priority + 1 = N
  /\ pass' = "warning"
  /\ todo' = Providers
  /\ UNCHANGED <<Priority, envVars, priority, candidate, upstreamPool>>

\* Nothing available at all, try the providers with a warning.
NextPass ==
  /\ pass = "available"
  /\ todo = {} /\ candidate = {} /\ upstreamPool = {}
  /\ priority + 1 = N
  /\ pass' = "warning"
  /\ priority' = 0
  /\ todo' = Providers
  /\ UNCHANGED <<Priority, envVars, candidate, upstreamPool>>

\* Mutant: the range ends with the first provider found.
ReturnAtFirst ==
  /\ Collecting
  /\ upstreamPool # {} \/ (todo = {} /\ pass = "warning" /\ priority + 1 = N)
  /\ candidate = {}
  /\ pass' = "done"
  /\ UNCHANGED <<Priority, envVars, priority, todo, candidate, upstreamPool>>

\* Mutant: the last pass goes on until something is found.
ReturnOnlyFound ==
  /\ Collecting
  /\ todo = {} /\ candidate = {}
  /\ upstreamPool # {}
  /\ pass' = "done"
  /\ UNCHANGED <<Priority, envVars, priority, todo, candidate, upstreamPool>>

\* The break out of a pass that found something, or the end of the last pass.
Return ==
  /\ Collecting
  /\ todo = {} /\ candidate = {}
  /\ upstreamPool # {} \/ (pass = "warning" /\ priority + 1 = N)
  /\ pass' = "done"
  /\ UNCHANGED <<Priority, envVars, priority, todo, candidate, upstreamPool>>

\* The reverse proxy calls GetUpstreams.
Call ==
  /\ pass \in {"idle", "done"}
  /\ pass' = "available"
  /\ priority' = 0
  /\ todo' = Providers
  /\ candidate' = {}
  /\ upstreamPool' = {}
  /\ past' = [p \in Providers |-> {State(p)}]
  /\ changes' = 0
  /\ UNCHANGED <<Priority, healthStatus, up>>

Next == \/ \E p \in Providers : Visit(p) \/ Test(p) \/ Toggle(p) \/ \E s \in HealthStatus : Mark(p, s)
        \/ NextPriority
        \/ NextPass
        \/ Return
        \/ Call

Spec == Init /\ [][Next]_vars
----------------------------------------------------------------------------
(* Invariants.                                                             *)

TypeOK ==
  /\ Priority \in [Providers -> Int]
  /\ healthStatus \in [Providers -> HealthStatus]
  /\ up \in [Providers -> BOOLEAN]
  /\ pass \in {"idle", "available", "warning", "done"}
  /\ priority \in 0..N - 1
  /\ todo \subseteq Providers
  /\ candidate \subseteq Providers
  /\ upstreamPool \subseteq Providers
  /\ past \in [Providers -> SUBSET States]
  /\ changes \in 0..MaxChanges

\* The priorities the loops ever reach.
InRange(p) == Priority[p] \in 0..N - 1

\* What p was at some moment of the call.
WasUp(p) == \E state \in past[p] : state.up
Was(p, status) == \E state \in past[p] : state.status = status

\* p was up and had this status during the whole call.
Steady(p, status) == past[p] = {[up |-> TRUE, status |-> status]}

\* Every upstream of the pool has the priority the loop stopped at, was up at some
\* moment of the call and was Healthy, or else Warning, at some moment of it: no
\* order of status changes brings in a provider that was down all along, or
\* Unhealthy all along (din_upstreams.go:45, 59).  The two moments may differ: a
\* provider that goes down before it turns Healthy can be taken, although
\* it was never available (provider.go:45-51).
PoolEarned ==
  \A p \in upstreamPool : /\ Priority[p] = priority
                          /\ WasUp(p)
                          /\ Was(p, "Healthy") \/ Was(p, "Warning")

\* A provider that is available during the whole call is in the pool, unless the
\* pool holds providers of a better priority; whatever the status changes of the
\* others meanwhile, the pool is not empty (din_upstreams.go:43-52).
SteadyServed ==
  pass = "done" =>
    \A p \in Providers :
      (Steady(p, "Healthy") /\ InRange(p)) =>
        /\ upstreamPool # {}
        /\ \A q \in upstreamPool : Priority[q] <= Priority[p]
        /\ p \notin upstreamPool => \A q \in upstreamPool : Priority[q] < Priority[p]

\* A provider that keeps its warning during the whole call gives a pool that is
\* not empty; it is left out only for providers that were Healthy at some moment
\* and up at some moment, or have a better priority (din_upstreams.go:56-67).
SteadyWarningServed ==
  pass = "done" =>
    \A p \in Providers :
      (Steady(p, "Warning") /\ InRange(p)) =>
        /\ upstreamPool # {}
        /\ p \notin upstreamPool =>
             \A q \in upstreamPool : \/ WasUp(q) /\ Was(q, "Healthy")
                                     \/ Priority[q] < Priority[p]

Reads(p, status) == up[p] /\ healthStatus[p] = status

With(status) == {p \in Providers : Reads(p, status)}

Foremost(S) == {p \in S : InRange(p) /\ \A q \in S : InRange(q) => Priority[p] <= Priority[q]}

\* A call during which nothing changes returns the foremost available providers,
\* or the foremost ones with a warning if none is available, and none if there is
\* neither.  That is what the comment at din_upstreams.go:69 says, "If no upstreams are
\* available, pass along no upstreams"; the one at line 42 says "all upstreams".
QuietCallExact ==
  (pass = "done" /\ changes = 0) =>
    upstreamPool = IF Foremost(With("Healthy")) # {}
                   THEN Foremost(With("Healthy"))
                   ELSE Foremost(With("Warning"))
----------------------------------------------------------------------------
(* The inductive invariant, proved in UpstreamsProofs.                     *)

\* The history variable knows the present.
PastNow == \A p \in Providers : State(p) \in past[p]

PoolWanted ==
  \A q \in upstreamPool : /\ Priority[q] = priority
                          /\ WasUp(q)
                          /\ Collecting => Was(q, Wanted)
                          /\ Was(q, "Healthy") \/ Was(q, "Warning")

\* What is known of the provider whose status is read next.
CandidateFits ==
  \A p \in candidate : /\ Collecting
                       /\ p \notin todo
                       /\ Priority[p] = priority
                       /\ WasUp(p)
                       /\ changes = 0 => up[p]

\* The loop has not passed over p: it stands at a better priority, or p is still
\* to be visited or tested, or p has been taken.
NotMissed(p) == /\ priority <= Priority[p]
                /\ priority = Priority[p] => p \in todo \cup candidate \cup upstreamPool

ReturnedWell == pass = "done" => todo = {} /\ candidate = {}

HealthyTracked ==
  \A p \in Providers :
    (Steady(p, "Healthy") /\ InRange(p) /\ pass # "idle")
    => /\ NotMissed(p)
       /\ pass = "available" \/ (pass = "done" /\ upstreamPool # {})

WarningTracked ==
  \A p \in Providers :
    (Steady(p, "Warning") /\ InRange(p) /\ pass # "idle")
    => \/ pass = "available"
       \/ pass = "warning" /\ NotMissed(p)
       \/ /\ pass = "done" /\ upstreamPool # {}
          /\ NotMissed(p) \/ \A q \in upstreamPool : Was(q, "Healthy")

\* The providers behind the loop that a pass for this status takes at this priority.
Taken(status) ==
  {p \in Providers \ (todo \cup candidate) : Priority[p] = priority /\ Reads(p, status)}

NoneBefore(status) ==
  \A p \in Providers : (Reads(p, status) /\ InRange(p)) => priority <= Priority[p]

\* As long as nothing changes, the pool is exactly what the pass has found.
QuietTracked ==
  (changes = 0 /\ pass # "idle") =>
    \/ /\ pass \in {"available", "done"}
       /\ upstreamPool = Taken("Healthy")
       /\ NoneBefore("Healthy")
       /\ pass = "done" => upstreamPool # {}
    \/ /\ pass \in {"warning", "done"}
       /\ \A p \in Providers : Reads(p, "Healthy") => ~InRange(p)
       /\ upstreamPool = Taken("Warning")
       /\ NoneBefore("Warning")
       /\ pass = "done" => upstreamPool # {} \/ priority = N - 1

\* The inductive invariant as a whole, of which PoolEarned, SteadyServed,
\* SteadyWarningServed and QuietCallExact are consequences.
IInv == /\ TypeOK
        /\ PastNow
        /\ PoolWanted
        /\ CandidateFits
        /\ ReturnedWell
        /\ HealthyTracked
        /\ WarningTracked
        /\ QuietTracked
=============================================================================
