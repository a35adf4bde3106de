------------------------------ MODULE Network ------------------------------
(***************************************************************************)
(* The health check of one network (modules/network.go) and the health     *)
(* state of its providers (modules/provider.go).                           *)
(*                                                                         *)
(* healthCheck starts one goroutine per provider and waits for all of      *)
(* them.  A goroutine posts a request, classifies the answer, and compares *)
(* the reported height with n.LatestBlockNumber.  LatestBlockNumber and    *)
(* every healthStatus are shared by the goroutines of the round and are    *)
(* read and written without a lock, so each such access is a step of its   *)
(* own here; only the map CheckedProviders is behind the RWMutex n.mu.     *)
(* failures and successes of a provider are touched by its own goroutine   *)
(* alone, hence together with the access next to them.                     *)
(*                                                                         *)
(* A definition marked "Mutant" is a plausible slip in the definition that *)
(* follows it; it takes part in no behaviour and shows that a property     *)
(* would notice the slip.                                                  *)
(***************************************************************************)
EXTENDS Integers, Sequences, FiniteSets

CONSTANTS
  Providers,      \* the providers of the network, each under its host
  Responses,      \* what Post may return: [status, body] records
  Undecodable,    \* a body from which no block number can be read
  ShortString,    \* a body whose "result" is a string of one character
  NoAnswer,       \* stands for: no answer in this round yet
  HCThreshold,    \* n.HCThreshold
  BlockLagLimit,  \* n.BlockLagLimit
  HistoryLimit    \* how many entries a checked provider keeps (10 in the code)

TransportError == 0   \* the status of a Post that returned an error

Response == [status : Nat, body : Nat \cup {Undecodable, ShortString}]

ASSUME NetworkAssumption ==
  /\ IsFiniteSet(Providers)
  /\ Providers # {}
  /\ Responses \subseteq Response
  /\ Undecodable \notin Nat /\ ShortString \notin Nat
  /\ Undecodable # ShortString
  /\ NoAnswer \notin Responses
  /\ HCThreshold \in Nat
  /\ BlockLagLimit \in Nat
  /\ HistoryLimit \in Nat \ {0}

VARIABLES
  round,              \* where the loop of startHealthcheck is
  tick,               \* whether the ticker's one-slot channel holds a tick
  pc,                 \* where each provider's goroutine is
  answer,             \* what getLatestBlockNumber was answered
  todo,               \* the keys a range over CheckedProviders still visits
  target,             \* the provider that range is about to mark
  failures,           \* provider.failures, capped by Count
  successes,          \* provider.successes, capped by Count
  healthStatus,       \* provider.healthStatus
  LatestBlockNumber,  \* n.LatestBlockNumber
  CheckedProviders,   \* n.CheckedProviders, <<>> for a missing key
  metrics,            \* calls of HandleLatestBlockMetric in this round
  startBlock          \* history variable: LatestBlockNumber at the round's start

roundVars  == <<round, tick, startBlock>>
healthVars == <<failures, successes, healthStatus>>
rangeVars  == <<todo, target>>
chainVars  == <<LatestBlockNumber, CheckedProviders>>
vars == <<roundVars, pc, answer, rangeVars, healthVars, chainVars, metrics>>

HealthStatus == {"Healthy", "Warning", "Unhealthy"}
----------------------------------------------------------------------------
(* How an answer is classified: getLatestBlockNumber and healthCheck.      *)

\* getLatestBlockNumber returns an error: Post failed, the status says the
\* network is unavailable, or no block number can be read from the body.
Errs(r) == \/ r.status \in {TransportError, 503, 523}
           \/ r.body = Undecodable

\* result[:2] is evaluated on a string of length one.
Panics(r) == ~Errs(r) /\ r.body = ShortString

RateLimited(r) == ~Errs(r) /\ r.body # ShortString /\ r.status = 429

ErrorStatus(r) == ~Errs(r) /\ r.body # ShortString /\ r.status > 399 /\ r.status # 429

Succeeds(r) == ~Errs(r) /\ r.body # ShortString /\ r.status <= 399

\* Provider p has reported a height in the current round.
Reported(p) == answer[p] # NoAnswer /\ Succeeds(answer[p])

providerBlockNumber(p) == answer[p].body

Blocks == {r.body : r \in {x \in Responses : Succeeds(x)}}

\* The counters matter only through the comparison with HCThreshold, so they
\* stop one above it; the bound that makes the state finite.
Count(n) == IF n > HCThreshold THEN n ELSE n + 1
----------------------------------------------------------------------------
Init ==
  /\ round = "first"
  /\ tick = FALSE
  /\ pc = [p \in Providers |-> "post"]
  /\ answer = [p \in Providers |-> NoAnswer]
  /\ todo = [p \in Providers |-> {}]
  /\ target = [p \in Providers |-> p]
  /\ failures = [p \in Providers |-> 0]
  /\ successes = [p \in Providers |-> 0]
  /\ healthStatus = [p \in Providers |-> "Healthy"]
  /\ LatestBlockNumber = 0
  /\ CheckedProviders = [p \in Providers |-> <<>>]
  /\ metrics = 0
  /\ startBlock = 0

Goto(p, from, to) == /\ pc[p] = from
                     /\ pc' = [pc EXCEPT ![p] = to]

\* One unlocked write of provider.healthStatus.
SetStatus(p, status) == healthStatus' = [healthStatus EXCEPT ![p] = status]
----------------------------------------------------------------------------
(* startHealthcheck: the first round runs inside the call, before there is *)
(* a ticker; the loop then starts a round per tick, one round at a time.   *)

\* The ticker fires; a tick that finds the channel full is dropped.
Tick == /\ round \notin {"first", "crashed"}
        /\ ~tick
        /\ tick' = TRUE
        /\ UNCHANGED <<round, startBlock, pc, answer, rangeVars, healthVars, chainVars, metrics>>

StartRound ==
  /\ round = "waiting"
  /\ tick
  /\ tick' = FALSE
  /\ round' = "checking"
  /\ startBlock' = LatestBlockNumber
  /\ pc' = [p \in Providers |-> "post"]
  /\ answer' = [p \in Providers |-> NoAnswer]
  /\ metrics' = 0
  /\ UNCHANGED <<rangeVars, healthVars, chainVars>>

\* wg.Wait returns.
EndRound ==
  /\ round # "waiting"
  /\ \A p \in Providers : pc[p] = "done"
  /\ round' = "waiting"
  /\ UNCHANGED <<tick, startBlock, pc, answer, rangeVars, healthVars, chainVars, metrics>>
----------------------------------------------------------------------------
(* The goroutine of provider p: the ping health check.                     *)

Answered(p, r) == answer' = [answer EXCEPT ![p] = r]

\* Mutant: the failure that reaches the threshold already counts as exceeding it.
FailureAtThreshold(p) ==
  /\ failures' = [failures EXCEPT ![p] = Count(@)]
  /\ successes' = [successes EXCEPT ![p] = 0]
  /\ Goto(p, "post", IF healthStatus[p] = "Healthy" /\ failures'[p] >= HCThreshold
                     THEN "setUnhealthy" ELSE "metric")
  /\ UNCHANGED healthStatus

\* Mutant: the two counters are confused.
FailureCountersSwapped(p) ==
  /\ successes' = [successes EXCEPT ![p] = Count(@)]
  /\ failures' = [failures EXCEPT ![p] = 0]
  /\ Goto(p, "post", IF healthStatus[p] = "Healthy" /\ failures'[p] > HCThreshold
                     THEN "setUnhealthy" ELSE "metric")
  /\ UNCHANGED healthStatus

\* Mutant: a failed check returns before it sends its metric.
FailureWithoutMetric(p) ==
  /\ failures' = [failures EXCEPT ![p] = Count(@)]
  /\ successes' = [successes EXCEPT ![p] = 0]
  /\ Goto(p, "post", IF healthStatus[p] = "Healthy" /\ failures'[p] > HCThreshold
                     THEN "setUnhealthy" ELSE "done")
  /\ UNCHANGED healthStatus

\* markPingFailure up to its test; SetUnhealthy is the write under the test.
markPingFailure(p) ==
  /\ failures' = [failures EXCEPT ![p] = Count(@)]
  /\ successes' = [successes EXCEPT ![p] = 0]
  /\ Goto(p, "post", IF healthStatus[p] = "Healthy" /\ failures'[p] > HCThreshold
                     THEN "setUnhealthy" ELSE "metric")
  /\ UNCHANGED healthStatus

PingFailure(p) ==
  /\ \E r \in Responses : (Errs(r) \/ ErrorStatus(r)) /\ Answered(p, r)
  /\ markPingFailure(p)
  /\ UNCHANGED <<roundVars, rangeVars, chainVars, metrics>>

SetUnhealthy(p) ==
  /\ Goto(p, "setUnhealthy", "metric")
  /\ SetStatus(p, "Unhealthy")
  /\ UNCHANGED <<roundVars, answer, rangeVars, failures, successes, chainVars, metrics>>

markPingWarning(p) ==
  /\ successes' = [successes EXCEPT ![p] = 0]
  /\ failures' = [failures EXCEPT ![p] = 0]
  /\ SetStatus(p, "Warning")

\* Mutant: no return after a rate limited answer, the consistency check follows.
WarningWithoutReturn(p) ==
  /\ \E r \in Responses : RateLimited(r) /\ Answered(p, r)
  /\ Goto(p, "post", "newer")
  /\ markPingWarning(p)
  /\ UNCHANGED <<roundVars, rangeVars, chainVars, metrics>>

PingWarning(p) ==
  /\ \E r \in Responses : RateLimited(r) /\ Answered(p, r)
  /\ Goto(p, "post", "metric")
  /\ markPingWarning(p)
  /\ UNCHANGED <<roundVars, rangeVars, chainVars, metrics>>

\* markPingSuccess up to its test; SetHealthy is the write under the test.
markPingSuccess(p) ==
  LET recovers == healthStatus[p] = "Unhealthy" /\ Count(successes[p]) > HCThreshold
  IN /\ successes' = [successes EXCEPT ![p] = Count(@)]
     /\ failures' = IF recovers THEN [failures EXCEPT ![p] = 0] ELSE failures
     /\ Goto(p, "post", IF recovers THEN "setHealthy" ELSE "newer")
     /\ UNCHANGED healthStatus

PingSuccess(p) ==
  /\ \E r \in Responses : Succeeds(r) /\ Answered(p, r)
  /\ markPingSuccess(p)
  /\ UNCHANGED <<roundVars, rangeVars, chainVars, metrics>>

SetHealthy(p) ==
  /\ Goto(p, "setHealthy", "newer")
  /\ SetStatus(p, "Healthy")
  /\ UNCHANGED <<roundVars, answer, rangeVars, failures, successes, chainVars, metrics>>

\* A panic in a goroutine, which nobody recovers, ends the process.
Panic(p) ==
  /\ pc[p] = "post"
  /\ \E r \in Responses : Panics(r) /\ Answered(p, r)
  /\ round' = "crashed"
  /\ pc' = [q \in Providers |-> "panicked"]
  /\ UNCHANGED <<tick, startBlock, rangeVars, healthVars, chainVars, metrics>>
----------------------------------------------------------------------------
(* The goroutine of provider p: the consistency health check, a chain of   *)
(* comparisons each of which reads LatestBlockNumber again.                *)

localVars == <<roundVars, answer, rangeVars, metrics>>

\* Mutant: an equal height counts as newer.
NewerOrEqual(p) ==
  /\ Goto(p, "newer", IF \/ LatestBlockNumber = 0
                         \/ LatestBlockNumber <= providerBlockNumber(p)
                      THEN "setLatest" ELSE "equal")
  /\ UNCHANGED <<localVars, healthVars, chainVars>>

\* Mutant: any other height counts as newer.
NewerOrOlder(p) ==
  /\ Goto(p, "newer", IF \/ LatestBlockNumber = 0
                         \/ LatestBlockNumber # providerBlockNumber(p)
                      THEN "setLatest" ELSE "equal")
  /\ UNCHANGED <<localVars, healthVars, chainVars>>

CompareNewer(p) ==
  /\ Goto(p, "newer", IF \/ LatestBlockNumber = 0
                         \/ LatestBlockNumber < providerBlockNumber(p)
                      THEN "setLatest" ELSE "equal")
  /\ UNCHANGED <<localVars, healthVars, chainVars>>

\* Mutant: the branch of an equal height does not mark the provider healthy.
EqualUnmarked(p) ==
  /\ Goto(p, "equal", IF LatestBlockNumber = providerBlockNumber(p)
                      THEN "metric" ELSE "lagging")
  /\ UNCHANGED <<localVars, healthVars, chainVars>>

CompareEqual(p) ==
  /\ Goto(p, "equal", IF LatestBlockNumber = providerBlockNumber(p)
                      THEN "markHealthy" ELSE "lagging")
  /\ UNCHANGED <<localVars, healthVars, chainVars>>

\* Mutant: one block more of lag is let through.
LaggingLate(p) ==
  /\ Goto(p, "lagging", IF providerBlockNumber(p) + BlockLagLimit + 1 < LatestBlockNumber
                        THEN "markWarning" ELSE "metric")
  /\ UNCHANGED <<localVars, healthVars, chainVars>>

CompareLagging(p) ==
  /\ Goto(p, "lagging", IF providerBlockNumber(p) + BlockLagLimit < LatestBlockNumber
                        THEN "markWarning" ELSE "metric")
  /\ UNCHANGED <<localVars, healthVars, chainVars>>

SetLatest(p) ==
  /\ Goto(p, "setLatest", "markLeader")
  /\ LatestBlockNumber' = providerBlockNumber(p)
  /\ UNCHANGED <<localVars, healthVars, CheckedProviders>>

MarkHealthy(p) ==
  /\ \/ Goto(p, "markLeader", "rlock")
     \/ Goto(p, "markHealthy", "metric")
  /\ SetStatus(p, "Healthy")
  /\ UNCHANGED <<localVars, failures, successes, chainVars>>

MarkWarning(p) ==
  /\ Goto(p, "markWarning", "metric")
  /\ SetStatus(p, "Warning")
  /\ UNCHANGED <<localVars, failures, successes, chainVars>>
----------------------------------------------------------------------------
(* evaluateCheckedProviders: a range over CheckedProviders under n.mu's    *)
(* read lock, held from RLock to RUnlock.                                  *)

\* Mutant: the read lock is held until the goroutine returns.
ReadersUntilReturn ==
  {p \in Providers : pc[p] \in {"evaluate", "markLaggard", "metric", "append"}}

Readers == {p \in Providers : pc[p] \in {"evaluate", "markLaggard"}}

Checked == {q \in Providers : CheckedProviders[q] # <<>>}

RLock(p) ==
  /\ Goto(p, "rlock", "evaluate")
  /\ todo' = [todo EXCEPT ![p] = Checked]
  /\ UNCHANGED <<roundVars, answer, target, metrics, healthVars, chainVars>>

\* The test on one entry: its newest height against LatestBlockNumber.
Evaluate(p) ==
  \E q \in todo[p] :
    LET lags == CheckedProviders[q][1] + BlockLagLimit < LatestBlockNumber
    IN /\ Goto(p, "evaluate", IF lags THEN "markLaggard" ELSE "evaluate")
       /\ target' = IF lags THEN [target EXCEPT ![p] = q] ELSE target
       /\ todo' = [todo EXCEPT ![p] = @ \ {q}]
       /\ UNCHANGED <<roundVars, answer, metrics, healthVars, chainVars>>

MarkLaggard(p) ==
  /\ Goto(p, "markLaggard", "evaluate")
  /\ SetStatus(target[p], "Warning")
  /\ target' = [target EXCEPT ![p] = p]
  /\ UNCHANGED <<roundVars, answer, todo, metrics, failures, successes, chainVars>>

RUnlock(p) ==
  /\ todo[p] = {}
  /\ Goto(p, "evaluate", "metric")
  /\ UNCHANGED <<localVars, healthVars, chainVars>>
----------------------------------------------------------------------------
(* The end of the goroutine.                                               *)

sendLatestBlockMetric(p) ==
  /\ Goto(p, "metric", IF Reported(p) THEN "append" ELSE "done")
  /\ metrics' = metrics + 1
  /\ UNCHANGED <<roundVars, answer, rangeVars, healthVars, chainVars>>

\* Mutant: nothing is cut off.
NewestUncut(b, list) == <<b>> \o list

\* Mutant: a full list stays as it is.
NewestUnlessFull(b, list) == IF Len(list) = HistoryLimit THEN list ELSE <<b>> \o list

\* The list with the new height in front, cut to HistoryLimit entries.
Newest(b, list) ==
  <<b>> \o (IF Len(list) = HistoryLimit THEN SubSeq(list, 1, HistoryLimit - 1) ELSE list)

\* addHealthCheckToCheckedProviderList: nobody else writes the entry of p, so
\* what it reads under the read lock is still there under the write lock.
AddHealthCheck(p) ==
  /\ Readers = {}
  /\ Goto(p, "append", "done")
  /\ CheckedProviders' = [CheckedProviders EXCEPT ![p] = Newest(providerBlockNumber(p), @)]
  /\ UNCHANGED <<localVars, healthVars, LatestBlockNumber>>
----------------------------------------------------------------------------
\* Post returns, with whatever the provider or the transport answers.
Post(p) == PingFailure(p) \/ PingWarning(p) \/ PingSuccess(p) \/ Panic(p)

\* What the goroutine does once it has its answer.
Proceed(p) ==
  \/ SetUnhealthy(p) \/ SetHealthy(p)
  \/ CompareNewer(p) \/ CompareEqual(p) \/ CompareLagging(p)
  \/ SetLatest(p) \/ MarkHealthy(p) \/ MarkWarning(p)
  \/ RLock(p) \/ Evaluate(p) \/ MarkLaggard(p) \/ RUnlock(p)
  \/ sendLatestBlockMetric(p) \/ AddHealthCheck(p)

\* The process has ended; nothing happens any more.
Dead == round = "crashed" /\ UNCHANGED vars

Next == \/ Tick
        \/ StartRound
        \/ EndRound
        \/ \E p \in Providers : Post(p) \/ Proceed(p)
        \/ Dead

Spec == Init /\ [][Next]_vars

\* The Go scheduler runs every goroutine that can run, the ticker keeps firing,
\* and a waiting writer of n.mu gets it once the readers are gone.
Fairness == /\ WF_vars(Tick)
            /\ WF_vars(StartRound)
            /\ WF_vars(EndRound)
            /\ \A p \in Providers : WF_vars(Proceed(p))

\* Every request is answered or fails in the end.  Nothing in the code ensures
\* it: the http.Client of lib/http has no timeout.
PostsReturn == \A p \in Providers : WF_vars(Post(p))

LiveSpec == Spec /\ Fairness /\ PostsReturn
----------------------------------------------------------------------------
(* Invariants.                                                             *)

PC == {"post", "setUnhealthy", "setHealthy", "newer", "equal", "lagging",
       "setLatest", "markLeader", "markHealthy", "markWarning", "rlock",
       "evaluate", "markLaggard", "metric", "append", "done", "panicked"}

\* The type of every variable; no history outgrows HistoryLimit.
TypeOK ==
  /\ round \in {"first", "waiting", "checking", "crashed"}
  /\ tick \in BOOLEAN
  /\ pc \in [Providers -> PC]
  /\ answer \in [Providers -> Responses \cup {NoAnswer}]
  /\ todo \in [Providers -> SUBSET Providers]
  /\ target \in [Providers -> Providers]
  /\ failures \in [Providers -> 0..HCThreshold + 1]
  /\ successes \in [Providers -> 0..HCThreshold + 1]
  /\ healthStatus \in [Providers -> HealthStatus]
  /\ LatestBlockNumber \in Nat
  /\ startBlock \in Nat
  /\ CheckedProviders \in [Providers -> Seq(Nat)]
  /\ \A p \in Providers : Len(CheckedProviders[p]) <= HistoryLimit
  /\ metrics \in Nat

RoundOver == round = "waiting"

\* Whatever the order in which the goroutines read and write it, the height of
\* the network is the one the round started from or one reported in this round
\* that is newer: a lost update may undo a newer report of the same round, and
\* nothing older (network.go:124-127).
LatestFromRound ==
  \/ LatestBlockNumber = startBlock
  \/ \E p \in Providers : /\ Reported(p)
                          /\ LatestBlockNumber = providerBlockNumber(p)
                          /\ startBlock = 0 \/ LatestBlockNumber > startBlock

\* A round in which somebody reports a newer height ends on a newer height,
\* however the goroutines race; from height 0, where any report is taken
\* (network.go:124), a report of 0 may still win.
LatestAdvances ==
  (/\ RoundOver
   /\ startBlock > 0
   /\ \E p \in Providers : Reported(p) /\ providerBlockNumber(p) > startBlock)
  => LatestBlockNumber > startBlock

\* A provider that reports a height more than BlockLagLimit behind what the
\* network knew when the round began is in Warning when the round ends: no
\* interleaving lets it keep or regain Healthy, although the height it is compared
\* with may be raised, and lowered again, between its comparisons (network.go:124-136).
LaggingDemoted ==
  RoundOver =>
    \A p \in Providers :
      (Reported(p) /\ providerBlockNumber(p) + BlockLagLimit < startBlock)
      => healthStatus[p] = "Warning"

\* A provider that reports a height above all others of the round, or the height
\* the network had with nobody above it, ends the round Healthy, provided the
\* chain did not move on by more than BlockLagLimit since its previous report (or
\* it has none): without the proviso evaluateCheckedProviders demotes it for that
\* previous report.  Sharing a new greatest height is not enough: a slow goroutine
\* may write an older height between the two comparisons of a fast one, which then
\* takes no branch at all (network.go:124-136).  Stated for HistoryLimit > 1.
FrontRunnerHealthy ==
  RoundOver =>
    \A p \in Providers :
      (/\ Reported(p)
       /\ providerBlockNumber(p) >= startBlock
       /\ \A q \in Providers \ {p} :
            Reported(q) => \/ providerBlockNumber(q) < providerBlockNumber(p)
                           \/ providerBlockNumber(q) <= startBlock
       /\ Len(CheckedProviders[p]) > 1
            => CheckedProviders[p][2] + BlockLagLimit >= providerBlockNumber(p))
      => healthStatus[p] = "Healthy"

\* A provider is Unhealthy only after more than HCThreshold failures since its
\* failures were last reset, although other goroutines write its status between
\* the test and the write of markPingFailure (provider.go:62-84); markPingSuccess
\* resets the count just before it restores the status.
UnhealthyEarned ==
  \A p \in Providers :
    healthStatus[p] = "Unhealthy"
    => failures[p] > HCThreshold \/ pc[p] \in {"setHealthy", "panicked"}

\* When a round is over every provider that reported a height has it in front
\* of its history, so the next round judges it by its latest report
\* (network.go:143, 189-209).
HistoryHeadFresh ==
  RoundOver => \A p \in Providers :
                 Reported(p) => /\ CheckedProviders[p] # <<>>
                                /\ CheckedProviders[p][1] = providerBlockNumber(p)

\* A round sends one latest-block metric per provider, on every path through
\* the goroutine (network.go:101, 117, 140).
OneMetricPerCheck == RoundOver => metrics = Cardinality(Providers)
----------------------------------------------------------------------------
(* The inductive invariant: what each of the above needs to be preserved   *)
(* by every step.  NetworkProofs proves it.                                *)

PostUnanswered == \A p \in Providers : pc[p] = "post" => answer[p] = NoAnswer

\* Where a goroutine can be only after its provider reported a height.
Comparing == {"setHealthy", "newer", "equal", "lagging", "setLatest", "markLeader",
              "markHealthy", "markWarning", "rlock", "evaluate", "markLaggard", "append"}

ComparingReported == \A p \in Providers : pc[p] \in Comparing => Reported(p)

WaitingDone == RoundOver => \A p \in Providers : pc[p] = "done"

\* Only newer heights are on their way into LatestBlockNumber.
LatestBounds ==
  /\ startBlock <= LatestBlockNumber
  /\ \A p \in Providers :
       pc[p] = "setLatest" => startBlock = 0 \/ providerBlockNumber(p) > startBlock

\* A newer report has been taken into account, or is still to be.
NewerTracked ==
  startBlock > 0 =>
    \A p \in Providers :
      (Reported(p) /\ providerBlockNumber(p) > startBlock)
      => \/ pc[p] \in {"setHealthy", "newer", "setLatest", "panicked"}
         \/ LatestBlockNumber > startBlock

\* A lagging report has led to a Warning, or is on its way there.
LaggardTracked ==
  \A p \in Providers :
    (Reported(p) /\ providerBlockNumber(p) + BlockLagLimit < startBlock)
    => \/ pc[p] \in {"setHealthy", "newer", "equal", "lagging", "markWarning", "panicked"}
       \/ pc[p] \in {"metric", "append", "done"} /\ healthStatus[p] = "Warning"

\* The test of markPingFailure still holds when its write is done.
SetUnhealthyEarned ==
  \A p \in Providers : pc[p] = "setUnhealthy" => failures[p] > HCThreshold

\* The inductive invariant as a whole, of which the safety properties above that
\* are proved for every value of the constants are consequences.
IInv == /\ TypeOK
        /\ PostUnanswered
        /\ ComparingReported
        /\ WaitingDone
        /\ LatestBounds
        /\ LatestFromRound
        /\ NewerTracked
        /\ LaggardTracked
        /\ SetUnhealthyEarned
        /\ UnhealthyEarned
----------------------------------------------------------------------------
(* Action properties.                                                      *)

\* A provider becomes Healthy only by the goroutine that checks it and only in
\* a round in which it reported a height; its failed or rate limited check, or
\* the check of another provider, never promotes it.
OnlyOwnReportPromotes ==
  [][\A p \in Providers :
       (healthStatus[p] # "Healthy" /\ healthStatus'[p] = "Healthy")
       => Reported(p) /\ pc'[p] # pc[p]]_vars

\* Seen from one round's end to the next, the height behaves as ChainHead says.
SettledBlock == IF RoundOver THEN LatestBlockNumber ELSE startBlock

Chain == INSTANCE ChainHead WITH Blocks <- Blocks, head <- SettledBlock

HeadSpec == Chain!Spec
----------------------------------------------------------------------------
(* Liveness, under LiveSpec.                                               *)

Alive == round # "crashed"

\* Every round ends, if the process does not: no goroutine waits for another one
\* for ever, neither at n.mu nor at the wait group.
RoundsEnd == round \in {"first", "checking"} ~> round \in {"waiting", "crashed"}

\* The network has a height, and nobody reports one between it and that of p, or one
\* newer than that of p.
Leads(p) == /\ Reported(p)
            /\ startBlock > 0
            /\ providerBlockNumber(p) >= startBlock
            /\ \A q \in Providers \ {p} :
                 Reported(q) => \/ providerBlockNumber(q) <= startBlock
                                \/ providerBlockNumber(q) = providerBlockNumber(p)

\* The report of p is not more than BlockLagLimit ahead of the one before.
KeepsPace(p) == \/ CheckedProviders[p] = <<>>
                \/ CheckedProviders[p][1] + BlockLagLimit >= providerBlockNumber(p)

\* A provider that from some time on leads every round, on a chain that grows or not,
\* and never moves on by more than BlockLagLimit from one report to the next, is
\* Healthy for good in the end, whatever it did before and whatever the others report.
\* One that moves on by more is demoted for its own report of the round before, in
\* every round in which it moves the height (network.go:119-138, 178-183;
\* CurrentProviderSpared).
CaughtUpRecovers ==
  \A p \in Providers :
    <>[](/\ Alive
         /\ RoundOver => Leads(p)
         /\ pc[p] = "append" => KeepsPace(p))
    => <>[](healthStatus[p] = "Healthy")

\* A provider that from some time on answers no check with a height leaves the
\* Healthy providers for good in the end (for Unhealthy or Warning).
DeadDemoted ==
  \A p \in Providers :
    <>[](Alive /\ (pc[p] = "done" => ~Reported(p))) => <>[](healthStatus[p] # "Healthy")
----------------------------------------------------------------------------
(* What comments in the code say of it and the code does not do.           *)

\* network.go:173, 178: evaluateCheckedProviders demotes the checked providers
\* "if they are not the current provider".
CurrentProviderSpared ==
  \A p \in Providers : pc[p] = "markLaggard" => target[p] # p

\* provider.go:60-61: markPingFailure, "if the failure count exceeds the
\* healthcheck threshold marks the upstream as unhealthy".
FailuresMarkUnhealthy ==
  RoundOver => \A p \in Providers :
                 (/\ answer[p] # NoAnswer
                  /\ Errs(answer[p]) \/ ErrorStatus(answer[p])
                  /\ failures[p] > HCThreshold)
                 => healthStatus[p] = "Unhealthy"
=============================================================================
