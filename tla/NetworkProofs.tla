--------------------------- MODULE NetworkProofs ---------------------------
(***************************************************************************)
(* Theorems about Network, for any number of providers, any answers, any   *)
(* threshold, lag limit and history limit.                                 *)
(***************************************************************************)
EXTENDS Network, SequenceTheorems, FiniteSetTheorems, TLAPS

USE DEF TransportError

----------------------------------------------------------------------------
(* Lemmas about the operators of the model.                                *)

\* An answer that counts as a success carries a height.
LEMMA SuccessHasHeight ==
  ASSUME NEW r \in Responses, Succeeds(r)
  PROVE  r.body \in Nat
BY NetworkAssumption DEF Succeeds, Errs, Response

\* A capped counter stays within its bound.
LEMMA CountBounded ==
  ASSUME NEW n \in 0..HCThreshold + 1
  PROVE  Count(n) \in 0..HCThreshold + 1
BY NetworkAssumption DEF Count

\* Capping loses nothing the code looks at: counting up a capped counter caps the
\* count, and the comparison with the threshold is that of the counter itself
\* (provider.go:63-65, 79-80).
LEMMA CountFaithful ==
  ASSUME NEW n \in Nat
  PROVE  LET capped(i) == IF i > HCThreshold THEN HCThreshold + 1 ELSE i
         IN /\ Count(capped(n)) = capped(n + 1)
            /\ capped(n) > HCThreshold <=> n > HCThreshold
BY NetworkAssumption DEF Count

\* A history with one more entry is a history.
LEMMA NewestIsHistory ==
  ASSUME NEW b \in Nat, NEW list \in Seq(Nat), Len(list) <= HistoryLimit
  PROVE  /\ Newest(b, list) \in Seq(Nat)
         /\ Len(Newest(b, list)) <= HistoryLimit
         /\ Newest(b, list) # <<>>
         /\ Newest(b, list)[1] = b
<1>. DEFINE kept == IF Len(list) = HistoryLimit THEN SubSeq(list, 1, HistoryLimit - 1) ELSE list
<1>1. kept \in Seq(Nat) /\ Len(kept) < HistoryLimit
  <2>1. CASE Len(list) = HistoryLimit
    BY <2>1, NetworkAssumption, SubSeqProperties
  <2>2. CASE Len(list) # HistoryLimit
    BY <2>2, NetworkAssumption, LenProperties
  <2>. QED BY <2>1, <2>2
<1>2. <<b>> \in Seq(Nat) /\ Len(<<b>>) = 1 /\ <<b>>[1] = b
  OBVIOUS
<1>3. /\ <<b>> \o kept \in Seq(Nat)
      /\ Len(<<b>> \o kept) = 1 + Len(kept)
      /\ (<<b>> \o kept)[1] = b
  BY <1>1, <1>2, ConcatProperties, LenProperties
<1>4. <<b>> \o kept # <<>>
  BY <1>1, <1>3, LenProperties, EmptySeq
<1>. QED BY <1>1, <1>3, <1>4, NetworkAssumption, LenProperties DEF Newest

\* What Reported says of an answer.
LEMMA ReportedHeight ==
  ASSUME TypeOK, NEW p \in Providers, Reported(p)
  PROVE  /\ answer[p] \in Responses
         /\ providerBlockNumber(p) \in Nat
         /\ providerBlockNumber(p) \in Blocks
<1>1. answer[p] \in Responses /\ Succeeds(answer[p])
  BY DEF TypeOK, Reported
<1>. QED BY <1>1, SuccessHasHeight DEF providerBlockNumber, Blocks
----------------------------------------------------------------------------
(* The type invariant.                                                     *)

LEMMA TypeInit ==
  ASSUME Init
  PROVE  TypeOK
<1>1. <<>> \in Seq(Nat) /\ Len(<<>>) = 0 /\ 0 <= HistoryLimit
  BY NetworkAssumption, EmptySeq
<1>2. 0 \in 0..HCThreshold + 1
  BY NetworkAssumption
<1>3. /\ CheckedProviders \in [Providers -> Seq(Nat)]
      /\ \A p \in Providers : Len(CheckedProviders[p]) <= HistoryLimit
  BY <1>1 DEF Init
<1>4. /\ failures \in [Providers -> 0..HCThreshold + 1]
      /\ successes \in [Providers -> 0..HCThreshold + 1]
  BY <1>2 DEF Init
<1>5. /\ pc \in [Providers -> PC]
      /\ healthStatus \in [Providers -> HealthStatus]
      /\ answer \in [Providers -> Responses \cup {NoAnswer}]
      /\ todo \in [Providers -> SUBSET Providers]
      /\ target \in [Providers -> Providers]
  BY DEF Init, PC, HealthStatus
<1>. QED BY <1>3, <1>4, <1>5 DEF Init, TypeOK

LEMMA TypeStep ==
  ASSUME TypeOK, ComparingReported, [Next]_vars
  PROVE  TypeOK'
<1>. USE DEF TypeOK
<1>1. CASE Tick
  BY <1>1 DEF Tick, rangeVars, healthVars, chainVars
<1>2. CASE StartRound
  BY <1>2 DEF StartRound, rangeVars, healthVars, chainVars, PC
<1>3. CASE EndRound
  BY <1>3 DEF EndRound, rangeVars, healthVars, chainVars
<1>4. ASSUME NEW p \in Providers, Post(p)
      PROVE  TypeOK'
  <2>. USE DEF roundVars, rangeVars, chainVars, PC, HealthStatus, Goto, Answered, SetStatus
  <2>1. CASE PingFailure(p)
    <3>1. Count(failures[p]) \in 0..HCThreshold + 1 /\ 0 \in 0..HCThreshold + 1
      BY CountBounded, NetworkAssumption
    <3>2. /\ failures' \in [Providers -> 0..HCThreshold + 1]
          /\ successes' \in [Providers -> 0..HCThreshold + 1]
      BY <2>1, <3>1 DEF PingFailure, markPingFailure
    <3>3. pc' \in [Providers -> PC]
      BY <2>1 DEF PingFailure, markPingFailure
    <3>4. answer' \in [Providers -> Responses \cup {NoAnswer}]
      BY <2>1 DEF PingFailure
    <3>. QED BY <2>1, <3>2, <3>3, <3>4 DEF PingFailure, markPingFailure
  <2>2. CASE PingWarning(p)
    BY <2>2, NetworkAssumption DEF PingWarning, markPingWarning
  <2>3. CASE PingSuccess(p)
    <3>1. Count(successes[p]) \in 0..HCThreshold + 1 /\ 0 \in 0..HCThreshold + 1
      BY CountBounded, NetworkAssumption
    <3>2. /\ failures' \in [Providers -> 0..HCThreshold + 1]
          /\ successes' \in [Providers -> 0..HCThreshold + 1]
      BY <2>3, <3>1 DEF PingSuccess, markPingSuccess
    <3>3. pc' \in [Providers -> PC]
      BY <2>3 DEF PingSuccess, markPingSuccess
    <3>4. answer' \in [Providers -> Responses \cup {NoAnswer}]
      BY <2>3 DEF PingSuccess
    <3>. QED BY <2>3, <3>2, <3>3, <3>4 DEF PingSuccess, markPingSuccess
  <2>4. CASE Panic(p)
    BY <2>4 DEF Panic, healthVars
  <2>. QED BY <1>4, <2>1, <2>2, <2>3, <2>4 DEF Post
<1>5. ASSUME NEW p \in Providers, Proceed(p)
      PROVE  TypeOK'
  <2>. USE DEF localVars, roundVars, rangeVars, healthVars, chainVars, PC, HealthStatus, Goto, SetStatus
  <2>1. CASE SetUnhealthy(p)
    BY <2>1 DEF SetUnhealthy
  <2>2. CASE SetHealthy(p)
    BY <2>2 DEF SetHealthy
  <2>3. CASE CompareNewer(p) \/ CompareEqual(p) \/ CompareLagging(p)
    BY <2>3 DEF CompareNewer, CompareEqual, CompareLagging
  <2>4. CASE SetLatest(p)
    <3>1. providerBlockNumber(p) \in Nat
      BY <2>4, ReportedHeight DEF SetLatest, ComparingReported, Comparing
    <3>. QED BY <2>4, <3>1 DEF SetLatest
  <2>5. CASE MarkHealthy(p) \/ MarkWarning(p)
    <3>1. pc' \in [Providers -> PC]
      BY <2>5 DEF MarkHealthy, MarkWarning
    <3>2. healthStatus' \in [Providers -> HealthStatus]
      BY <2>5 DEF MarkHealthy, MarkWarning
    <3>. QED BY <2>5, <3>1, <3>2 DEF MarkHealthy, MarkWarning
  <2>6. CASE RLock(p)
    BY <2>6 DEF RLock, Checked
  <2>7. CASE Evaluate(p)
    BY <2>7 DEF Evaluate
  <2>8. CASE MarkLaggard(p)
    BY <2>8 DEF MarkLaggard
  <2>9. CASE RUnlock(p)
    BY <2>9 DEF RUnlock
  <2>10. CASE sendLatestBlockMetric(p)
    BY <2>10 DEF sendLatestBlockMetric
  <2>11. CASE AddHealthCheck(p)
    <3>1. providerBlockNumber(p) \in Nat
      BY <2>11, ReportedHeight DEF AddHealthCheck, ComparingReported, Comparing
    <3>2. /\ Newest(providerBlockNumber(p), CheckedProviders[p]) \in Seq(Nat)
          /\ Len(Newest(providerBlockNumber(p), CheckedProviders[p])) <= HistoryLimit
      BY <3>1, NewestIsHistory
    <3>. QED BY <2>11, <3>2 DEF AddHealthCheck
  <2>. QED
    BY <1>5, <2>1, <2>2, <2>3, <2>4, <2>5, <2>6, <2>7, <2>8, <2>9, <2>10, <2>11 DEF Proceed
<1>6. CASE Dead \/ UNCHANGED vars
  BY <1>6 DEF Dead, vars, roundVars, rangeVars, healthVars, chainVars
<1>. QED BY <1>1, <1>2, <1>3, <1>4, <1>5, <1>6 DEF Next
----------------------------------------------------------------------------
(* What the two kinds of steps of a goroutine change.                      *)

\* An answer that counts as a success belongs to no other class.
LEMMA ClassesDisjoint ==
  ASSUME NEW r \in Responses, Succeeds(r)
  PROVE  ~Errs(r) /\ ~ErrorStatus(r) /\ ~RateLimited(r) /\ ~Panics(r)
<1>1. r.status \in Nat
  BY NetworkAssumption DEF Response
<1>. QED BY <1>1 DEF Succeeds, ErrorStatus, RateLimited, Panics

LEMMA PostFrame ==
  ASSUME TypeOK, NEW p \in Providers, Post(p)
  PROVE  /\ pc[p] = "post"
         /\ UNCHANGED <<startBlock, LatestBlockNumber, CheckedProviders>>
         /\ answer'[p] # NoAnswer
         /\ \A q \in Providers \ {p} : /\ answer'[q] = answer[q]
                                       /\ pc'[q] \in {pc[q], "panicked"}
                                       /\ failures'[q] = failures[q]
                                       /\ healthStatus'[q] = healthStatus[q]
         /\ pc'[p] \in {"setUnhealthy", "metric", "setHealthy", "newer", "panicked"}
         /\ Reported(p)' <=> pc'[p] \in {"setHealthy", "newer"}
         /\ \/ round' = round
            \/ round' = "crashed" /\ \A q \in Providers : pc'[q] = "panicked"
<1>. USE DEF roundVars, rangeVars, chainVars, Goto, Answered, SetStatus, TypeOK
<1>1. \A r \in Responses : r # NoAnswer
  BY NetworkAssumption
<1>2. CASE PingFailure(p)
  <2>1. PICK r \in Responses : (Errs(r) \/ ErrorStatus(r)) /\ Answered(p, r)
    BY <1>2 DEF PingFailure
  <2>2. answer'[p] = r /\ ~Succeeds(r)
    BY <2>1, ClassesDisjoint
  <2>. QED BY <1>1, <1>2, <2>1, <2>2 DEF PingFailure, markPingFailure, Reported
<1>3. CASE PingWarning(p)
  <2>1. PICK r \in Responses : RateLimited(r) /\ Answered(p, r)
    BY <1>3 DEF PingWarning
  <2>2. answer'[p] = r /\ ~Succeeds(r)
    BY <2>1, ClassesDisjoint
  <2>. QED BY <1>1, <1>3, <2>1, <2>2 DEF PingWarning, markPingWarning, Reported
<1>4. CASE PingSuccess(p)
  <2>1. PICK r \in Responses : Succeeds(r) /\ Answered(p, r)
    BY <1>4 DEF PingSuccess
  <2>2. answer'[p] = r
    BY <2>1
  <2>. QED BY <1>1, <1>4, <2>1, <2>2 DEF PingSuccess, markPingSuccess, Reported
<1>5. CASE Panic(p)
  <2>1. PICK r \in Responses : Panics(r) /\ Answered(p, r)
    BY <1>5 DEF Panic
  <2>2. answer'[p] = r /\ ~Succeeds(r)
    BY <2>1, ClassesDisjoint
  <2>. QED BY <1>1, <1>5, <2>1, <2>2 DEF Panic, healthVars, Reported
<1>. QED BY <1>2, <1>3, <1>4, <1>5 DEF Post

LEMMA ProceedFrame ==
  ASSUME TypeOK, NEW p \in Providers, Proceed(p)
  PROVE  /\ UNCHANGED <<round, tick, startBlock, answer>>
         /\ \A q \in Providers \ {p} : pc'[q] = pc[q]
         /\ pc[p] \in Comparing \cup {"setUnhealthy", "metric"}
         /\ pc'[p] \in (Comparing \cup {"metric", "done"}) \ {"setHealthy"}
         /\ pc'[p] \in Comparing => pc[p] \in Comparing \/ Reported(p)
<1>. USE DEF localVars, roundVars, rangeVars, Goto, TypeOK, Comparing
<1>1. CASE SetUnhealthy(p) \/ SetHealthy(p)
  BY <1>1 DEF SetUnhealthy, SetHealthy
<1>2. CASE CompareNewer(p) \/ CompareEqual(p) \/ CompareLagging(p)
  BY <1>2 DEF CompareNewer, CompareEqual, CompareLagging
<1>3. CASE SetLatest(p) \/ MarkHealthy(p) \/ MarkWarning(p)
  BY <1>3 DEF SetLatest, MarkHealthy, MarkWarning
<1>4. CASE RLock(p) \/ Evaluate(p) \/ MarkLaggard(p) \/ RUnlock(p)
  BY <1>4 DEF RLock, Evaluate, MarkLaggard, RUnlock
<1>5. CASE sendLatestBlockMetric(p) \/ AddHealthCheck(p)
  BY <1>5 DEF sendLatestBlockMetric, AddHealthCheck
<1>. QED BY <1>1, <1>2, <1>3, <1>4, <1>5 DEF Proceed
----------------------------------------------------------------------------
(* The other conjuncts of the inductive invariant, one lemma each.         *)

LEMMA InitIInv ==
  ASSUME Init
  PROVE  IInv
<1>1. TypeOK
  BY TypeInit
<1>2. \A p \in Providers : pc[p] = "post" /\ ~Reported(p)
  BY DEF Init, Reported
<1>. QED
  BY <1>1, <1>2
  DEF Init, IInv, PostUnanswered, ComparingReported, Comparing, WaitingDone, RoundOver,
      LatestBounds, LatestFromRound, NewerTracked, LaggardTracked, SetUnhealthyEarned,
      UnhealthyEarned

LEMMA ControlStep ==
  ASSUME IInv, [Next]_vars
  PROVE  PostUnanswered' /\ ComparingReported' /\ WaitingDone'
<1>. USE DEF IInv, PostUnanswered, ComparingReported, WaitingDone, RoundOver, TypeOK
<1>1. CASE Tick
  BY <1>1 DEF Tick, Reported
<1>2. CASE StartRound
  BY <1>2 DEF StartRound, Comparing
<1>3. CASE EndRound
  BY <1>3 DEF EndRound, Reported
<1>4. ASSUME NEW p \in Providers, Post(p)
      PROVE  PostUnanswered' /\ ComparingReported' /\ WaitingDone'
  <2>1. PostUnanswered'
    BY <1>4, PostFrame
  <2>2. ComparingReported'
    <3>. SUFFICES ASSUME NEW q \in Providers, pc'[q] \in Comparing
                  PROVE  Reported(q)'
      BY DEF ComparingReported
    <3>1. CASE q = p
      BY <1>4, <3>1, PostFrame DEF Comparing
    <3>2. CASE q # p
      <4>1. answer'[q] = answer[q] /\ pc'[q] \in {pc[q], "panicked"}
        BY <1>4, <3>2, PostFrame
      <4>2. pc[q] \in Comparing
        BY <4>1 DEF Comparing
      <4>. QED BY <4>1, <4>2 DEF Reported
    <3>. QED BY <3>1, <3>2
  <2>3. WaitingDone'
    BY <1>4, PostFrame
  <2>. QED BY <2>1, <2>2, <2>3
<1>5. ASSUME NEW p \in Providers, Proceed(p)
      PROVE  PostUnanswered' /\ ComparingReported' /\ WaitingDone'
  <2>1. PostUnanswered'
    BY <1>5, ProceedFrame DEF Comparing
  <2>2. ComparingReported'
    BY <1>5, ProceedFrame DEF Reported
  <2>3. WaitingDone'
    BY <1>5, ProceedFrame DEF Comparing
  <2>. QED BY <2>1, <2>2, <2>3
<1>6. CASE Dead \/ UNCHANGED vars
  BY <1>6 DEF Dead, vars, roundVars, Reported
<1>. QED BY <1>1, <1>2, <1>3, <1>4, <1>5, <1>6 DEF Next

\* Only SetLatest writes the height of the network.
LEMMA LatestWrites ==
  ASSUME TypeOK, NEW p \in Providers, Proceed(p)
  PROVE  \/ UNCHANGED LatestBlockNumber
         \/ /\ pc[p] = "setLatest" /\ pc'[p] = "markLeader"
            /\ LatestBlockNumber' = providerBlockNumber(p)
<1>. USE DEF Goto, localVars, chainVars, TypeOK
<1>1. CASE SetLatest(p)
  BY <1>1 DEF SetLatest
<1>2. CASE ~SetLatest(p)
  BY <1>2 DEF Proceed, SetUnhealthy, SetHealthy, CompareNewer, CompareEqual, CompareLagging,
              MarkHealthy, MarkWarning, RLock, Evaluate, MarkLaggard, RUnlock,
              sendLatestBlockMetric, AddHealthCheck
<1>. QED BY <1>1, <1>2

\* A goroutine is about to write a height it has found to be newer.
LEMMA SetLatestFromNewer ==
  ASSUME TypeOK, NEW p \in Providers, Proceed(p), pc'[p] = "setLatest"
  PROVE  /\ pc[p] = "newer"
         /\ LatestBlockNumber = 0 \/ LatestBlockNumber < providerBlockNumber(p)
BY DEF Proceed, Goto, TypeOK, SetUnhealthy, SetHealthy, CompareNewer, CompareEqual,
       CompareLagging, SetLatest, MarkHealthy, MarkWarning, RLock, Evaluate, MarkLaggard,
       RUnlock, sendLatestBlockMetric, AddHealthCheck

LEMMA LatestStep ==
  ASSUME IInv, [Next]_vars
  PROVE  LatestBounds' /\ LatestFromRound'
<1>. USE DEF IInv, LatestBounds, LatestFromRound, TypeOK
<1>1. CASE Tick
  BY <1>1 DEF Tick, Reported, chainVars, providerBlockNumber
<1>2. CASE StartRound
  BY <1>2 DEF StartRound, chainVars
<1>3. CASE EndRound
  BY <1>3 DEF EndRound, Reported, chainVars, providerBlockNumber
<1>4. ASSUME NEW p \in Providers, Post(p)
      PROVE  LatestBounds' /\ LatestFromRound'
  <2>1. ~Reported(p)
    BY <1>4, PostFrame DEF PostUnanswered, Reported
  <2>2. \A q \in Providers : q # p => /\ Reported(q) <=> Reported(q)'
                                      /\ providerBlockNumber(q)' = providerBlockNumber(q)
    BY <1>4, PostFrame DEF Reported, providerBlockNumber
  <2>3. LatestBounds'
    <3>1. \A q \in Providers : pc'[q] = "setLatest" => pc[q] = "setLatest" /\ q # p
      BY <1>4, PostFrame
    <3>. QED BY <1>4, <2>2, <3>1, PostFrame
  <2>4. LatestFromRound'
    <3>1. UNCHANGED <<startBlock, LatestBlockNumber>>
      BY <1>4, PostFrame
    <3>. QED BY <2>1, <2>2, <3>1
  <2>. QED BY <2>3, <2>4
<1>5. ASSUME NEW p \in Providers, Proceed(p)
      PROVE  LatestBounds' /\ LatestFromRound'
  <2>1. \A q \in Providers : /\ Reported(q)' <=> Reported(q)
                             /\ providerBlockNumber(q)' = providerBlockNumber(q)
    BY <1>5, ProceedFrame DEF Reported, providerBlockNumber
  <2>2. CASE pc[p] = "setLatest"
    <3>1. Reported(p) /\ providerBlockNumber(p) \in Nat
      BY <2>2, ReportedHeight DEF ComparingReported, Comparing
    <3>2. startBlock = 0 \/ providerBlockNumber(p) > startBlock
      BY <2>2
    <3>3. pc'[p] # "setLatest"
      BY <1>5, <2>2, SetLatestFromNewer
    <3>. QED BY <1>5, <2>1, <2>2, <3>1, <3>2, <3>3, ProceedFrame, LatestWrites
  <2>3. CASE pc[p] # "setLatest"
    <3>1. UNCHANGED LatestBlockNumber
      BY <1>5, <2>3, LatestWrites
    <3>2. pc'[p] = "setLatest" => startBlock = 0 \/ providerBlockNumber(p) > startBlock
      <4>1. SUFFICES ASSUME pc'[p] = "setLatest"
                     PROVE  startBlock = 0 \/ providerBlockNumber(p) > startBlock
        OBVIOUS
      <4>2. /\ pc[p] = "newer"
            /\ LatestBlockNumber = 0 \/ LatestBlockNumber < providerBlockNumber(p)
        BY <1>5, <4>1, SetLatestFromNewer
      <4>3. providerBlockNumber(p) \in Nat
        BY <4>2, ReportedHeight DEF ComparingReported, Comparing
      <4>. QED BY <4>2, <4>3
    <3>. QED BY <1>5, <2>1, <3>1, <3>2, ProceedFrame
  <2>. QED BY <2>2, <2>3
<1>6. CASE Dead \/ UNCHANGED vars
  BY <1>6 DEF Dead, vars, roundVars, chainVars, Reported, providerBlockNumber
<1>. QED BY <1>1, <1>2, <1>3, <1>4, <1>5, <1>6 DEF Next

\* Where each step of the consistency check leads.
LEMMA ComparisonSteps ==
  ASSUME TypeOK, NEW p \in Providers, Proceed(p)
  PROVE  /\ pc[p] = "setHealthy" => pc'[p] = "newer" /\ healthStatus'[p] = "Healthy"
         /\ pc[p] = "newer"
              => pc'[p] = IF LatestBlockNumber = 0 \/ LatestBlockNumber < providerBlockNumber(p)
                          THEN "setLatest" ELSE "equal"
         /\ pc[p] = "equal"
              => pc'[p] = IF LatestBlockNumber = providerBlockNumber(p)
                          THEN "markHealthy" ELSE "lagging"
         /\ pc[p] = "lagging"
              => pc'[p] = IF providerBlockNumber(p) + BlockLagLimit < LatestBlockNumber
                          THEN "markWarning" ELSE "metric"
         /\ pc[p] = "markWarning" => pc'[p] = "metric" /\ healthStatus'[p] = "Warning"
         /\ pc[p] \in {"metric", "append"}
              => pc'[p] \in {"append", "done"} /\ UNCHANGED healthStatus
<1>. USE DEF Goto, SetStatus, TypeOK, healthVars
<1>1. CASE SetUnhealthy(p) \/ SetHealthy(p)
  BY <1>1 DEF SetUnhealthy, SetHealthy
<1>2. CASE CompareNewer(p) \/ CompareEqual(p) \/ CompareLagging(p)
  BY <1>2 DEF CompareNewer, CompareEqual, CompareLagging
<1>3. CASE SetLatest(p) \/ MarkHealthy(p) \/ MarkWarning(p)
  BY <1>3 DEF SetLatest, MarkHealthy, MarkWarning
<1>4. CASE RLock(p) \/ Evaluate(p) \/ MarkLaggard(p) \/ RUnlock(p)
  BY <1>4 DEF RLock, Evaluate, MarkLaggard, RUnlock
<1>5. CASE sendLatestBlockMetric(p) \/ AddHealthCheck(p)
  BY <1>5 DEF sendLatestBlockMetric, AddHealthCheck
<1>. QED BY <1>1, <1>2, <1>3, <1>4, <1>5 DEF Proceed

\* What a goroutine that has its answer does to the health states.
LEMMA HealthWrites ==
  ASSUME TypeOK, NEW p \in Providers, Proceed(p)
  PROVE  /\ UNCHANGED failures
         /\ \A q \in Providers \ {p} : healthStatus'[q] \in {healthStatus[q], "Warning"}
         /\ \/ healthStatus'[p] = healthStatus[p]
            \/ healthStatus'[p] = "Unhealthy" /\ pc[p] = "setUnhealthy"
            \/ healthStatus'[p] = "Warning"
            \/ /\ healthStatus'[p] = "Healthy"
               /\ pc[p] \in {"setHealthy", "markLeader", "markHealthy"}
               /\ pc'[p] # pc[p]
<1>. USE DEF Goto, SetStatus, TypeOK, healthVars
<1>1. CASE SetUnhealthy(p) \/ SetHealthy(p)
  BY <1>1 DEF SetUnhealthy, SetHealthy
<1>2. CASE CompareNewer(p) \/ CompareEqual(p) \/ CompareLagging(p)
  BY <1>2 DEF CompareNewer, CompareEqual, CompareLagging
<1>3. CASE SetLatest(p) \/ MarkHealthy(p) \/ MarkWarning(p)
  BY <1>3 DEF SetLatest, MarkHealthy, MarkWarning
<1>4. CASE RLock(p) \/ Evaluate(p) \/ MarkLaggard(p) \/ RUnlock(p)
  BY <1>4 DEF RLock, Evaluate, MarkLaggard, RUnlock
<1>5. CASE sendLatestBlockMetric(p) \/ AddHealthCheck(p)
  BY <1>5 DEF sendLatestBlockMetric, AddHealthCheck
<1>. QED BY <1>1, <1>2, <1>3, <1>4, <1>5 DEF Proceed

LEMMA NewerStep ==
  ASSUME IInv, [Next]_vars
  PROVE  NewerTracked'
<1>. USE DEF IInv, NewerTracked, TypeOK
<1>1. CASE Tick
  BY <1>1 DEF Tick, Reported, chainVars, providerBlockNumber
<1>2. CASE StartRound
  BY <1>2 DEF StartRound, Reported
<1>3. CASE EndRound
  BY <1>3 DEF EndRound, Reported, chainVars, providerBlockNumber
<1>4. ASSUME NEW p \in Providers, Post(p)
      PROVE  NewerTracked'
  <2>1. \A q \in Providers : q # p => /\ Reported(q) <=> Reported(q)'
                                      /\ providerBlockNumber(q)' = providerBlockNumber(q)
    BY <1>4, PostFrame DEF Reported, providerBlockNumber
  <2>. QED BY <1>4, <2>1, PostFrame
<1>5. ASSUME NEW p \in Providers, Proceed(p)
      PROVE  NewerTracked'
  <2>1. \A q \in Providers : /\ Reported(q)' <=> Reported(q)
                             /\ providerBlockNumber(q)' = providerBlockNumber(q)
    BY <1>5, ProceedFrame DEF Reported, providerBlockNumber
  <2>. SUFFICES ASSUME startBlock > 0,
                       NEW q \in Providers,
                       Reported(q), providerBlockNumber(q) > startBlock
                PROVE  \/ pc'[q] \in {"setHealthy", "newer", "setLatest", "panicked"}
                       \/ LatestBlockNumber' > startBlock
    BY <1>5, <2>1, ProceedFrame
  <2>2. startBlock \in Nat /\ LatestBlockNumber \in Nat /\ providerBlockNumber(q) \in Nat
    BY ReportedHeight
  <2>3. CASE LatestBlockNumber > startBlock
    <3>1. pc[p] = "setLatest" => providerBlockNumber(p) > startBlock
      BY <2>2 DEF LatestBounds
    <3>2. \/ UNCHANGED LatestBlockNumber
          \/ pc[p] = "setLatest" /\ LatestBlockNumber' = providerBlockNumber(p)
      BY <1>5, LatestWrites
    <3>. QED BY <2>3, <3>1, <3>2
  <2>4. CASE pc[q] \in {"setHealthy", "newer", "setLatest", "panicked"} /\ q # p
    BY <1>5, <2>4, ProceedFrame
  <2>5. CASE pc[q] \in {"setHealthy", "newer"} /\ q = p
    <3>1. UNCHANGED LatestBlockNumber
      BY <1>5, <2>5, LatestWrites
    <3>. QED BY <1>5, <2>2, <2>5, <3>1, ComparisonSteps
  <2>6. CASE pc[q] = "setLatest" /\ q = p
    <3>1. LatestBlockNumber' = providerBlockNumber(p)
      BY <1>5, <2>6 DEF Proceed, Goto, SetUnhealthy, SetHealthy, CompareNewer, CompareEqual,
         CompareLagging, SetLatest, MarkHealthy, MarkWarning, RLock, Evaluate, MarkLaggard,
         RUnlock, sendLatestBlockMetric, AddHealthCheck
    <3>. QED BY <2>6, <3>1
  <2>7. pc[p] # "panicked"
    BY <1>5, ProceedFrame DEF Comparing
  <2>. QED BY <2>3, <2>4, <2>5, <2>6, <2>7
<1>6. CASE Dead \/ UNCHANGED vars
  BY <1>6 DEF Dead, vars, roundVars, chainVars, Reported, providerBlockNumber
<1>. QED BY <1>1, <1>2, <1>3, <1>4, <1>5, <1>6 DEF Next

LEMMA LaggardStep ==
  ASSUME IInv, [Next]_vars
  PROVE  LaggardTracked'
<1>. USE DEF IInv, LaggardTracked, TypeOK
<1>1. CASE Tick
  BY <1>1 DEF Tick, Reported, healthVars, providerBlockNumber
<1>2. CASE StartRound
  BY <1>2 DEF StartRound, Reported
<1>3. CASE EndRound
  BY <1>3 DEF EndRound, Reported, healthVars, providerBlockNumber
<1>4. ASSUME NEW p \in Providers, Post(p)
      PROVE  LaggardTracked'
  <2>1. \A q \in Providers : q # p => /\ Reported(q) <=> Reported(q)'
                                      /\ providerBlockNumber(q)' = providerBlockNumber(q)
    BY <1>4, PostFrame DEF Reported, providerBlockNumber
  <2>. QED BY <1>4, <2>1, PostFrame
<1>5. ASSUME NEW p \in Providers, Proceed(p)
      PROVE  LaggardTracked'
  <2>1. \A q \in Providers : /\ Reported(q)' <=> Reported(q)
                             /\ providerBlockNumber(q)' = providerBlockNumber(q)
    BY <1>5, ProceedFrame DEF Reported, providerBlockNumber
  <2>. SUFFICES ASSUME NEW q \in Providers,
                       Reported(q), providerBlockNumber(q) + BlockLagLimit < startBlock
                PROVE  \/ pc'[q] \in {"setHealthy", "newer", "equal", "lagging",
                                      "markWarning", "panicked"}
                       \/ /\ pc'[q] \in {"metric", "append", "done"}
                          /\ healthStatus'[q] = "Warning"
    BY <1>5, <2>1, ProceedFrame
  <2>2. /\ startBlock \in Nat /\ LatestBlockNumber \in Nat
        /\ providerBlockNumber(q) \in Nat /\ BlockLagLimit \in Nat
    BY ReportedHeight, NetworkAssumption
  <2>3. /\ LatestBlockNumber # 0
        /\ providerBlockNumber(q) < LatestBlockNumber
        /\ providerBlockNumber(q) + BlockLagLimit < LatestBlockNumber
    BY <2>2 DEF LatestBounds
  <2>4. CASE q # p
    BY <1>5, <2>4, ProceedFrame, HealthWrites
  <2>5. CASE q = p
    <3>1. \/ pc[p] \in {"setHealthy", "newer", "equal", "lagging", "markWarning"}
          \/ pc[p] \in {"metric", "append"} /\ healthStatus[p] = "Warning"
      BY <1>5, <2>5, ProceedFrame DEF Comparing
    <3>2. ~(LatestBlockNumber < providerBlockNumber(p)) /\ LatestBlockNumber # providerBlockNumber(p)
      BY <2>2, <2>3, <2>5
    <3>. QED BY <1>5, <2>3, <2>5, <3>1, <3>2, ComparisonSteps
  <2>. QED BY <2>4, <2>5
<1>6. CASE Dead \/ UNCHANGED vars
  BY <1>6 DEF Dead, vars, roundVars, healthVars, Reported, providerBlockNumber
<1>. QED BY <1>1, <1>2, <1>3, <1>4, <1>5, <1>6 DEF Next

LEMMA UnhealthyStep ==
  ASSUME IInv, [Next]_vars
  PROVE  UnhealthyEarned' /\ SetUnhealthyEarned'
<1>. USE DEF IInv, UnhealthyEarned, SetUnhealthyEarned, TypeOK
<1>1. CASE Tick
  BY <1>1 DEF Tick, healthVars
<1>2. CASE StartRound
  BY <1>2 DEF StartRound, healthVars, WaitingDone, RoundOver
<1>3. CASE EndRound
  BY <1>3 DEF EndRound, healthVars
<1>4. ASSUME NEW p \in Providers, Post(p)
      PROVE  UnhealthyEarned' /\ SetUnhealthyEarned'
  <2>1. \A q \in Providers \ {p} :
          /\ healthStatus'[q] = healthStatus[q]
          /\ failures'[q] = failures[q]
          /\ pc'[q] \in {pc[q], "panicked"}
    BY <1>4, PostFrame
  <2>2. /\ healthStatus'[p] = "Unhealthy"
             => failures'[p] > HCThreshold \/ pc'[p] \in {"setHealthy", "panicked"}
        /\ pc'[p] = "setUnhealthy" => failures'[p] > HCThreshold
    <3>. USE DEF Goto, SetStatus
    <3>1. pc[p] = "post"
      BY <1>4, PostFrame
    <3>2. CASE PingFailure(p)
      <4>1. Count(failures[p]) = IF failures[p] > HCThreshold THEN failures[p] ELSE failures[p] + 1
        BY DEF Count
      <4>2. /\ failures'[p] = Count(failures[p])
            /\ healthStatus' = healthStatus
            /\ pc'[p] = "setUnhealthy" => failures'[p] > HCThreshold
        BY <3>2 DEF PingFailure, markPingFailure
      <4>. QED BY <3>1, <4>1, <4>2
    <3>3. CASE PingWarning(p)
      BY <3>3 DEF PingWarning, markPingWarning
    <3>4. CASE PingSuccess(p)
      BY <3>1, <3>4 DEF PingSuccess, markPingSuccess
    <3>5. CASE Panic(p)
      BY <3>5 DEF Panic
    <3>. QED BY <1>4, <3>2, <3>3, <3>4, <3>5 DEF Post
  <2>. QED BY <2>1, <2>2
<1>5. ASSUME NEW p \in Providers, Proceed(p)
      PROVE  UnhealthyEarned' /\ SetUnhealthyEarned'
  <2>1. SetUnhealthyEarned'
    BY <1>5, ProceedFrame, HealthWrites DEF Comparing
  <2>2. UnhealthyEarned'
    <3>1. \A q \in Providers \ {p} :
            healthStatus'[q] = "Unhealthy"
            => failures'[q] > HCThreshold \/ pc'[q] \in {"setHealthy", "panicked"}
      BY <1>5, ProceedFrame, HealthWrites
    <3>2. healthStatus'[p] = "Unhealthy" => failures'[p] > HCThreshold
      <4>1. /\ failures' = failures
            /\ pc[p] = "setHealthy" => healthStatus'[p] = "Healthy"
            /\ pc[p] # "panicked"
        BY <1>5, ProceedFrame, HealthWrites, ComparisonSteps DEF Comparing
      <4>2. CASE healthStatus'[p] = healthStatus[p]
        BY <4>1, <4>2
      <4>3. CASE pc[p] = "setUnhealthy"
        BY <4>1, <4>3
      <4>. QED BY <1>5, <4>2, <4>3, HealthWrites
    <3>. QED BY <3>1, <3>2
  <2>. QED BY <2>1, <2>2
<1>6. CASE Dead \/ UNCHANGED vars
  BY <1>6 DEF Dead, vars, healthVars
<1>. QED BY <1>1, <1>2, <1>3, <1>4, <1>5, <1>6 DEF Next
----------------------------------------------------------------------------
(* The theorems.                                                           *)

\* The inductive invariant holds in every reachable state.
THEOREM Inductive == Spec => []IInv
<1>1. Init => IInv
  BY InitIInv
<1>2. IInv /\ [Next]_vars => IInv'
  <2>. SUFFICES ASSUME IInv, [Next]_vars
                PROVE  IInv'
    OBVIOUS
  <2>1. TypeOK'
    BY TypeStep DEF IInv
  <2>. QED BY <2>1, ControlStep, LatestStep, NewerStep, LaggardStep, UnhealthyStep DEF IInv
<1>. QED BY <1>1, <1>2, PTL DEF Spec

\* Every variable keeps its type, and no history outgrows HistoryLimit
\* (network.go:187-209).
THEOREM TypeCorrect == Spec => []TypeOK
<1>1. IInv => TypeOK
  BY DEF IInv
<1>. QED BY <1>1, Inductive, PTL

\* The unlocked writes of LatestBlockNumber lose at most a report of the same
\* round (network.go:124-127).
THEOREM LatestFromRoundHolds == Spec => []LatestFromRound
<1>1. IInv => LatestFromRound
  BY DEF IInv
<1>. QED BY <1>1, Inductive, PTL

\* A round in which somebody is ahead of the network moves the network ahead,
\* whichever of the racing writes comes last (network.go:124-127).
THEOREM LatestAdvancesHolds == Spec => []LatestAdvances
<1>1. IInv => LatestAdvances
  BY DEF IInv, LatestAdvances, NewerTracked, WaitingDone
<1>. QED BY <1>1, Inductive, PTL

\* No interleaving of the goroutines of a round spares a provider that lags
\* behind what the network knew before it (network.go:133-136).
THEOREM LaggingDemotedHolds == Spec => []LaggingDemoted
<1>1. IInv => LaggingDemoted
  BY DEF IInv, LaggingDemoted, LaggardTracked, WaitingDone
<1>. QED BY <1>1, Inductive, PTL

\* Unhealthy takes more than HCThreshold failures, although the status is tested
\* and written in two steps (provider.go:62-84).
THEOREM UnhealthyEarnedHolds == Spec => []UnhealthyEarned
<1>1. IInv => UnhealthyEarned
  BY DEF IInv
<1>. QED BY <1>1, Inductive, PTL

\* A provider is promoted by its own successful check only (network.go:119-132,
\* provider.go:78-88).
THEOREM OnlyOwnReportPromotesHolds == Spec => OnlyOwnReportPromotes
<1>. DEFINE Promotion ==
       \A p \in Providers :
         (healthStatus[p] # "Healthy" /\ healthStatus'[p] = "Healthy")
         => Reported(p) /\ pc'[p] # pc[p]
<1>1. IInv /\ [Next]_vars => [Promotion]_vars
  <2>. SUFFICES ASSUME IInv, Next
                PROVE  Promotion
    BY DEF vars
  <2>. USE DEF IInv, TypeOK
  <2>1. CASE Tick \/ StartRound \/ EndRound
    BY <2>1 DEF Tick, StartRound, EndRound, healthVars
  <2>2. ASSUME NEW p \in Providers, Post(p)
        PROVE  Promotion
    <3>1. healthStatus'[p] # healthStatus[p] => healthStatus'[p] = "Warning"
      BY <2>2 DEF Post, PingFailure, PingWarning, PingSuccess, Panic, markPingFailure,
         markPingWarning, markPingSuccess, SetStatus, healthVars
    <3>. QED BY <2>2, <3>1, PostFrame
  <2>3. ASSUME NEW p \in Providers, Proceed(p)
        PROVE  Promotion
    <3>1. \A q \in Providers \ {p} : healthStatus'[q] \in {healthStatus[q], "Warning"}
      BY <2>3, HealthWrites
    <3>2. (healthStatus[p] # "Healthy" /\ healthStatus'[p] = "Healthy")
          => pc[p] \in Comparing /\ pc'[p] # pc[p]
      BY <2>3, HealthWrites DEF Comparing
    <3>. QED BY <3>1, <3>2 DEF ComparingReported
  <2>4. CASE Dead
    BY <2>4 DEF Dead, vars, healthVars
  <2>. QED BY <2>1, <2>2, <2>3, <2>4 DEF Next
<1>. QED BY <1>1, Inductive, PTL DEF Spec, OnlyOwnReportPromotes
----------------------------------------------------------------------------
(* The histories.                                                          *)

\* Who is done has its report in front of its history.
DoneFresh ==
  \A p \in Providers :
    (pc[p] = "done" /\ Reported(p)) => /\ CheckedProviders[p] # <<>>
                                       /\ CheckedProviders[p][1] = providerBlockNumber(p)

LEMMA DoneFreshStep ==
  ASSUME IInv, DoneFresh, [Next]_vars
  PROVE  DoneFresh'
<1>. USE DEF IInv, TypeOK
<1>1. CASE Tick \/ EndRound
  BY <1>1 DEF Tick, EndRound, chainVars, DoneFresh, Reported, providerBlockNumber
<1>2. CASE StartRound
  BY <1>2 DEF StartRound, DoneFresh
<1>3. ASSUME NEW p \in Providers, Post(p)
      PROVE  DoneFresh'
  <2>. SUFFICES ASSUME NEW q \in Providers, pc'[q] = "done", Reported(q)'
                PROVE  /\ CheckedProviders'[q] # <<>>
                       /\ CheckedProviders'[q][1] = providerBlockNumber(q)'
    BY DEF DoneFresh
  <2>1. q # p
    BY <1>3, PostFrame
  <2>2. answer'[q] = answer[q] /\ pc[q] = "done" /\ CheckedProviders' = CheckedProviders
    BY <1>3, <2>1, PostFrame
  <2>. QED BY <2>2 DEF DoneFresh, Reported, providerBlockNumber
<1>4. ASSUME NEW p \in Providers, Proceed(p)
      PROVE  DoneFresh'
  <2>1. /\ answer' = answer
        /\ \A q \in Providers \ {p} : pc'[q] = pc[q]
    BY <1>4, ProceedFrame
  <2>2. CASE AddHealthCheck(p)
    <3>1. pc[p] = "append" /\ Reported(p)
      BY <2>2 DEF AddHealthCheck, Goto, ComparingReported, Comparing
    <3>2. /\ CheckedProviders'[p] = Newest(providerBlockNumber(p), CheckedProviders[p])
          /\ \A q \in Providers \ {p} : CheckedProviders'[q] = CheckedProviders[q]
      BY <2>2 DEF AddHealthCheck
    <3>3. CheckedProviders'[p] # <<>> /\ CheckedProviders'[p][1] = providerBlockNumber(p)
      BY <3>1, <3>2, ReportedHeight, NewestIsHistory
    <3>. QED BY <2>1, <3>2, <3>3 DEF DoneFresh, Reported, providerBlockNumber
  <2>3. CASE sendLatestBlockMetric(p)
    BY <2>1, <2>3 DEF sendLatestBlockMetric, Goto, chainVars, DoneFresh, Reported,
       providerBlockNumber
  <2>4. CASE ~AddHealthCheck(p) /\ ~sendLatestBlockMetric(p)
    <3>1. pc'[p] # "done" /\ CheckedProviders' = CheckedProviders
      BY <1>4, <2>4 DEF Proceed, localVars, chainVars, Goto, SetUnhealthy, SetHealthy,
         CompareNewer, CompareEqual, CompareLagging, SetLatest, MarkHealthy, MarkWarning,
         RLock, Evaluate, MarkLaggard, RUnlock
    <3>. QED BY <2>1, <3>1 DEF DoneFresh, Reported, providerBlockNumber
  <2>. QED BY <2>2, <2>3, <2>4
<1>5. CASE UNCHANGED vars
  BY <1>5 DEF vars, chainVars, DoneFresh, Reported, providerBlockNumber
<1>. QED BY <1>1, <1>2, <1>3, <1>4, <1>5 DEF Next, Dead

\* A round never ends before the reports it heard are in front of the histories,
\* whatever the limit (network.go:143, 189-209).
THEOREM HistoryHeadFreshHolds == Spec => []HistoryHeadFresh
<1>1. Init => DoneFresh
  BY DEF Init, DoneFresh
<1>2. IInv /\ DoneFresh => HistoryHeadFresh
  BY DEF IInv, DoneFresh, HistoryHeadFresh, WaitingDone
<1>. QED BY <1>1, <1>2, DoneFreshStep, Inductive, PTL DEF Spec
----------------------------------------------------------------------------
(* The metrics.                                                            *)

\* The goroutines that have sent their metric.
Sent == {p \in Providers : pc[p] \in {"append", "done"}}

MetricsCounted ==
  IF round = "crashed" THEN \A p \in Providers : pc[p] = "panicked"
                       ELSE metrics = Cardinality(Sent)

\* Sending the metric is what takes a goroutine among those that have sent it.
LEMMA SentGrows ==
  ASSUME TypeOK, NEW p \in Providers, Proceed(p)
  PROVE  \/ Sent' = Sent /\ metrics' = metrics
         \/ /\ sendLatestBlockMetric(p)
            /\ p \notin Sent /\ Sent' = Sent \cup {p} /\ metrics' = metrics + 1
<1>. USE DEF TypeOK, Sent, Goto, localVars
<1>1. CASE sendLatestBlockMetric(p)
  BY <1>1 DEF sendLatestBlockMetric
<1>2. CASE AddHealthCheck(p)
  BY <1>2 DEF AddHealthCheck
<1>3. CASE SetUnhealthy(p) \/ SetHealthy(p)
  BY <1>3 DEF SetUnhealthy, SetHealthy
<1>4. CASE CompareNewer(p) \/ CompareEqual(p) \/ CompareLagging(p)
  BY <1>4 DEF CompareNewer, CompareEqual, CompareLagging
<1>5. CASE SetLatest(p) \/ MarkHealthy(p) \/ MarkWarning(p)
  BY <1>5 DEF SetLatest, MarkHealthy, MarkWarning
<1>6. CASE RLock(p) \/ Evaluate(p) \/ MarkLaggard(p) \/ RUnlock(p)
  BY <1>6 DEF RLock, Evaluate, MarkLaggard, RUnlock
<1>. QED BY <1>1, <1>2, <1>3, <1>4, <1>5, <1>6 DEF Proceed

LEMMA MetricsStep ==
  ASSUME IInv, MetricsCounted, [Next]_vars
  PROVE  MetricsCounted'
<1>. USE DEF IInv
<1>1. IsFiniteSet(Sent)
  BY NetworkAssumption, FS_Subset DEF Sent
<1>2. CASE Tick
  BY <1>2 DEF Tick, MetricsCounted, Sent
<1>3. CASE StartRound
  <2>1. Sent' = {} /\ metrics' = 0 /\ round' = "checking"
    BY <1>3 DEF StartRound, Sent
  <2>. QED BY <2>1, FS_EmptySet DEF MetricsCounted
<1>4. CASE EndRound
  <2>1. \E p \in Providers : pc[p] # "panicked"
    BY <1>4, NetworkAssumption DEF EndRound
  <2>. QED BY <1>4, <2>1 DEF EndRound, MetricsCounted, Sent
<1>5. ASSUME NEW p \in Providers, Post(p)
      PROVE  MetricsCounted'
  <2>1. CASE Panic(p)
    BY <2>1 DEF Panic, MetricsCounted
  <2>2. CASE ~Panic(p)
    <3>1. pc[p] = "post" /\ UNCHANGED <<round, metrics>>
      BY <1>5, <2>2, PostFrame
      DEF Post, PingFailure, PingWarning, PingSuccess, roundVars
    <3>2. /\ pc' = [pc EXCEPT ![p] = pc'[p]]
          /\ pc'[p] \in {"setUnhealthy", "metric", "setHealthy", "newer"}
      BY <1>5, <2>2 DEF Post, PingFailure, PingWarning, PingSuccess, markPingFailure,
         markPingSuccess, Goto, TypeOK
    <3>3. Sent' = Sent
      BY <3>1, <3>2 DEF Sent, TypeOK
    <3>. QED BY <3>1, <3>3 DEF MetricsCounted
  <2>. QED BY <2>1, <2>2
<1>6. ASSUME NEW p \in Providers, Proceed(p)
      PROVE  MetricsCounted'
  <2>1. round' = round /\ pc[p] # "panicked"
    BY <1>6, ProceedFrame DEF Comparing
  <2>2. metrics = Cardinality(Sent) /\ round # "crashed"
    BY <2>1 DEF MetricsCounted
  <2>3. Cardinality(Sent') = Cardinality(Sent) + metrics' - metrics
    <3>1. CASE Sent' = Sent /\ metrics' = metrics
      BY <1>1, <2>2, <3>1, FS_CardinalityType
    <3>2. CASE p \notin Sent /\ Sent' = Sent \cup {p} /\ metrics' = metrics + 1
      <4>1. Cardinality(Sent \cup {p}) = Cardinality(Sent) + 1
        BY <1>1, <3>2, FS_AddElement
      <4>. QED BY <1>1, <2>2, <3>2, <4>1, FS_CardinalityType
    <3>. QED BY <1>6, <3>1, <3>2, SentGrows
  <2>4. metrics \in Nat /\ metrics' \in {metrics, metrics + 1}
    <3>1. metrics' \in {metrics, metrics + 1}
      BY <1>6, SentGrows
    <3>. QED BY <3>1 DEF TypeOK
  <2>. QED BY <2>1, <2>2, <2>3, <2>4 DEF MetricsCounted
<1>7. CASE Dead \/ UNCHANGED vars
  BY <1>7 DEF Dead, vars, roundVars, MetricsCounted, Sent
<1>. QED BY <1>2, <1>3, <1>4, <1>5, <1>6, <1>7 DEF Next

\* Every path through a goroutine sends one metric, also those that end early
\* (network.go:101, 117, 140).
THEOREM OneMetricPerCheckHolds == Spec => []OneMetricPerCheck
<1>1. Init => MetricsCounted
  BY FS_EmptySet DEF Init, MetricsCounted, Sent
<1>2. IInv /\ MetricsCounted => OneMetricPerCheck
  <2>. SUFFICES ASSUME IInv, MetricsCounted, RoundOver
                PROVE  metrics = Cardinality(Providers)
    BY DEF OneMetricPerCheck
  <2>1. Sent = Providers
    BY DEF IInv, WaitingDone, Sent
  <2>. QED BY <2>1 DEF MetricsCounted, RoundOver
<1>. QED BY <1>1, <1>2, MetricsStep, Inductive, PTL DEF Spec
----------------------------------------------------------------------------
(* The refinement.                                                         *)

\* While a round is over, LatestBlockNumber does not change; while one runs,
\* startBlock does not.
LEMMA SettledBlockStep ==
  ASSUME IInv, Next, ~EndRound
  PROVE  SettledBlock' = SettledBlock
<1>. USE DEF SettledBlock, RoundOver
<1>1. CASE Tick
  BY <1>1 DEF Tick, chainVars
<1>2. CASE StartRound
  BY <1>2 DEF StartRound, chainVars
<1>3. ASSUME NEW p \in Providers, Post(p)
      PROVE  SettledBlock' = SettledBlock
  <2>1. round # "waiting"
    BY <1>3, PostFrame DEF IInv, WaitingDone
  <2>. QED BY <1>3, <2>1, PostFrame DEF IInv
<1>4. ASSUME NEW p \in Providers, Proceed(p)
      PROVE  SettledBlock' = SettledBlock
  <2>1. pc[p] # "done" /\ UNCHANGED <<round, startBlock>>
    BY <1>4, ProceedFrame DEF IInv, Comparing
  <2>. QED BY <2>1 DEF IInv, WaitingDone
<1>5. CASE Dead
  BY <1>5 DEF Dead, vars, roundVars, chainVars
<1>. QED BY <1>1, <1>2, <1>3, <1>4, <1>5 DEF Next

\* A round that ends has advanced the height, to one that was reported, or left
\* it as it was.
LEMMA EndRoundAdvances ==
  ASSUME IInv, EndRound
  PROVE  [Chain!Advance]_SettledBlock
<1>1. SettledBlock = startBlock /\ SettledBlock' = LatestBlockNumber
  BY DEF EndRound, SettledBlock, RoundOver, chainVars
<1>2. CASE LatestBlockNumber = startBlock
  BY <1>1, <1>2
<1>3. CASE LatestBlockNumber # startBlock
  <2>1. PICK p \in Providers : Reported(p) /\ LatestBlockNumber = providerBlockNumber(p)
    BY <1>3 DEF IInv, LatestFromRound
  <2>2. LatestBlockNumber \in Blocks
    BY <2>1, ReportedHeight DEF IInv
  <2>3. LatestBlockNumber > startBlock
    BY <1>3 DEF IInv, LatestBounds, TypeOK
  <2>. QED BY <1>1, <2>2, <2>3 DEF Chain!Advance
<1>. QED BY <1>2, <1>3

\* Between the rounds the height of the network only moves up, as ChainHead says.
THEOREM ImplementsChainHead == Spec => HeadSpec
<1>1. Init => Chain!Init
  BY DEF Init, Chain!Init, SettledBlock, RoundOver
<1>2. IInv /\ [Next]_vars => [Chain!Advance]_SettledBlock
  <2>. SUFFICES ASSUME IInv, [Next]_vars
                PROVE  [Chain!Advance]_SettledBlock
    OBVIOUS
  <2>1. CASE Next /\ EndRound
    BY <2>1, EndRoundAdvances
  <2>2. CASE Next /\ ~EndRound
    BY <2>2, SettledBlockStep
  <2>3. CASE UNCHANGED vars
    BY <2>3 DEF vars, roundVars, chainVars, SettledBlock, RoundOver
  <2>. QED BY <2>1, <2>2, <2>3
<1>. QED BY <1>1, <1>2, Inductive, PTL DEF Spec, HeadSpec, Chain!Spec
=============================================================================
