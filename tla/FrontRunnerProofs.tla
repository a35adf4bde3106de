------------------------- MODULE FrontRunnerProofs -------------------------
(***************************************************************************)
(* The theorem that the provider in front ends a round Healthy, whatever   *)
(* the other goroutines of the round write meanwhile.  It is the one that  *)
(* takes the histories and all writers of a status into account.           *)
(***************************************************************************)
EXTENDS NetworkProofs

\* Where a goroutine is once it has done all it does to LatestBlockNumber, having
\* written it or not.
Past == {"markLeader", "markHealthy", "rlock", "evaluate", "markLaggard", "metric", "append",
         "done", "panicked"}

\* The height of the network is the one the round began with, or the newer one of
\* a goroutine that has passed its write.
LatestWritten ==
  \/ LatestBlockNumber = startBlock
  \/ \E p \in Providers : /\ Reported(p)
                          /\ pc[p] \in Past
                          /\ LatestBlockNumber = providerBlockNumber(p)
                          /\ startBlock = 0 \/ LatestBlockNumber > startBlock

\* The heights LatestBlockNumber has had in the round.
Seen(h) == h = startBlock \/ \E p \in Providers : Reported(p) /\ h = providerBlockNumber(p)

\* The entry on which a demotion was decided is still there when it is written.
LaggardEarned ==
  \A p \in Providers :
    pc[p] = "markLaggard"
    => /\ CheckedProviders[target[p]] # <<>>
       /\ \E h \in Nat : Seen(h) /\ CheckedProviders[target[p]][1] + BlockLagLimit < h

\* The height p reported in the round before is not too far behind.
SteadyHeight(p) ==
  IF pc[p] = "done"
  THEN Len(CheckedProviders[p]) > 1
         => CheckedProviders[p][2] + BlockLagLimit >= providerBlockNumber(p)
  ELSE CheckedProviders[p] # <<>>
         => CheckedProviders[p][1] + BlockLagLimit >= providerBlockNumber(p)

InFront(p) == /\ Reported(p)
              /\ providerBlockNumber(p) >= startBlock
              /\ \A q \in Providers \ {p} :
                   Reported(q) => \/ providerBlockNumber(q) < providerBlockNumber(p)
                                  \/ providerBlockNumber(q) <= startBlock
              /\ SteadyHeight(p)

\* The provider in front is on its way to Healthy, or has got there and keeps it.
FrontRunnerTracked ==
  \A p \in Providers :
    InFront(p)
    => \/ pc[p] \in {"setHealthy", "newer", "setLatest", "markLeader", "markHealthy", "panicked"}
       \/ pc[p] = "equal" /\ startBlock = providerBlockNumber(p) /\ startBlock > 0
       \/ /\ pc[p] \in {"rlock", "evaluate", "markLaggard", "metric", "append", "done"}
          /\ healthStatus[p] = "Healthy"

\* A range visits entries only.
RangeChecked == \A p, q \in Providers : q \in todo[p] => CheckedProviders[q] # <<>>

FrontInv == DoneFresh /\ RangeChecked /\ LatestWritten /\ LaggardEarned /\ FrontRunnerTracked
----------------------------------------------------------------------------
(* What the steps do to the parts the invariant is about.                  *)

\* A history with one more entry keeps the newest of those before as its second.
LEMMA NewestKeeps ==
  ASSUME HistoryLimit > 1, NEW b \in Nat,
         NEW list \in Seq(Nat), Len(list) <= HistoryLimit, list # <<>>
  PROVE  Len(Newest(b, list)) > 1 /\ Newest(b, list)[2] = list[1]
<1>. DEFINE kept == IF Len(list) = HistoryLimit THEN SubSeq(list, 1, HistoryLimit - 1) ELSE list
<1>1. Len(list) \in Nat /\ Len(list) >= 1
  BY LenProperties, EmptySeq
<1>2. kept \in Seq(Nat) /\ Len(kept) >= 1 /\ kept[1] = list[1]
  <2>1. CASE Len(list) = HistoryLimit
    BY <1>1, <2>1, NetworkAssumption, SubSeqProperties
  <2>2. CASE Len(list) # HistoryLimit
    BY <1>1, <2>2
  <2>. QED BY <2>1, <2>2
<1>3. <<b>> \in Seq(Nat) /\ Len(<<b>>) = 1
  OBVIOUS
<1>4. Len(<<b>> \o kept) = 1 + Len(kept) /\ (<<b>> \o kept)[2] = kept[1]
  BY <1>2, <1>3, ConcatProperties, LenProperties
<1>. QED BY <1>2, <1>4, LenProperties DEF Newest

\* A history is written at the end of a successful check only.
LEMMA HistoryWrites ==
  ASSUME TypeOK, NEW p \in Providers, Proceed(p)
  PROVE  \/ UNCHANGED CheckedProviders /\ (pc'[p] = "done" => ~Reported(p))
         \/ /\ pc[p] = "append" /\ pc'[p] = "done" /\ Readers = {}
            /\ CheckedProviders' = [CheckedProviders EXCEPT
                                      ![p] = Newest(providerBlockNumber(p), @)]
<1>. USE DEF Goto, localVars, chainVars, TypeOK
<1>1. CASE AddHealthCheck(p)
  BY <1>1 DEF AddHealthCheck
<1>2. CASE sendLatestBlockMetric(p)
  BY <1>2 DEF sendLatestBlockMetric
<1>3. CASE ~AddHealthCheck(p) /\ ~sendLatestBlockMetric(p)
  BY <1>3 DEF Proceed, SetUnhealthy, SetHealthy, CompareNewer, CompareEqual, CompareLagging,
              SetLatest, MarkHealthy, MarkWarning, RLock, Evaluate, MarkLaggard, RUnlock
<1>. QED BY <1>1, <1>2, <1>3

\* The steps of a goroutine around its write of the height and after it.
LEMMA OwnSteps ==
  ASSUME TypeOK, NEW p \in Providers, Proceed(p)
  PROVE  /\ pc[p] = "setLatest" => pc'[p] = "markLeader"
         /\ pc[p] = "markLeader" => pc'[p] = "rlock" /\ healthStatus'[p] = "Healthy"
         /\ pc[p] = "markHealthy" => pc'[p] = "metric" /\ healthStatus'[p] = "Healthy"
         /\ pc[p] \in {"rlock", "evaluate"}
              => /\ pc'[p] \in {"evaluate", "markLaggard", "metric"}
                 /\ UNCHANGED healthStatus
         /\ pc[p] = "markLaggard"
              => /\ pc'[p] = "evaluate"
                 /\ target[p] # p => healthStatus'[p] = healthStatus[p]
         /\ pc[p] \in Past => pc'[p] \in Past
<1>. USE DEF Goto, SetStatus, TypeOK, healthVars, Past
<1>1. CASE SetUnhealthy(p) \/ SetHealthy(p)
  BY <1>1 DEF SetUnhealthy, SetHealthy
<1>2. CASE CompareNewer(p) \/ CompareEqual(p) \/ CompareLagging(p)
  BY <1>2 DEF CompareNewer, CompareEqual, CompareLagging
<1>3. CASE SetLatest(p) \/ MarkHealthy(p) \/ MarkWarning(p)
  BY <1>3 DEF SetLatest, MarkHealthy, MarkWarning
<1>4. CASE RLock(p) \/ Evaluate(p) \/ MarkLaggard(p) \/ RUnlock(p)
  BY <1>4 DEF RLock, Evaluate, MarkLaggard, RUnlock
<1>5. CASE sendLatestBlockMetric(p) \/ AddHealthCheck(p)
  BY <1>5 DEF sendLatestBlockMetric, AddHealthCheck
<1>. QED BY <1>1, <1>2, <1>3, <1>4, <1>5 DEF Proceed

\* Only a demotion reaches the status of another provider.
LEMMA OtherStatus ==
  ASSUME TypeOK, NEW p \in Providers, NEW r \in Providers \ {p}, Proceed(r),
         ~(pc[r] = "markLaggard" /\ target[r] = p)
  PROVE  healthStatus'[p] = healthStatus[p]
<1>. USE DEF Goto, SetStatus, TypeOK, healthVars
<1>1. CASE SetUnhealthy(r) \/ SetHealthy(r)
  BY <1>1 DEF SetUnhealthy, SetHealthy
<1>2. CASE CompareNewer(r) \/ CompareEqual(r) \/ CompareLagging(r)
  BY <1>2 DEF CompareNewer, CompareEqual, CompareLagging
<1>3. CASE SetLatest(r) \/ MarkHealthy(r) \/ MarkWarning(r)
  BY <1>3 DEF SetLatest, MarkHealthy, MarkWarning
<1>4. CASE RLock(r) \/ Evaluate(r) \/ MarkLaggard(r) \/ RUnlock(r)
  BY <1>4 DEF RLock, Evaluate, MarkLaggard, RUnlock
<1>5. CASE sendLatestBlockMetric(r) \/ AddHealthCheck(r)
  BY <1>5 DEF sendLatestBlockMetric, AddHealthCheck
<1>. QED BY <1>1, <1>2, <1>3, <1>4, <1>5 DEF Proceed

\* What a range visits, and the entry it has found to lag.
LEMMA RangeSteps ==
  ASSUME TypeOK, NEW p \in Providers, Proceed(p)
  PROVE  /\ \A q \in Providers \ {p} : todo'[q] = todo[q] /\ target'[q] = target[q]
         /\ todo'[p] \subseteq todo[p] \cup Checked
         /\ pc'[p] = "markLaggard"
              => /\ target'[p] \in todo[p]
                 /\ CheckedProviders[target'[p]][1] + BlockLagLimit < LatestBlockNumber
                 /\ UNCHANGED CheckedProviders
<1>. USE DEF Goto, TypeOK, rangeVars, localVars, chainVars
<1>1. CASE SetUnhealthy(p) \/ SetHealthy(p)
  BY <1>1 DEF SetUnhealthy, SetHealthy
<1>2. CASE CompareNewer(p) \/ CompareEqual(p) \/ CompareLagging(p)
  BY <1>2 DEF CompareNewer, CompareEqual, CompareLagging
<1>3. CASE SetLatest(p) \/ MarkHealthy(p) \/ MarkWarning(p)
  BY <1>3 DEF SetLatest, MarkHealthy, MarkWarning
<1>4. CASE RLock(p)
  BY <1>4 DEF RLock
<1>5. CASE Evaluate(p)
  BY <1>5 DEF Evaluate
<1>6. CASE MarkLaggard(p) \/ RUnlock(p)
  BY <1>6 DEF MarkLaggard, RUnlock
<1>7. CASE sendLatestBlockMetric(p) \/ AddHealthCheck(p)
  BY <1>7 DEF sendLatestBlockMetric, AddHealthCheck
<1>. QED BY <1>1, <1>2, <1>3, <1>4, <1>5, <1>6, <1>7 DEF Proceed

\* A Post leaves the ranges alone, and the reports it finds.
LEMMA PostReports ==
  ASSUME IInv, NEW p \in Providers, Post(p)
  PROVE  /\ UNCHANGED <<todo, target>>
         /\ ~Reported(p)
         /\ \A q \in Providers \ {p} : /\ Reported(q)' <=> Reported(q)
                                       /\ providerBlockNumber(q)' = providerBlockNumber(q)
<1>1. UNCHANGED <<todo, target>>
  BY DEF Post, PingFailure, PingWarning, PingSuccess, Panic, rangeVars
<1>2. ~Reported(p)
  BY PostFrame DEF IInv, PostUnanswered, Reported
<1>. QED BY <1>1, <1>2, PostFrame DEF IInv, Reported, providerBlockNumber

LEMMA ProceedReports ==
  ASSUME TypeOK, NEW p \in Providers, Proceed(p)
  PROVE  \A q \in Providers : /\ Reported(q)' <=> Reported(q)
                              /\ providerBlockNumber(q)' = providerBlockNumber(q)
BY ProceedFrame DEF Reported, providerBlockNumber

\* The steps that leave the goroutines and their memory alone.
idleVars == <<pc, answer, rangeVars, healthVars, chainVars, startBlock>>

LEMMA IdleStep ==
  ASSUME FrontInv, UNCHANGED idleVars
  PROVE  FrontInv'
BY DEF idleVars, rangeVars, healthVars, chainVars, FrontInv, DoneFresh, RangeChecked,
       LatestWritten, LaggardEarned, FrontRunnerTracked, InFront, SteadyHeight, Seen,
       Reported, providerBlockNumber
----------------------------------------------------------------------------
(* The conjuncts of the invariant, one lemma each.                         *)

LEMMA RangeStep ==
  ASSUME IInv, RangeChecked, NEW p \in Providers, Post(p) \/ Proceed(p)
  PROVE  RangeChecked'
<1>. USE DEF IInv, RangeChecked
<1>1. CASE Post(p)
  BY <1>1, PostReports, PostFrame
<1>2. CASE Proceed(p)
  <2>1. \A q \in Providers : CheckedProviders[q] # <<>> => CheckedProviders'[q] # <<>>
    <3>1. CASE UNCHANGED CheckedProviders
      BY <3>1
    <3>2. CASE pc[p] = "append" /\ CheckedProviders' = [CheckedProviders EXCEPT
                                                          ![p] = Newest(providerBlockNumber(p), @)]
      <4>1. Newest(providerBlockNumber(p), CheckedProviders[p]) # <<>>
        BY <3>2, ReportedHeight, NewestIsHistory DEF ComparingReported, Comparing, TypeOK
      <4>. QED BY <3>2, <4>1 DEF TypeOK
    <3>. QED BY <1>2, <3>1, <3>2, HistoryWrites
  <2>2. \A q \in Checked : q \in Providers /\ CheckedProviders[q] # <<>>
    BY DEF Checked
  <2>. QED BY <1>2, <2>1, <2>2, RangeSteps
<1>. QED BY <1>1, <1>2

LEMMA WrittenStep ==
  ASSUME IInv, LatestWritten, NEW p \in Providers, Post(p) \/ Proceed(p)
  PROVE  LatestWritten'
<1>. USE DEF IInv
<1>1. CASE Post(p)
  <2>1. UNCHANGED <<startBlock, LatestBlockNumber>>
    BY <1>1, PostFrame
  <2>2. \A q \in Providers : (Reported(q) /\ pc[q] \in Past)
                             => /\ Reported(q)' /\ pc'[q] \in Past
                                /\ providerBlockNumber(q)' = providerBlockNumber(q)
    BY <1>1, PostReports, PostFrame DEF Past
  <2>. QED BY <2>1, <2>2 DEF LatestWritten
<1>2. CASE Proceed(p)
  <2>1. startBlock' = startBlock
    BY <1>2, ProceedFrame
  <2>2. \A q \in Providers : (Reported(q) /\ pc[q] \in Past)
                             => /\ Reported(q)' /\ pc'[q] \in Past
                                /\ providerBlockNumber(q)' = providerBlockNumber(q)
    BY <1>2, ProceedReports, ProceedFrame, OwnSteps
  <2>3. CASE LatestBlockNumber' = LatestBlockNumber
    BY <2>1, <2>2, <2>3 DEF LatestWritten
  <2>4. CASE /\ pc[p] = "setLatest" /\ pc'[p] = "markLeader"
             /\ LatestBlockNumber' = providerBlockNumber(p)
    <3>1. Reported(p)' /\ providerBlockNumber(p)' = providerBlockNumber(p)
      BY <1>2, <2>4, ProceedReports DEF ComparingReported, Comparing
    <3>2. startBlock = 0 \/ providerBlockNumber(p) > startBlock
      BY <2>4 DEF LatestBounds
    <3>. QED BY <2>1, <2>4, <3>1, <3>2 DEF LatestWritten, Past
  <2>. QED BY <1>2, <2>3, <2>4, LatestWrites
<1>. QED BY <1>1, <1>2

LEMMA LaggardEarnedStep ==
  ASSUME IInv, RangeChecked, LaggardEarned, NEW p \in Providers, Post(p) \/ Proceed(p)
  PROVE  LaggardEarned'
<1>. USE DEF IInv
<1>1. ASSUME NEW h, Seen(h)
      PROVE  Seen(h)'
  <2>1. startBlock' = startBlock
    BY PostFrame, ProceedFrame
  <2>2. \A q \in Providers : Reported(q) => /\ Reported(q)'
                                            /\ providerBlockNumber(q)' = providerBlockNumber(q)
    BY PostReports, ProceedReports
  <2>. QED BY <1>1, <2>1, <2>2 DEF Seen
<1>. SUFFICES ASSUME NEW q \in Providers, pc'[q] = "markLaggard"
              PROVE  /\ CheckedProviders'[target'[q]] # <<>>
                     /\ \E h \in Nat : /\ Seen(h)'
                                       /\ CheckedProviders'[target'[q]][1] + BlockLagLimit < h
  BY DEF LaggardEarned
<1>2. CASE pc[q] = "markLaggard" /\ UNCHANGED CheckedProviders /\ target'[q] = target[q]
  <2>1. PICK h \in Nat : Seen(h) /\ CheckedProviders[target[q]][1] + BlockLagLimit < h
    BY <1>2 DEF LaggardEarned
  <2>. QED BY <1>1, <1>2, <2>1 DEF LaggardEarned
<1>3. CASE Post(p)
  BY <1>2, <1>3, PostReports, PostFrame
<1>4. CASE Proceed(p) /\ q # p
  <2>1. pc[q] = "markLaggard" /\ target'[q] = target[q]
    BY <1>4, ProceedFrame, RangeSteps
  <2>2. UNCHANGED CheckedProviders
    BY <1>4, <2>1, HistoryWrites DEF Readers
  <2>. QED BY <1>2, <2>1, <2>2
<1>5. CASE Proceed(p) /\ q = p
  <2>1. /\ target'[p] \in todo[p] /\ UNCHANGED CheckedProviders
        /\ CheckedProviders[target'[p]][1] + BlockLagLimit < LatestBlockNumber
    BY <1>5, RangeSteps
  <2>2. CheckedProviders[target'[p]] # <<>>
    BY <2>1 DEF RangeChecked, TypeOK
  <2>3. LatestBlockNumber \in Nat /\ Seen(LatestBlockNumber)
    BY DEF LatestFromRound, Seen, TypeOK
  <2>. QED BY <1>1, <1>5, <2>1, <2>2, <2>3
<1>. QED BY <1>3, <1>4, <1>5
----------------------------------------------------------------------------
(* The provider in front.                                                  *)

\* Nothing the round has seen is above the provider in front.
LEMMA FrontHeight ==
  ASSUME IInv, NEW p \in Providers, InFront(p)
  PROVE  /\ providerBlockNumber(p) \in Nat
         /\ \A h \in Nat : Seen(h) => h <= providerBlockNumber(p)
         /\ LatestBlockNumber <= providerBlockNumber(p)
<1>. USE DEF IInv
<1>1. providerBlockNumber(p) \in Nat /\ startBlock \in Nat /\ LatestBlockNumber \in Nat
  BY ReportedHeight DEF InFront, TypeOK
<1>2. \A q \in Providers : Reported(q) => providerBlockNumber(q) \in Nat
  BY ReportedHeight
<1>3. \A q \in Providers : Reported(q) => providerBlockNumber(q) <= providerBlockNumber(p)
  BY <1>1, <1>2 DEF InFront
<1>4. \A h \in Nat : Seen(h) => h <= providerBlockNumber(p)
  BY <1>3 DEF Seen, InFront
<1>5. Seen(LatestBlockNumber)
  BY DEF LatestFromRound, Seen
<1>. QED BY <1>1, <1>4, <1>5

\* Nobody is about to demote the provider in front.
LEMMA FrontNotTarget ==
  ASSUME IInv, DoneFresh, LaggardEarned, NEW p \in Providers, InFront(p),
         NEW r \in Providers, pc[r] = "markLaggard"
  PROVE  target[r] # p
<1>. SUFFICES ASSUME target[r] = p
              PROVE  FALSE
  OBVIOUS
<1>1. /\ CheckedProviders[p] # <<>>
      /\ \E h \in Nat : Seen(h) /\ CheckedProviders[p][1] + BlockLagLimit < h
  BY DEF LaggardEarned
<1>2. PICK h \in Nat : Seen(h) /\ CheckedProviders[p][1] + BlockLagLimit < h
  BY <1>1
<1>3. h <= providerBlockNumber(p) /\ providerBlockNumber(p) \in Nat
  BY <1>2, FrontHeight
<1>4. CheckedProviders[p][1] \in Nat
  BY <1>1, EmptySeq, LenProperties, ElementOfSeq DEF IInv, TypeOK
<1>5. BlockLagLimit \in Nat
  BY NetworkAssumption
<1>6. CASE pc[p] = "done"
  BY <1>2, <1>3, <1>5, <1>6 DEF DoneFresh, InFront
<1>7. CASE pc[p] # "done"
  <2>1. CheckedProviders[p][1] + BlockLagLimit >= providerBlockNumber(p)
    BY <1>1, <1>7 DEF InFront, SteadyHeight
  <2>. QED BY <1>2, <1>3, <1>4, <1>5, <2>1
<1>. QED BY <1>6, <1>7

\* A step of a goroutine puts no provider in front.
LEMMA FrontBefore ==
  ASSUME IInv, HistoryLimit > 1, NEW r \in Providers, Proceed(r),
         NEW p \in Providers, InFront(p)'
  PROVE  InFront(p)
<1>. USE DEF IInv, TypeOK
<1>1. startBlock' = startBlock
  BY ProceedFrame
<1>2. \A q \in Providers : /\ Reported(q)' <=> Reported(q)
                           /\ providerBlockNumber(q)' = providerBlockNumber(q)
  BY ProceedReports
<1>3. Reported(p) /\ SteadyHeight(p)'
  BY <1>2 DEF InFront
<1>4. SteadyHeight(p)
  <2>1. CASE r # p
    <3>1. pc'[p] = pc[p] /\ CheckedProviders'[p] = CheckedProviders[p]
      BY <2>1, ProceedFrame, HistoryWrites
    <3>. QED BY <1>2, <1>3, <3>1 DEF SteadyHeight
  <2>2. CASE r = p /\ UNCHANGED CheckedProviders /\ (pc'[p] = "done" => ~Reported(p))
    <3>1. pc'[p] # "done" /\ pc[p] # "done"
      BY <1>3, <2>2, ProceedFrame DEF Comparing
    <3>. QED BY <1>2, <1>3, <2>2, <3>1 DEF SteadyHeight
  <2>3. CASE /\ r = p /\ pc[p] = "append" /\ pc'[p] = "done"
             /\ CheckedProviders' = [CheckedProviders EXCEPT
                                       ![p] = Newest(providerBlockNumber(p), @)]
    <3>. SUFFICES ASSUME CheckedProviders[p] # <<>>
                  PROVE  CheckedProviders[p][1] + BlockLagLimit >= providerBlockNumber(p)
      BY <2>3 DEF SteadyHeight
    <3>1. CheckedProviders'[p] = Newest(providerBlockNumber(p), CheckedProviders[p])
      BY <2>3
    <3>2. /\ providerBlockNumber(p) \in Nat
          /\ CheckedProviders[p] \in Seq(Nat) /\ Len(CheckedProviders[p]) <= HistoryLimit
      BY <1>3, ReportedHeight
    <3>3. Len(CheckedProviders'[p]) > 1 /\ CheckedProviders'[p][2] = CheckedProviders[p][1]
      BY <3>1, <3>2, NewestKeeps
    <3>. QED BY <1>2, <1>3, <2>3, <3>3 DEF SteadyHeight
  <2>. QED BY <2>1, <2>2, <2>3, HistoryWrites
<1>. QED BY <1>1, <1>2, <1>4 DEF InFront

LEMMA FrontRunnerProceed ==
  ASSUME IInv, FrontInv, HistoryLimit > 1, NEW r \in Providers, Proceed(r)
  PROVE  FrontRunnerTracked'
<1>. USE DEF IInv, FrontInv
<1>. SUFFICES ASSUME NEW p \in Providers, InFront(p)'
              PROVE  \/ pc'[p] \in {"setHealthy", "newer", "setLatest", "markLeader",
                                    "markHealthy", "panicked"}
                     \/ /\ pc'[p] = "equal" /\ startBlock' = providerBlockNumber(p)'
                        /\ startBlock' > 0
                     \/ /\ pc'[p] \in {"rlock", "evaluate", "markLaggard", "metric",
                                       "append", "done"}
                        /\ healthStatus'[p] = "Healthy"
  BY DEF FrontRunnerTracked
<1>1. InFront(p)
  BY FrontBefore
<1>2. startBlock' = startBlock /\ providerBlockNumber(p)' = providerBlockNumber(p)
  BY ProceedFrame, ProceedReports
<1>3. /\ providerBlockNumber(p) \in Nat /\ startBlock \in Nat /\ LatestBlockNumber \in Nat
      /\ startBlock <= LatestBlockNumber /\ LatestBlockNumber <= providerBlockNumber(p)
  BY <1>1, FrontHeight DEF LatestBounds, TypeOK
<1>4. \A q \in Providers : pc[q] = "markLaggard" => target[q] # p
  BY <1>1, FrontNotTarget
<1>5. CASE r # p
  <2>1. pc'[p] = pc[p] /\ healthStatus'[p] = healthStatus[p]
    BY <1>4, <1>5, ProceedFrame, OtherStatus
  <2>. QED BY <1>1, <1>2, <2>1 DEF FrontRunnerTracked
<1>6. CASE r = p /\ pc[p] = "newer"
  <2>1. CASE LatestBlockNumber = 0 \/ LatestBlockNumber < providerBlockNumber(p)
    BY <1>6, <2>1, ComparisonSteps
  <2>2. CASE ~(LatestBlockNumber = 0 \/ LatestBlockNumber < providerBlockNumber(p))
    <3>1. pc'[p] = "equal"
      BY <1>6, <2>2, ComparisonSteps
    <3>2. LatestBlockNumber = providerBlockNumber(p) /\ LatestBlockNumber > 0
      BY <1>3, <2>2
    <3>3. LatestBlockNumber = startBlock
      <4>. SUFFICES ASSUME LatestBlockNumber # startBlock
                    PROVE  FALSE
        OBVIOUS
      <4>1. PICK q \in Providers : /\ Reported(q)
                                   /\ pc[q] \in Past
                                   /\ LatestBlockNumber = providerBlockNumber(q)
                                   /\ startBlock = 0 \/ LatestBlockNumber > startBlock
        BY DEF LatestWritten
      <4>2. q # p
        BY <1>6, <4>1 DEF Past
      <4>. QED BY <1>1, <1>3, <3>2, <4>1, <4>2 DEF InFront
    <3>. QED BY <1>2, <3>1, <3>2, <3>3
  <2>. QED BY <2>1, <2>2
<1>7. CASE r = p /\ pc[p] = "equal"
  <2>1. startBlock = providerBlockNumber(p)
    BY <1>1, <1>7 DEF FrontRunnerTracked
  <2>2. LatestBlockNumber = providerBlockNumber(p)
    BY <1>3, <2>1
  <2>. QED BY <1>7, <2>2, ComparisonSteps
<1>8. CASE r = p /\ pc[p] \in {"setHealthy", "setLatest", "markLeader", "markHealthy"}
  BY <1>8, OwnSteps, ComparisonSteps
<1>9. CASE /\ r = p /\ healthStatus[p] = "Healthy"
           /\ pc[p] \in {"rlock", "evaluate", "markLaggard", "metric", "append"}
  BY <1>4, <1>9, OwnSteps, ComparisonSteps
<1>10. pc[p] \notin {"panicked", "done"} \/ r # p
  BY ProceedFrame DEF Comparing
<1>. QED BY <1>1, <1>5, <1>6, <1>7, <1>8, <1>9, <1>10 DEF FrontRunnerTracked

LEMMA FrontRunnerPost ==
  ASSUME IInv, FrontRunnerTracked, NEW r \in Providers, Post(r)
  PROVE  FrontRunnerTracked'
<1>. SUFFICES ASSUME NEW p \in Providers, InFront(p)', pc'[p] # "panicked"
              PROVE  \/ pc'[p] \in {"setHealthy", "newer"}
                     \/ /\ pc'[p] = pc[p] /\ healthStatus'[p] = healthStatus[p]
                        /\ InFront(p)
                        /\ UNCHANGED startBlock
                        /\ providerBlockNumber(p)' = providerBlockNumber(p)
  BY DEF FrontRunnerTracked
<1>. USE DEF IInv
<1>1. CASE r = p
  BY <1>1, PostFrame DEF InFront
<1>2. CASE r # p
  <2>1. /\ pc'[p] = pc[p] /\ healthStatus'[p] = healthStatus[p]
        /\ UNCHANGED <<startBlock, CheckedProviders>>
    BY <1>2, PostFrame
  <2>2. ~Reported(r)
    BY PostReports
  <2>3. \A q \in Providers \ {r} : /\ Reported(q)' <=> Reported(q)
                                   /\ providerBlockNumber(q)' = providerBlockNumber(q)
    BY PostReports
  <2>4. InFront(p)
    BY <1>2, <2>1, <2>2, <2>3 DEF InFront, SteadyHeight
  <2>. QED BY <1>2, <2>1, <2>3, <2>4
<1>. QED BY <1>1, <1>2
----------------------------------------------------------------------------
(* The theorem.                                                            *)

LEMMA FrontInvStep ==
  ASSUME IInv, FrontInv, HistoryLimit > 1, [Next]_vars
  PROVE  FrontInv'
<1>1. CASE Tick \/ EndRound \/ UNCHANGED vars
  BY <1>1, IdleStep DEF Tick, EndRound, vars, roundVars, idleVars
<1>2. CASE StartRound
  <2>1. DoneFresh'
    BY <1>2, DoneFreshStep DEF FrontInv, Next
  <2>2. /\ startBlock' = LatestBlockNumber
        /\ \A p \in Providers : pc'[p] = "post" /\ ~Reported(p)'
        /\ UNCHANGED <<rangeVars, chainVars>>
    BY <1>2 DEF StartRound, Reported
  <2>. QED
    BY <2>1, <2>2 DEF FrontInv, RangeChecked, LatestWritten, LaggardEarned,
       FrontRunnerTracked, InFront, rangeVars, chainVars
<1>3. ASSUME NEW p \in Providers, Post(p) \/ Proceed(p)
      PROVE  FrontInv'
  <2>1. DoneFresh'
    BY <1>3, DoneFreshStep DEF FrontInv, Next
  <2>. QED
    BY <1>3, <2>1, RangeStep, WrittenStep, LaggardEarnedStep, FrontRunnerPost,
       FrontRunnerProceed DEF FrontInv
<1>. QED BY <1>1, <1>2, <1>3 DEF Next, Dead

\* A provider ahead of all others, or level with the network and nobody ahead of
\* it, ends the round Healthy, whichever goroutine reads and writes the height
\* and the states when (network.go:124-136, 168-185), with histories of more than
\* one entry as in the code (network.go:201: ten).
THEOREM FrontRunnerHealthyHolds == HistoryLimit > 1 => (Spec => []FrontRunnerHealthy)
<1>. SUFFICES ASSUME HistoryLimit > 1
              PROVE  Spec => []FrontRunnerHealthy
  OBVIOUS
<1>1. Init => FrontInv
  BY DEF Init, FrontInv, DoneFresh, RangeChecked, LatestWritten, LaggardEarned,
     FrontRunnerTracked, InFront, Reported
<1>2. IInv /\ FrontInv => FrontRunnerHealthy
  BY DEF IInv, FrontInv, FrontRunnerHealthy, FrontRunnerTracked, InFront, SteadyHeight,
     WaitingDone
<1>. QED BY <1>1, <1>2, FrontInvStep, Inductive, PTL DEF Spec
=============================================================================
