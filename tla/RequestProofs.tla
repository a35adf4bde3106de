--------------------------- MODULE RequestProofs ---------------------------
(***************************************************************************)
(* Theorems about Request, for any set of providers, any priorities, any   *)
(* attempt count, and any number of status changes during an attempt.      *)
(***************************************************************************)
EXTENDS Request, TLAPS

\* What is proved of GetUpstreams.
PoolProofs == INSTANCE UpstreamsProofs
----------------------------------------------------------------------------
(* The inductive invariant.                                                *)

InAttempt == phase \in {"proxy", "sent"}

\* A request has an outcome when ServeHTTP has returned.
OutcomeAtEnd == phase # "idle" => outcome = "none"

\* The loop variable counts the attempts, all failed, and is below the count
\* during an attempt.
AttemptsCounted ==
  /\ (phase = "loop" \/ InAttempt) => /\ Len(answers) = attempt
                                      /\ \A i \in 1..Len(answers) : ~Succeeded(answers[i])
  /\ InAttempt => attempt < attemptCount

\* The loop is left after a success, or when no attempt is left.
LoopLeft == phase = "finish" => \/ answers # <<>> /\ Succeeded(Last)
                                \/ Len(answers) >= attemptCount

Header == IF wantsInfo THEN provider ELSE NoProvider

\* The writer, the header, the provider and the error are those of the attempt,
\* and after it those of its answer.
WriterOfAttempt ==
  /\ InAttempt => rww = Fresh
  /\ phase = "proxy" => info = NoProvider /\ body = "whole"
  /\ phase = "sent" => provider \in Providers /\ info = Header
  /\ (phase \in {"loop", "finish"} /\ answers # <<>>)
     => /\ provider = Last.provider
        /\ err = Last.err
        /\ ~err => rww = [status |-> Last.status, body |-> <<provider>>] /\ info = Header
  /\ (phase # "sent" /\ phase # "idle" /\ answers = <<>>) => provider = NoProvider /\ ~err

IInv == /\ TypeOK
        /\ OutcomeAtEnd
        /\ AttemptsCounted
        /\ LoopLeft
        /\ WriterOfAttempt
        /\ ReplyFromLastAttempt
        /\ RetriesJustified
        /\ ForemostPreventsAbort
----------------------------------------------------------------------------
(* Every step of a request is a step of Upstreams, or leaves it alone.     *)

LEMMA PoolAssumption == PoolProofs!IsFiniteSet(Providers) /\ Pool!N = PoolProofs!N
<1>1. PoolProofs!IsFiniteSet(Providers)
  BY RequestAssumption DEF IsFiniteSet, PoolProofs!IsFiniteSet
<1>2. PoolProofs!Cardinality(Providers) = Cardinality(Providers)
  BY DEF PoolProofs!Cardinality, Cardinality, IsFiniteSet, PoolProofs!IsFiniteSet
<1>3. Pool!Cardinality(Providers) = Cardinality(Providers)
  BY DEF Pool!Cardinality, Cardinality, IsFiniteSet, Pool!IsFiniteSet
<1>. QED BY <1>1, <1>2, <1>3 DEF Pool!N, PoolProofs!N

LEMMA SameInit == Pool!Init => PoolProofs!Init
BY DEF Pool!Init, PoolProofs!Init, Pool!State, PoolProofs!State,
       Pool!HealthStatus, PoolProofs!HealthStatus

LEMMA SameChanges ==
  ASSUME NEW p \in Providers
  PROVE  /\ Pool!Toggle(p) => PoolProofs!Toggle(p)
         /\ \A s : Pool!Mark(p, s) => PoolProofs!Mark(p, s)
BY DEF Pool!Toggle, PoolProofs!Toggle, Pool!Mark, PoolProofs!Mark, Pool!Change, PoolProofs!Change,
       Pool!State, PoolProofs!State, Pool!loopVars, PoolProofs!loopVars

LEMMA SameCall == Pool!Call => PoolProofs!Call
BY DEF Pool!Call, PoolProofs!Call, Pool!State, PoolProofs!State

LEMMA SameVisit ==
  ASSUME NEW p \in Providers
  PROVE  /\ Pool!Visit(p) => PoolProofs!Visit(p)
         /\ Pool!Test(p) => PoolProofs!Test(p)
BY DEF Pool!Visit, PoolProofs!Visit, Pool!Test, PoolProofs!Test, Pool!Collecting,
       PoolProofs!Collecting, Pool!Fits, PoolProofs!Fits, Pool!Wanted, PoolProofs!Wanted,
       Pool!envVars, PoolProofs!envVars

LEMMA SameReturns ==
  /\ Pool!NextPriority => PoolProofs!NextPriority
  /\ Pool!NextPass => PoolProofs!NextPass
  /\ Pool!Return => PoolProofs!Return
BY PoolAssumption
DEF Pool!NextPriority, PoolProofs!NextPriority, Pool!NextPass, PoolProofs!NextPass,
    Pool!Return, PoolProofs!Return, Pool!Collecting, PoolProofs!Collecting,
    Pool!envVars, PoolProofs!envVars

LEMMA PoolStep == [Next]_vars => [PoolProofs!Next]_(PoolProofs!vars)
<1>. SUFFICES ASSUME [Next]_vars PROVE [PoolProofs!Next]_(PoolProofs!vars)
  OBVIOUS
<1>1. CASE StatusChange
  BY <1>1, SameChanges
  DEF StatusChange, PoolProofs!Next, Pool!HealthStatus, PoolProofs!HealthStatus
<1>2. CASE Attempt
  BY <1>2, SameCall DEF Attempt, PoolProofs!Next
<1>3. CASE GetUpstreams
  BY <1>3, SameVisit, SameReturns DEF GetUpstreams, PoolProofs!Next
<1>4. CASE UNCHANGED poolVars
  BY <1>4 DEF poolVars, PoolProofs!vars, PoolProofs!envVars, PoolProofs!loopVars
<1>. QED
  BY <1>1, <1>2, <1>3, <1>4
  DEF Next, vars, Reject, Accept, Select, SelectNone, Abort, Answer, Fail, EndLoop,
      ReturnError, Reply, ReplyLost, NothingTried

\* The calls of GetUpstreams a request makes are calls of Upstreams, so whatever is
\* proved of one call holds for each attempt (din_middleware.go:160-172).
LEMMA PoolImplemented == Spec => []PoolProofs!IInv
<1>1. Init => PoolProofs!Init
  BY SameInit DEF Init
<1>2. Spec => PoolProofs!Spec
  BY <1>1, PoolStep, PTL DEF Spec, PoolProofs!Spec
<1>3. PoolProofs!Spec => []PoolProofs!IInv
  BY PoolProofs!Inductive, PoolAssumption, RequestAssumption
<1>. QED BY <1>2, <1>3, PTL
----------------------------------------------------------------------------
(* What a request relies on.                                               *)

\* No configured provider outranks p, and p stays Healthy and up.
ForemostSteady(p) == /\ Pool!Steady(p, "Healthy")
                     /\ Pool!InRange(p)
                     /\ \A q \in Providers : Pool!InRange(q) => Priority[p] <= Priority[q]

PoolFacts ==
  /\ Pool!TypeOK
  /\ \A p \in Providers : past[p] # {}
  /\ pass = "done" => \A p \in Providers : ForemostSteady(p) => p \in Selectable

LEMMA PoolKnown == PoolProofs!IInv => PoolFacts
<1>. SUFFICES ASSUME PoolProofs!IInv PROVE PoolFacts
  OBVIOUS
<1>1. Pool!TypeOK
  BY PoolAssumption
  DEF PoolProofs!IInv, Pool!TypeOK, PoolProofs!TypeOK, Pool!HealthStatus, PoolProofs!HealthStatus,
      Pool!States, PoolProofs!States
<1>2. \A p \in Providers : past[p] # {}
  BY DEF PoolProofs!IInv, PoolProofs!PastNow
<1>3. ASSUME NEW p \in Providers, pass = "done", ForemostSteady(p)
      PROVE  p \in Selectable
  <2>1. /\ Pool!InRange(p) <=> PoolProofs!InRange(p)
        /\ Pool!Steady(p, "Healthy") <=> PoolProofs!Steady(p, "Healthy")
    BY PoolAssumption DEF Pool!InRange, PoolProofs!InRange, Pool!Steady, PoolProofs!Steady
  <2>2. todo = {} /\ candidate = {} /\ upstreamPool # {} /\ PoolProofs!NotMissed(p)
    BY <1>3, <2>1
    DEF PoolProofs!IInv, PoolProofs!ReturnedWell, PoolProofs!HealthyTracked, ForemostSteady
  <2>3. /\ \A q \in upstreamPool : q \in Providers /\ Priority[q] = priority
        /\ priority \in 0..Pool!N - 1 /\ Priority[p] \in Int /\ priority \in Int
    <3>1. \A q \in upstreamPool : q \in Providers /\ Priority[q] = priority
      BY <1>1 DEF Pool!TypeOK, PoolProofs!IInv, PoolProofs!PoolWanted
    <3>. QED BY <1>1, <3>1 DEF Pool!TypeOK
  <2>4. Priority[p] <= priority
    BY <1>3, <2>2, <2>3 DEF ForemostSteady, Pool!InRange
  <2>5. p \in upstreamPool
    BY <2>2, <2>3, <2>4 DEF PoolProofs!NotMissed
  <2>6. up[p]
    BY <1>3, <2>1, PoolProofs!PresentPast, PoolAssumption, RequestAssumption
    DEF PoolProofs!IInv, PoolProofs!Reads, ForemostSteady
  <2>. QED BY <2>5, <2>6 DEF Selectable
<1>. QED BY <1>1, <1>2, <1>3 DEF PoolFacts

LEMMA AbortWithout ==
  ForemostPreventsAbort
  <=> (outcome = "aborted" /\ attemptCount > 0 => \A p \in Providers : ~ForemostSteady(p))
BY DEF ForemostPreventsAbort, ForemostSteady
----------------------------------------------------------------------------
(* What each action does to the invariant.                                 *)

LEMMA InitInvariant ==
  ASSUME Init, PoolFacts
  PROVE  IInv
<1>. USE DEF Init
<1>1. TypeOK
  <2>1. /\ Fresh \in [status : Statuses \cup {0}, body : Seq(Providers)]
        /\ NoMetric \in [provider : Providers \cup {NoProvider}, status : Statuses \cup {0}]
    BY DEF Fresh, NoMetric
  <2>2. attemptCount \in Int /\ answers \in Seq(Seen)
    BY RequestAssumption
  <2>. QED BY <2>1, <2>2 DEF TypeOK, PoolFacts
<1>2. OutcomeAtEnd /\ AttemptsCounted /\ LoopLeft /\ WriterOfAttempt
  BY DEF OutcomeAtEnd, AttemptsCounted, LoopLeft, WriterOfAttempt, InAttempt
<1>3. ReplyFromLastAttempt /\ RetriesJustified /\ ForemostPreventsAbort
  BY DEF ReplyFromLastAttempt, RetriesJustified, ForemostPreventsAbort
<1>. QED BY <1>1, <1>2, <1>3 DEF IInv

\* A step of GetUpstreams, or of its environment.
LEMMA PoolOnlyStep ==
  ASSUME IInv, PoolFacts, PoolFacts', StatusChange \/ GetUpstreams
  PROVE  IInv'
<1>. USE DEF IInv
<1>1. UNCHANGED <<attemptCount, phase, attempt, wantsInfo, body, rww, err, info, provider,
                  answers, outcome, reply, metric>>
  BY DEF StatusChange, GetUpstreams, requestVars, resultVars
<1>2. TypeOK'
  BY <1>1 DEF TypeOK, PoolFacts
<1>3. OutcomeAtEnd' /\ AttemptsCounted' /\ LoopLeft' /\ WriterOfAttempt'
  BY <1>1 DEF OutcomeAtEnd, AttemptsCounted, LoopLeft, WriterOfAttempt, InAttempt, Last, Header
<1>4. ReplyFromLastAttempt' /\ RetriesJustified'
  BY <1>1 DEF ReplyFromLastAttempt, RetriesJustified, Last
<1>5. ForemostPreventsAbort'
  <2>. SUFFICES ASSUME outcome = "aborted", attemptCount > 0, NEW p \in Providers, ForemostSteady(p)'
                PROVE  FALSE
    BY <1>1 DEF ForemostPreventsAbort, ForemostSteady
  <2>1. StatusChange
    BY DEF OutcomeAtEnd, GetUpstreams
  <2>2. Priority' = Priority /\ past' = [q \in Providers |-> past[q] \cup {Pool!State(q)'}]
    BY <2>1 DEF StatusChange, Pool!Toggle, Pool!Mark, Pool!Change
  <2>3. past[p] # {} /\ past[p] \subseteq past'[p]
    BY <2>2 DEF PoolFacts
  <2>4. ForemostSteady(p)
    BY <2>2, <2>3 DEF ForemostSteady, Pool!InRange, Pool!Steady
  <2>. QED BY <2>4, AbortWithout
<1>. QED BY <1>2, <1>3, <1>4, <1>5

LEMMA RejectStep ==
  ASSUME IInv, PoolFacts', Reject
  PROVE  IInv'
<1>. USE DEF IInv, Reject
<1>1. TypeOK'
  BY DEF TypeOK, PoolFacts, NoMetric, Seen, Statuses
<1>2. OutcomeAtEnd' /\ AttemptsCounted' /\ LoopLeft' /\ WriterOfAttempt'
  BY DEF OutcomeAtEnd, AttemptsCounted, LoopLeft, WriterOfAttempt, InAttempt
<1>3. ReplyFromLastAttempt' /\ RetriesJustified' /\ ForemostPreventsAbort'
  BY DEF ReplyFromLastAttempt, RetriesJustified, ForemostPreventsAbort
<1>. QED BY <1>1, <1>2, <1>3

LEMMA AcceptStep ==
  ASSUME IInv, PoolFacts', Accept
  PROVE  IInv'
<1>. USE DEF IInv, Accept
<1>1. TypeOK'
  <2>1. /\ Fresh \in [status : Statuses \cup {0}, body : Seq(Providers)]
        /\ NoMetric \in [provider : Providers \cup {NoProvider}, status : Statuses \cup {0}]
    BY DEF Fresh, NoMetric
  <2>2. attemptCount' \in Int /\ answers' \in Seq(Seen)
    BY DEF TypeOK
  <2>3. wantsInfo' \in BOOLEAN /\ err' \in BOOLEAN
    OBVIOUS
  <2>. QED BY <2>1, <2>2, <2>3 DEF TypeOK, PoolFacts
<1>2. OutcomeAtEnd' /\ AttemptsCounted' /\ LoopLeft' /\ WriterOfAttempt'
  BY DEF OutcomeAtEnd, AttemptsCounted, LoopLeft, WriterOfAttempt, InAttempt
<1>3. ReplyFromLastAttempt' /\ RetriesJustified' /\ ForemostPreventsAbort'
  BY DEF ReplyFromLastAttempt, RetriesJustified, ForemostPreventsAbort
<1>. QED BY <1>1, <1>2, <1>3

LEMMA AttemptStep ==
  ASSUME IInv, PoolFacts', Attempt
  PROVE  IInv'
<1>. USE DEF IInv
<1>1. /\ phase = "loop" /\ attempt < attemptCount /\ phase' = "proxy"
      /\ rww' = Fresh /\ info' = NoProvider /\ body' = "whole"
      /\ UNCHANGED <<attemptCount, attempt, wantsInfo, err, provider, answers, outcome, reply, metric>>
  BY DEF Attempt, resultVars
<1>2. TypeOK'
  BY <1>1 DEF TypeOK, PoolFacts, Fresh
<1>3. OutcomeAtEnd' /\ AttemptsCounted' /\ LoopLeft'
  BY <1>1 DEF OutcomeAtEnd, AttemptsCounted, LoopLeft, InAttempt
<1>4. WriterOfAttempt'
  BY <1>1 DEF WriterOfAttempt, InAttempt
<1>5. outcome' = "none"
  BY <1>1 DEF OutcomeAtEnd
<1>6. ReplyFromLastAttempt' /\ RetriesJustified' /\ ForemostPreventsAbort'
  BY <1>1, <1>5 DEF ReplyFromLastAttempt, RetriesJustified, ForemostPreventsAbort
<1>. QED BY <1>2, <1>3, <1>4, <1>6

LEMMA SelectStep ==
  ASSUME IInv, PoolFacts, PoolFacts', Select
  PROVE  IInv'
<1>. USE DEF IInv
<1>1. PICK p \in Selectable : provider' = p /\ info' = IF wantsInfo THEN p ELSE info
  BY DEF Select
<1>2. /\ phase = "proxy" /\ phase' = "sent" /\ body' = "read"
      /\ UNCHANGED <<attemptCount, attempt, wantsInfo, rww, err, answers, outcome, reply, metric>>
  BY DEF Select, resultVars
<1>3. p \in Providers
  BY DEF PoolFacts, Pool!TypeOK, Selectable
<1>4. TypeOK'
  BY <1>1, <1>2, <1>3 DEF TypeOK, PoolFacts
<1>5. OutcomeAtEnd' /\ AttemptsCounted' /\ LoopLeft'
  BY <1>2 DEF OutcomeAtEnd, AttemptsCounted, LoopLeft, InAttempt
<1>6. WriterOfAttempt'
  BY <1>1, <1>2, <1>3 DEF WriterOfAttempt, InAttempt, Header
<1>7. outcome' = "none"
  BY <1>2 DEF OutcomeAtEnd
<1>8. ReplyFromLastAttempt' /\ RetriesJustified' /\ ForemostPreventsAbort'
  BY <1>2, <1>7 DEF ReplyFromLastAttempt, RetriesJustified, ForemostPreventsAbort
<1>. QED BY <1>4, <1>5, <1>6, <1>8

\* The end of an attempt, with the answer a.
LEMMA MetStep ==
  ASSUME IInv, PoolFacts', NEW a \in Seen, phase = "sent", Met(a), a.provider = provider,
         UNCHANGED <<attemptCount, wantsInfo, info, provider, outcome, reply, metric>>,
         body' \in {"whole", "read"},
         rww' \in [status : Statuses \cup {0}, body : Seq(Providers)],
         ~a.err => rww' = [status |-> a.status, body |-> <<provider>>]
  PROVE  IInv'
<1>. USE DEF IInv
<1>1. /\ answers \in Seq(Seen) /\ answers' = Append(answers, a) /\ err' = a.err
      /\ \/ Succeeded(a) /\ phase' = "finish" /\ attempt' = attempt
         \/ ~Succeeded(a) /\ phase' = "loop" /\ attempt' = attempt + 1
  BY DEF Met, Loop, TypeOK
<1>2. /\ Len(answers') = Len(answers) + 1 /\ answers' \in Seq(Seen) /\ answers' # <<>>
      /\ answers'[Len(answers')] = a
      /\ \A i \in 1..Len(answers) : answers'[i] = answers[i]
      /\ Len(answers) \in Nat
  BY <1>1
<1>3. /\ Len(answers) = attempt /\ attempt < attemptCount
      /\ \A i \in 1..Len(answers) : ~Succeeded(answers[i])
  BY DEF AttemptsCounted, InAttempt
<1>4. TypeOK'
  <2>1. attempt' = 0 \/ attempt' \in 1..attemptCount'
    BY <1>1, <1>2, <1>3 DEF TypeOK
  <2>. QED BY <1>1, <1>2, <2>1 DEF TypeOK, PoolFacts, Seen
<1>5. outcome' = "none"
  BY DEF OutcomeAtEnd
<1>6. OutcomeAtEnd' /\ LoopLeft'
  BY <1>1, <1>2, <1>5 DEF OutcomeAtEnd, LoopLeft, Last
<1>7. AttemptsCounted'
  BY <1>1, <1>2, <1>3 DEF AttemptsCounted, InAttempt
<1>8. WriterOfAttempt'
  BY <1>1, <1>2 DEF WriterOfAttempt, InAttempt, Last, Header
<1>9. RetriesJustified'
  <2>1. \A i \in 1..Len(answers') - 1 : ~Succeeded(answers'[i])
    BY <1>2, <1>3
  <2>2. Len(answers') <= attemptCount
    BY <1>2, <1>3 DEF TypeOK
  <2>. QED BY <1>1, <1>2, <2>1, <2>2 DEF RetriesJustified, Last
<1>10. ReplyFromLastAttempt' /\ ForemostPreventsAbort'
  BY <1>5 DEF ReplyFromLastAttempt, ForemostPreventsAbort
<1>. QED BY <1>4, <1>6, <1>7, <1>8, <1>9, <1>10

LEMMA AnswerStep ==
  ASSUME IInv, PoolFacts', Answer
  PROVE  IInv'
<1>1. PICK s \in Statuses : /\ rww' = [status |-> s, body |-> Append(rww.body, provider)]
                            /\ Met([provider |-> provider, err |-> FALSE, status |-> s])
  BY DEF Answer
<1>2. /\ phase = "sent"
      /\ UNCHANGED <<attemptCount, wantsInfo, body, info, provider, outcome, reply, metric>>
  BY DEF Answer, resultVars
<1>3. provider \in Providers /\ rww = Fresh
  BY <1>2 DEF IInv, WriterOfAttempt, InAttempt
<1>4. rww' = [status |-> s, body |-> <<provider>>]
  BY <1>1, <1>3 DEF Fresh
<1>. DEFINE a == [provider |-> provider, err |-> FALSE, status |-> s]
<1>5. /\ a \in Seen /\ a.provider = provider /\ ~a.err /\ a.status = s
      /\ rww' \in [status : Statuses \cup {0}, body : Seq(Providers)]
      /\ body' \in {"whole", "read"}
  BY <1>2, <1>3, <1>4 DEF Seen, IInv, TypeOK
<1>6. Met(a)
  BY <1>1
<1>. HIDE DEF a
<1>. QED BY <1>2, <1>4, <1>5, <1>6, MetStep

LEMMA FailStep ==
  ASSUME IInv, PoolFacts', Fail
  PROVE  IInv'
<1>. DEFINE a == [provider |-> provider, err |-> TRUE, status |-> 0]
<1>1. /\ phase = "sent" /\ Met(a)
      /\ UNCHANGED <<attemptCount, wantsInfo, body, rww, info, provider, outcome, reply, metric>>
  BY DEF Fail, resultVars
<1>2. provider \in Providers
  BY <1>1 DEF IInv, WriterOfAttempt
<1>3. /\ a \in Seen /\ a.provider = provider /\ a.err
      /\ rww' \in [status : Statuses \cup {0}, body : Seq(Providers)]
      /\ body' \in {"whole", "read"}
  BY <1>1, <1>2 DEF Seen, IInv, TypeOK
<1>. HIDE DEF a
<1>. QED BY <1>1, <1>3, MetStep

LEMMA EndLoopStep ==
  ASSUME IInv, PoolFacts', EndLoop
  PROVE  IInv'
<1>. USE DEF IInv
<1>1. /\ phase = "loop" /\ attempt >= attemptCount /\ phase' = "finish"
      /\ UNCHANGED <<attemptCount, attempt, wantsInfo, body, rww, err, info, provider, answers,
                     outcome, reply, metric>>
  BY DEF EndLoop, requestVars, resultVars
<1>2. TypeOK'
  BY <1>1 DEF TypeOK, PoolFacts
<1>3. Len(answers) = attempt /\ Len(answers) \in Nat /\ attemptCount \in Int
  BY <1>1 DEF AttemptsCounted, TypeOK
<1>4. OutcomeAtEnd' /\ AttemptsCounted' /\ LoopLeft' /\ WriterOfAttempt'
  BY <1>1, <1>3 DEF OutcomeAtEnd, AttemptsCounted, LoopLeft, WriterOfAttempt, InAttempt, Last, Header
<1>5. RetriesJustified'
  BY <1>1, <1>3 DEF RetriesJustified, Last
<1>6. ReplyFromLastAttempt' /\ ForemostPreventsAbort'
  BY <1>1 DEF OutcomeAtEnd, ReplyFromLastAttempt, ForemostPreventsAbort
<1>. QED BY <1>2, <1>4, <1>5, <1>6

\* The end of a request that is not aborted.
LEMMA FinishStep ==
  ASSUME IInv, PoolFacts', ReturnError \/ Reply \/ ReplyLost
  PROVE  IInv'
<1>. USE DEF IInv
<1>1. /\ phase = "finish" /\ phase' = "idle" /\ outcome' \in {"failed", "replied"}
      /\ UNCHANGED <<attemptCount, attempt, wantsInfo, body, rww, err, info, provider, answers>>
  BY DEF ReturnError, Reply, ReplyLost, requestVars
<1>2. metric' \in {metric, NoMetric, [provider |-> provider, status |-> rww.status]}
  BY DEF ReturnError, Reply, ReplyLost
<1>3. TypeOK'
  <2>1. metric' \in [provider : Providers \cup {NoProvider}, status : Statuses \cup {0}]
    BY <1>2 DEF TypeOK, NoMetric
  <2>. QED BY <1>1, <2>1 DEF TypeOK, PoolFacts
<1>4. OutcomeAtEnd' /\ AttemptsCounted' /\ LoopLeft' /\ WriterOfAttempt'
  BY <1>1 DEF OutcomeAtEnd, AttemptsCounted, LoopLeft, WriterOfAttempt, InAttempt
<1>5. RetriesJustified'
  BY <1>1 DEF RetriesJustified
<1>6. ReplyFromLastAttempt'
  <2>. SUFFICES ASSUME Reply
                PROVE  ReplyFromLastAttempt'
    BY <1>1 DEF ReturnError, ReplyLost, ReplyFromLastAttempt
  <2>1. /\ ~err /\ provider # NoProvider /\ reply' = [status |-> rww.status, body |-> rww.body, info |-> info]
        /\ metric' \in {NoMetric, [provider |-> provider, status |-> rww.status]}
    BY DEF Reply, Written
  <2>2. /\ answers # <<>> /\ provider = Last.provider
        /\ rww = [status |-> Last.status, body |-> <<provider>>] /\ info = Header
    BY <1>1, <2>1 DEF WriterOfAttempt
  <2>3. Last' = Last /\ wantsInfo' = wantsInfo /\ answers' = answers
    BY <1>1 DEF Last
  <2>. QED BY <2>1, <2>2, <2>3 DEF ReplyFromLastAttempt, Header
<1>7. ForemostPreventsAbort'
  BY <1>1 DEF ForemostPreventsAbort
<1>. QED BY <1>3, <1>4, <1>5, <1>6, <1>7

LEMMA AbortStep ==
  ASSUME IInv, PoolFacts, PoolFacts', SelectNone \/ NothingTried
  PROVE  IInv'
<1>. USE DEF IInv
<1>1. /\ phase \in {"proxy", "finish"} /\ phase' = "idle" /\ outcome' = "aborted"
      /\ UNCHANGED <<past, Priority, attemptCount, attempt, wantsInfo, body, rww, err, info, provider,
                     answers, reply, metric>>
  BY DEF SelectNone, NothingTried, Abort, poolVars, requestVars
<1>2. TypeOK'
  BY <1>1 DEF TypeOK, PoolFacts
<1>3. OutcomeAtEnd' /\ AttemptsCounted' /\ LoopLeft' /\ WriterOfAttempt'
  BY <1>1 DEF OutcomeAtEnd, AttemptsCounted, LoopLeft, WriterOfAttempt, InAttempt
<1>4. RetriesJustified' /\ ReplyFromLastAttempt'
  BY <1>1 DEF RetriesJustified, ReplyFromLastAttempt
<1>5. (attemptCount > 0) => \A p \in Providers : ~ForemostSteady(p)
  <2>1. CASE SelectNone
    BY <2>1 DEF SelectNone, PoolFacts
  <2>2. CASE NothingTried
    <3>1. phase = "finish" /\ ~err /\ provider = NoProvider
      BY <2>2 DEF NothingTried
    <3>2. answers = <<>>
      <4>1. answers # <<>> => Last \in Seen
        BY DEF TypeOK, Last
      <4>. QED BY <3>1, <4>1, RequestAssumption DEF WriterOfAttempt, Seen
    <3>3. attemptCount \in Int /\ 0 >= attemptCount
      BY <3>1, <3>2 DEF LoopLeft, TypeOK
    <3>. QED BY <3>3
  <2>. QED BY <2>1, <2>2
<1>6. ForemostPreventsAbort'
  BY <1>1, <1>5 DEF ForemostPreventsAbort, ForemostSteady, Pool!InRange, Pool!Steady
<1>. QED BY <1>2, <1>3, <1>4, <1>6
----------------------------------------------------------------------------
(* The theorems.                                                           *)

LEMMA NextInvariant ==
  ASSUME IInv, PoolFacts, PoolFacts', [Next]_vars
  PROVE  IInv'
<1>1. CASE UNCHANGED vars
  <2>1. /\ UNCHANGED <<past, Priority, attemptCount, phase, attempt, wantsInfo, body, rww, err, info,
                       provider, outcome, reply, metric, answers>>
    BY <1>1 DEF vars, poolVars, requestVars, resultVars
  <2>2. TypeOK'
    BY <2>1 DEF IInv, TypeOK, PoolFacts
  <2>. QED
    BY <2>1, <2>2
    DEF IInv, OutcomeAtEnd, AttemptsCounted, LoopLeft, WriterOfAttempt, InAttempt, Last, Header,
        ReplyFromLastAttempt, RetriesJustified, ForemostPreventsAbort, Pool!InRange, Pool!Steady
<1>. QED
  BY <1>1, PoolOnlyStep, RejectStep, AcceptStep, AttemptStep, SelectStep, AnswerStep, FailStep,
     EndLoopStep, FinishStep, AbortStep
  DEF Next

\* IInv, and with it all that follows, holds in every state a request reaches.
THEOREM Inductive == Spec => []IInv
<1>1. Spec => []PoolFacts
  BY PoolImplemented, PoolKnown, PTL
<1>2. PoolFacts /\ Init => IInv
  BY InitInvariant
<1>3. PoolFacts /\ PoolFacts' /\ IInv /\ [Next]_vars => IInv'
  BY NextInvariant
<1>. QED BY <1>1, <1>2, <1>3, PTL DEF Spec

\* The types of the variables; the loop variable stays between zero and the count
\* of attempts, a negative count included (din_middleware.go:160).
THEOREM TypeCorrect == Spec => []TypeOK
<1>1. IInv => TypeOK
  BY DEF IInv
<1>. QED BY <1>1, Inductive, PTL

\* The client and the metric are given the last attempt, and nothing that an
\* attempt before it left behind (din_middleware.go:161-193).
THEOREM LastAttemptReplied == Spec => []ReplyFromLastAttempt
<1>1. IInv => ReplyFromLastAttempt
  BY DEF IInv
<1>. QED BY <1>1, Inductive, PTL

\* However many attempts are configured, each but the first follows a failure, and
\* the loop ends with a success or with all of them used (din_middleware.go:160-184).
THEOREM NeedlessRetriesNever == Spec => []RetriesJustified
<1>1. IInv => RetriesJustified
  BY DEF IInv
<1>. QED BY <1>1, Inductive, PTL

\* A provider nobody outranks that stays Healthy and up spares every request the
\* abort of an empty selection (din_upstreams.go:43-52, din_select.go).
THEOREM ForemostSparesRequests == Spec => []ForemostPreventsAbort
<1>1. IInv => ForemostPreventsAbort
  BY DEF IInv
<1>. QED BY <1>1, Inductive, PTL

\* A request, whatever it does between its attempts, implements Upstreams: the calls
\* of GetUpstreams in it are calls as Upstreams has them, among the same changes
\* (din_middleware.go:160-172, din_upstreams.go:22-70).
THEOREM ImplementsUpstreams == Spec => Pool!Spec
<1>1. Init => Pool!Init
  BY DEF Init
<1>2. [Next]_vars => [Pool!Next]_(Pool!vars)
  <2>. SUFFICES ASSUME [Next]_vars PROVE [Pool!Next]_(Pool!vars)
    OBVIOUS
  <2>1. CASE StatusChange
    BY <2>1 DEF StatusChange, Pool!Next
  <2>2. CASE Attempt
    BY <2>2 DEF Attempt, Pool!Next
  <2>3. CASE GetUpstreams
    BY <2>3 DEF GetUpstreams, Pool!Next
  <2>4. CASE UNCHANGED poolVars
    BY <2>4 DEF poolVars, Pool!vars, Pool!envVars, Pool!loopVars
  <2>. QED
    BY <2>1, <2>2, <2>3, <2>4
    DEF Next, vars, Reject, Accept, Select, SelectNone, Abort, Answer, Fail, EndLoop,
        ReturnError, Reply, ReplyLost, NothingTried
<1>. QED BY <1>1, <1>2, PTL DEF Spec, Pool!Spec

\* No attempt is sent with a request body that an earlier one has read
\* (din_middleware.go:163-169).
THEOREM EveryAttemptWhole == Spec => WholeBodySent
<1>1. IInv /\ [Next]_vars => [Select => body = "whole"]_vars
  BY DEF IInv, WriterOfAttempt, Select
<1>. QED BY <1>1, Inductive, PTL DEF Spec, WholeBodySent
=============================================================================
