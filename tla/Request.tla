------------------------------ MODULE Request ------------------------------
(***************************************************************************)
(* One request of a client: ServeHTTP of the middleware                    *)
(* (modules/din_middleware.go) with the writer it buffers each attempt in  *)
(* (modules/response_writer_wrapper.go) and the choice of an upstream      *)
(* (modules/din_select.go).  An attempt runs GetUpstreams, whose steps and *)
(* whose environment are those of Upstreams; then Caddy calls Select and   *)
(* proxies the request.  Requests share nothing but the statuses of the    *)
(* providers, so one request at a time among status changes is general.    *)
(*                                                                         *)
(* A definition marked "Mutant" is a plausible slip in the definition that *)
(* follows it; it takes part in no behaviour.                              *)
(***************************************************************************)
EXTENDS Integers, Sequences, FiniteSets

CONSTANTS
  Providers, Priorities, MaxChanges,   \* as in Upstreams
  AttemptCounts,                       \* the values of request_attempt_count
  NoProvider                           \* stands for "no provider"

ASSUME RequestAssumption ==
  /\ IsFiniteSet(Providers) /\ Providers # {}
  /\ Priorities \subseteq Int
  /\ MaxChanges \in Nat
  /\ AttemptCounts \subseteq Int
  /\ NoProvider \notin Providers

VARIABLES
  \* those of Upstreams
  Priority, healthStatus, up, pass, priority, todo, candidate, upstreamPool, past, changes,
  attemptCount,   \* network.RequestAttemptCount, set once by the configuration
  phase,          \* where ServeHTTP is
  attempt,        \* its loop variable
  wantsInfo,      \* whether the request has a din-provider-info header
  body,           \* the request body: "whole", or "read" by an attempt
  rww,            \* the buffered response of the attempt
  err,            \* whether the last attempt returned an error
  info,           \* the din-provider-info header of the response
  provider,       \* RequestProviderKey of the request's replacer
  outcome,        \* how the request ended
  reply,          \* what the client was sent
  metric,         \* what HandleRequestMetrics was told
  answers         \* history variable: what the attempts of this request met

Pool == INSTANCE Upstreams

poolVars    == <<Priority, healthStatus, up, pass, priority, todo, candidate, upstreamPool,
                 past, changes>>
requestVars == <<attempt, wantsInfo, body, rww, err, info, provider, answers>>
resultVars  == <<outcome, reply, metric>>
vars == <<poolVars, attemptCount, phase, requestVars, resultVars>>

Fresh    == [status |-> 0, body |-> <<>>]
NoReply  == [status |-> 0, body |-> <<>>, info |-> NoProvider]
NoMetric == [provider |-> NoProvider, status |-> 0]

\* The statuses stand for success, and for any other answer.
OK == 200
Statuses == {OK, 500}
----------------------------------------------------------------------------
Init ==
  /\ Pool!Init
  /\ attemptCount \in AttemptCounts
  /\ phase = "idle"
  /\ attempt = 0
  /\ wantsInfo = FALSE
  /\ body = "whole"
  /\ rww = Fresh
  /\ err = FALSE
  /\ info = NoProvider
  /\ provider = NoProvider
  /\ outcome = "none"
  /\ reply = NoReply
  /\ metric = NoMetric
  /\ answers = <<>>

\* Caddy and the health checks change what GetUpstreams and Select will see.
StatusChange ==
  /\ \E p \in Providers : Pool!Toggle(p) \/ \E s \in Pool!HealthStatus : Pool!Mark(p, s)
  /\ UNCHANGED <<attemptCount, phase, requestVars, resultVars>>
----------------------------------------------------------------------------
(* ServeHTTP before its loop.                                              *)

\* The root path, an unknown network, a body too large or unreadable: answered
\* at once.
Reject ==
  /\ phase = "idle"
  /\ \E status \in {200, 404, 413} : reply' = [NoReply EXCEPT !.status = status]
  /\ outcome' = "rejected"
  /\ metric' = NoMetric
  /\ answers' = <<>>
  /\ UNCHANGED <<poolVars, attemptCount, phase, attempt, wantsInfo, body, rww, err, info, provider>>

Accept ==
  /\ phase = "idle"
  /\ phase' = "loop"
  /\ attempt' = 0
  /\ wantsInfo' \in BOOLEAN
  /\ body' = "whole"
  /\ rww' = Fresh
  /\ err' = FALSE
  /\ info' = NoProvider
  /\ provider' = NoProvider
  /\ outcome' = "none"
  /\ reply' = NoReply
  /\ metric' = NoMetric
  /\ answers' = <<>>
  /\ UNCHANGED <<poolVars, attemptCount>>
----------------------------------------------------------------------------
(* The loop.                                                               *)

\* Mutant: the writer is made before the loop and serves all attempts.
AttemptOldWriter ==
  /\ phase = "loop"
  /\ attempt < attemptCount
  /\ phase' = "proxy"
  /\ body' = "whole"
  /\ Pool!Call
  /\ UNCHANGED <<attemptCount, attempt, wantsInfo, rww, err, info, provider, answers, resultVars>>

\* Mutant: the request body is not put back for a retry.
AttemptOldBody ==
  /\ phase = "loop"
  /\ attempt < attemptCount
  /\ phase' = "proxy"
  /\ rww' = Fresh
  /\ info' = NoProvider
  /\ Pool!Call
  /\ UNCHANGED <<attemptCount, attempt, wantsInfo, body, err, provider, answers, resultVars>>

\* Mutant: one attempt too many.
AttemptOneMore ==
  /\ phase = "loop"
  /\ attempt <= attemptCount
  /\ phase' = "proxy"
  /\ rww' = Fresh
  /\ info' = NoProvider
  /\ body' = "whole"
  /\ Pool!Call
  /\ UNCHANGED <<attemptCount, attempt, wantsInfo, err, provider, answers, resultVars>>

\* A new writer, which also clears the header of the response; the whole request
\* body; then the reverse proxy, which asks for the upstreams first.
Attempt ==
  /\ phase = "loop"
  /\ attempt < attemptCount
  /\ phase' = "proxy"
  /\ rww' = Fresh
  /\ info' = NoProvider
  /\ body' = "whole"
  /\ Pool!Call
  /\ UNCHANGED <<attemptCount, attempt, wantsInfo, err, provider, answers, resultVars>>

GetUpstreams ==
  /\ phase = "proxy"
  /\ \/ \E p \in Providers : Pool!Visit(p) \/ Pool!Test(p)
     \/ Pool!NextPriority
     \/ Pool!NextPass
     \/ Pool!Return
  /\ UNCHANGED <<attemptCount, phase, requestVars, resultVars>>

\* What the selector of Caddy picks from: the upstreams of the pool that are
\* available at this moment.
Selectable == {p \in upstreamPool : up[p]}

Select ==
  /\ phase = "proxy"
  /\ pass = "done"
  /\ \E p \in Selectable :
       /\ provider' = p
       /\ info' = IF wantsInfo THEN p ELSE info
  /\ phase' = "sent"
  /\ body' = "read"
  /\ UNCHANGED <<poolVars, attemptCount, attempt, wantsInfo, rww, err, answers, resultVars>>

\* A panic in a handler is recovered by the server, which drops the connection.
Abort ==
  /\ phase' = "idle"
  /\ outcome' = "aborted"
  /\ UNCHANGED <<poolVars, attemptCount, requestVars, reply, metric>>

\* The selector returns nil and the debug line dereferences it.
SelectNone ==
  /\ phase = "proxy"
  /\ pass = "done"
  /\ Selectable = {}
  /\ Abort

Succeeded(a) == ~a.err /\ a.status = OK

\* Mutant: any answer without an error ends the loop.
LoopOnError(a) ==
  IF ~a.err THEN phase' = "finish" /\ UNCHANGED attempt
            ELSE phase' = "loop" /\ attempt' = attempt + 1

Loop(a) ==
  IF Succeeded(a) THEN phase' = "finish" /\ UNCHANGED attempt
                  ELSE phase' = "loop" /\ attempt' = attempt + 1

Met(a) == /\ answers' = Append(answers, a)
          /\ err' = a.err
          /\ Loop(a)

\* The upstream answers, and the proxy writes the answer into the wrapper.
Answer ==
  /\ phase = "sent"
  /\ \E s \in Statuses :
       /\ rww' = [status |-> s, body |-> Append(rww.body, provider)]
       /\ Met([provider |-> provider, err |-> FALSE, status |-> s])
  /\ UNCHANGED <<poolVars, attemptCount, wantsInfo, body, info, provider, resultVars>>

\* The upstream cannot be reached or does not answer: an error, nothing written.
Fail ==
  /\ phase = "sent"
  /\ Met([provider |-> provider, err |-> TRUE, status |-> 0])
  /\ UNCHANGED <<poolVars, attemptCount, wantsInfo, body, rww, info, provider, resultVars>>

EndLoop ==
  /\ phase = "loop"
  /\ attempt >= attemptCount
  /\ phase' = "finish"
  /\ UNCHANGED <<poolVars, attemptCount, requestVars, resultVars>>
----------------------------------------------------------------------------
(* ServeHTTP after its loop.                                               *)

\* The error of the last attempt goes to Caddy, which answers the client.
ReturnError ==
  /\ phase = "finish"
  /\ err
  /\ phase' = "idle"
  /\ outcome' = "failed"
  /\ UNCHANGED <<poolVars, attemptCount, requestVars, reply, metric>>

Written == [status |-> rww.status, body |-> rww.body, info |-> info]

\* The buffered answer goes to the client, and unless the request body was empty
\* the metric is counted.
Reply ==
  /\ phase = "finish"
  /\ ~err
  /\ provider # NoProvider
  /\ phase' = "idle"
  /\ reply' = Written
  /\ outcome' = "replied"
  /\ metric' \in {NoMetric, [provider |-> provider, status |-> rww.status]}
  /\ UNCHANGED <<poolVars, attemptCount, requestVars>>

\* Writing the body to the client fails.
ReplyLost ==
  /\ phase = "finish"
  /\ ~err
  /\ provider # NoProvider
  /\ phase' = "idle"
  /\ reply' = Written
  /\ outcome' = "failed"
  /\ UNCHANGED <<poolVars, attemptCount, requestVars, metric>>

\* Without an attempt there is no provider to look up.
NothingTried ==
  /\ phase = "finish"
  /\ ~err
  /\ provider = NoProvider
  /\ Abort
----------------------------------------------------------------------------
Next ==
  \/ StatusChange
  \/ Reject
  \/ Accept
  \/ Attempt
  \/ GetUpstreams
  \/ Select
  \/ SelectNone
  \/ Answer
  \/ Fail
  \/ EndLoop
  \/ ReturnError
  \/ Reply
  \/ ReplyLost
  \/ NothingTried

Spec == Init /\ [][Next]_vars

\* The server runs the goroutine of the request.
Proceed == \/ Attempt \/ GetUpstreams \/ Select \/ SelectNone
           \/ EndLoop \/ ReturnError \/ Reply \/ ReplyLost \/ NothingTried

\* An assumption that nothing here ensures: every proxied exchange ends, with an answer
\* or an error.  ServeHTTP sets no deadline (din_middleware.go:177), and the transport
\* of the Caddyfile no response timeout, which Caddy has none of by default.
AnswersReturn == WF_vars(Answer \/ Fail)

LiveSpec == Spec /\ WF_vars(Proceed) /\ AnswersReturn
----------------------------------------------------------------------------
(* Invariants.                                                             *)

Seen == [provider : Providers, err : BOOLEAN, status : Statuses \cup {0}]

TypeOK ==
  /\ Pool!TypeOK
  /\ attemptCount \in Int
  /\ phase \in {"idle", "loop", "proxy", "sent", "finish"}
  /\ attempt = 0 \/ attempt \in 1..attemptCount
  /\ wantsInfo \in BOOLEAN
  /\ body \in {"whole", "read"}
  /\ rww \in [status : Statuses \cup {0}, body : Seq(Providers)]
  /\ err \in BOOLEAN
  /\ info \in Providers \cup {NoProvider}
  /\ provider \in Providers \cup {NoProvider}
  /\ outcome \in {"none", "rejected", "replied", "failed", "aborted"}
  /\ metric \in [provider : Providers \cup {NoProvider}, status : Statuses \cup {0}]
  /\ answers \in Seq(Seen)

Last == answers[Len(answers)]

\* What the client is sent, header included, and what the metric counts are all
\* of the last attempt: nothing an earlier one wrote shows through, although all
\* attempts share the client's header map and the request's replacer
\* (din_middleware.go:161-193, response_writer_wrapper.go:14-24).
ReplyFromLastAttempt ==
  outcome = "replied" =>
    /\ answers # <<>>
    /\ reply = [status |-> Last.status, body |-> <<Last.provider>>,
                info |-> IF wantsInfo THEN Last.provider ELSE NoProvider]
    /\ metric \in {NoMetric, [provider |-> Last.provider, status |-> Last.status]}

\* A request is sent again only after a failure, and given up only after as many
\* attempts as are configured (din_middleware.go:160-184).
RetriesJustified ==
  /\ \A i \in 1..Len(answers) - 1 : ~Succeeded(answers[i])
  /\ Len(answers) <= attemptCount \/ answers = <<>>
  /\ (phase = "finish" /\ answers # <<>>) => Succeeded(Last) \/ Len(answers) = attemptCount

\* A request is not aborted while a provider is there that no configured one
\* outranks and that stays Healthy and up during the attempt: GetUpstreams puts
\* it into the pool and Select, later, still finds it there.  (A provider of a
\* lower rank does not help: the pool may hold only better ones that go down
\* before Select.)
ForemostPreventsAbort ==
  outcome = "aborted" /\ attemptCount > 0 =>
    ~ \E p \in Providers :
        /\ Pool!Steady(p, "Healthy")
        /\ Pool!InRange(p)
        /\ \A q \in Providers : Pool!InRange(q) => Priority[p] <= Priority[q]
----------------------------------------------------------------------------
(* An action property and a liveness property.                             *)

\* Every attempt, the first and each retry, goes out with the whole request body,
\* whatever the attempts before it have read (din_middleware.go:163-169).
WholeBodySent == [][Select => body = "whole"]_vars

\* Every request ends, answered, failed or aborted, if every exchange with an upstream
\* does (AnswersReturn): neither the retries nor the two passes of GetUpstreams go on
\* for ever, whatever the status changes meanwhile (din_middleware.go:160-184).
RequestEnds == phase # "idle" ~> phase = "idle"
=============================================================================
