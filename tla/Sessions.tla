------------------------------ MODULE Sessions ------------------------------
(***************************************************************************)
(* The sessions of one provider's auth client (lib/auth/siwe/client.go)    *)
(* and the tokens they consist of (lib/auth/interface.go).  Start fetches  *)
(* a token per session; a goroutine per session renews it shortly before   *)
(* it expires, or later if that fails; requests are signed with a token    *)
(* meanwhile.  SessionTokens is read and written without a lock: a token   *)
(* is a struct, its fields are stored one by one in any order, and a       *)
(* signer may copy it in between.                                          *)
(*                                                                         *)
(* GetToken looks neither at the HTTP status nor at what the answer lacks: *)
(* any JSON object without an error is a token, if an empty one, and a     *)
(* token comes along with an error, too.                                   *)
(*                                                                         *)
(* Time is counted in units of the renewal margin's order; what is left of *)
(* a lifetime or of a timer is kept, not the clock.  A definition marked   *)
(* "Mutant" is a plausible slip in the definition that follows it; it      *)
(* takes part in no behaviour.                                             *)
(***************************************************************************)
EXTENDS Integers, FiniteSets

CONSTANTS
  SessionCount,  \* c.SessionCount
  Signers,       \* goroutines that sign requests
  Grants,        \* what an answer holds: [headers, exp, uses], each may be NoValue
  NoValue,       \* a nil pointer or map
  Margin,        \* how long before the expiration a session is renewed (5 s)
  StartRetry,    \* the delay after a failure in Start (15 s, less the margin)
  Retry,         \* the delay after a failed renewal (1 min, less the margin)
  Tries          \* how often Sign tries again (10)

Sessions == 0..SessionCount - 1

ASSUME SessionsAssumption ==
  /\ SessionCount \in Nat \ {0}
  /\ IsFiniteSet(Signers)
  /\ NoValue \notin Int
  /\ {Margin, StartRetry, Retry, Tries} \subseteq Nat
  /\ \A g \in Grants : /\ g.exp = NoValue \/ (g.exp \in Nat /\ g.exp >= Margin)
                       /\ g.uses = NoValue \/ g.uses \in Nat

VARIABLES
  SessionTokens,  \* c.SessionTokens
  starting,       \* the session Start is at; SessionCount when it has returned
  step,           \* where the renewal goroutine of a session is, if there is one
  due,            \* what is left of its timer
  fetched,        \* the token GetToken returned to it
  failed,         \* whether an error came with it
  unstored,       \* the fields of it that are not in SessionTokens yet
  counters,       \* the counters Uses points to
  pc, index, at, tries,  \* Sign: its place and its variables
  refused,        \* history variable: the last GetToken of a session failed
  bare,           \* history variable: some GetToken of a session returned no headers
  overdue         \* history variable: how long a renewal is overdue

renewVars  == <<step, due, fetched, failed, unstored>>
signVars   == <<pc, index, at, tries>>
ghostVars  == <<refused, bare, overdue>>
vars == <<SessionTokens, starting, renewVars, counters, signVars, ghostVars>>
----------------------------------------------------------------------------
(* Tokens.                                                                 *)

Fields == {"headers", "exp", "uses"}

Empty == [headers |-> NoValue, exp |-> NoValue, uses |-> NoValue]

\* Counters live as long as a token points to them; one is always free for GetToken.
Counters == 1..2 * SessionCount + Cardinality(Signers)

Unused == [granted |-> 0, left |-> 0, used |-> 0]

Pointed == {SessionTokens[i].uses : i \in Sessions} \cup {fetched[i].uses : i \in Sessions}
             \cup {at[s].uses : s \in Signers}

Free == CHOOSE c \in Counters : c \notin Pointed

Token(g) == [headers |-> g.headers, exp |-> g.exp,
             uses |-> IF g.uses = NoValue THEN NoValue ELSE Free]

\* The counter of a token just fetched.
Count(g) ==
  counters' = [c \in Counters |->
                 IF c = Free /\ g.uses # NoValue
                 THEN [granted |-> g.uses, left |-> g.uses, used |-> 0]
                 ELSE IF c \in Pointed THEN counters[c] ELSE Unused]

Expired(t) == t.exp # NoValue /\ t.exp < 0
Exhausted(t) == t.uses # NoValue /\ counters[t.uses].left = 0

\* Peek finds nothing wrong with the token.
Peek(t) == ~Exhausted(t) /\ ~Expired(t)
----------------------------------------------------------------------------
Init ==
  /\ SessionTokens = [i \in Sessions |-> Empty]
  /\ starting = 0
  /\ step = [i \in Sessions |-> "none"]
  /\ due = [i \in Sessions |-> 0]
  /\ fetched = [i \in Sessions |-> Empty]
  /\ failed = [i \in Sessions |-> FALSE]
  /\ unstored = [i \in Sessions |-> {}]
  /\ counters = [c \in Counters |-> Unused]
  /\ pc = [s \in Signers |-> "idle"]
  /\ index = [s \in Signers |-> 0]
  /\ at = [s \in Signers |-> Empty]
  /\ tries = [s \in Signers |-> 0]
  /\ refused = [i \in Sessions |-> FALSE]
  /\ bare = [i \in Sessions |-> FALSE]
  /\ overdue = [i \in Sessions |-> 0]

\* Mutant: the margin is forgotten.
TimerNoMargin(d) == IF d > 0 THEN d ELSE 0

\* The timer of Renew; it fires at once if that is due already.
Timer(d) == IF d > Margin THEN d - Margin ELSE 0

Renew(i, d) == /\ step' = [step EXCEPT ![i] = "timer"]
               /\ due' = [due EXCEPT ![i] = Timer(d)]
----------------------------------------------------------------------------
(* Start, one session after the other.  Nobody signs before it returns.    *)

\* What an answer that is refused, or does not come, may leave in the token.
Remains == Grants \cup {Empty}

Noted(i, g) == bare' = [bare EXCEPT ![i] = @ \/ g.headers = NoValue]

StartGranted(g) ==
  /\ starting < SessionCount
  /\ SessionTokens' = [SessionTokens EXCEPT ![starting] = Token(g)]
  /\ Count(g)
  /\ IF g.exp # NoValue THEN Renew(starting, g.exp) ELSE UNCHANGED <<step, due>>
  /\ starting' = starting + 1
  /\ Noted(starting, g)
  /\ UNCHANGED <<fetched, failed, unstored, signVars, refused, overdue>>

\* The session gets what there is as a token that has expired already, and is
\* renewed soon.
StartRefused(g) ==
  /\ starting < SessionCount
  /\ SessionTokens' = [SessionTokens EXCEPT ![starting] = [Token(g) EXCEPT !.exp = -1]]
  /\ Count(g)
  /\ Renew(starting, StartRetry)
  /\ starting' = starting + 1
  /\ refused' = [refused EXCEPT ![starting] = TRUE]
  /\ Noted(starting, g)
  /\ UNCHANGED <<fetched, failed, unstored, signVars, overdue>>
----------------------------------------------------------------------------
(* The goroutine of Renew.                                                 *)

Fire(i) ==
  /\ step[i] = "timer"
  /\ due[i] = 0
  /\ step' = [step EXCEPT ![i] = "post"]
  /\ UNCHANGED <<SessionTokens, starting, due, fetched, failed, unstored, counters, signVars, ghostVars>>

Returned(i, g, err) ==
  /\ step[i] = "post"
  /\ step' = [step EXCEPT ![i] = "store"]
  /\ fetched' = [fetched EXCEPT ![i] = Token(g)]
  /\ failed' = [failed EXCEPT ![i] = err]
  /\ unstored' = [unstored EXCEPT ![i] = Fields]
  /\ Count(g)
  /\ Noted(i, g)
  /\ UNCHANGED <<SessionTokens, starting, due, signVars, overdue>>

Granted(i, g) == Returned(i, g, FALSE) /\ UNCHANGED refused

\* GetToken returns an error, beside a token that is empty or not.
Refused(i, g) == Returned(i, g, TRUE) /\ refused' = [refused EXCEPT ![i] = TRUE]

\* The assignment to SessionTokens[i], done before the error is looked at.
Store(i) ==
  /\ step[i] = "store"
  /\ \E f \in unstored[i] :
       /\ SessionTokens' = [SessionTokens EXCEPT ![i][f] = fetched[i][f]]
       /\ unstored' = [unstored EXCEPT ![i] = @ \ {f}]
  /\ UNCHANGED <<starting, step, due, fetched, failed, counters, signVars, ghostVars>>

Stored(i) == /\ step[i] = "store"
             /\ unstored[i] = {}
             /\ fetched' = [fetched EXCEPT ![i] = Empty]
             /\ failed' = [failed EXCEPT ![i] = FALSE]
             /\ refused' = [refused EXCEPT ![i] = failed[i]]
             /\ overdue' = [overdue EXCEPT ![i] = 0]
             /\ UNCHANGED <<SessionTokens, starting, unstored, counters, signVars, bare>>

\* Mutant: a failed renewal returns without another try.
ConcludeGivingUp(i) ==
  /\ Stored(i)
  /\ IF SessionTokens[i].exp # NoValue
     THEN Renew(i, SessionTokens[i].exp)
     ELSE step' = [step EXCEPT ![i] = "none"] /\ UNCHANGED due

\* Mutant: only a failed renewal is followed by another.
ConcludeOnSuccess(i) ==
  /\ Stored(i)
  /\ IF failed[i] THEN Renew(i, Retry)
     ELSE step' = [step EXCEPT ![i] = "none"] /\ UNCHANGED due

\* What comes after it: another try, the next renewal, or nothing.
Conclude(i) ==
  /\ Stored(i)
  /\ IF failed[i] THEN Renew(i, Retry)
     ELSE IF SessionTokens[i].exp # NoValue
     THEN Renew(i, SessionTokens[i].exp)
     ELSE step' = [step EXCEPT ![i] = "none"] /\ UNCHANGED due
----------------------------------------------------------------------------
(* Sign.                                                                   *)

\* Mutant: requests are served while Start is still fetching tokens.
SelectUnstarted(s) ==
  /\ pc[s] = "idle"
  /\ \E i \in Sessions : /\ index' = [index EXCEPT ![s] = i]
                         /\ at' = [at EXCEPT ![s] = SessionTokens[i]]
  /\ pc' = [pc EXCEPT ![s] = "use"]
  /\ tries' = [tries EXCEPT ![s] = 0]
  /\ UNCHANGED <<SessionTokens, starting, renewVars, counters, ghostVars>>

\* The session header of the request picks the session, session 0 without one;
\* the signer copies its token.
selectAuthToken(s) ==
  /\ pc[s] = "idle"
  /\ starting = SessionCount
  /\ \E i \in Sessions : /\ index' = [index EXCEPT ![s] = i]
                         /\ at' = [at EXCEPT ![s] = SessionTokens[i]]
  /\ pc' = [pc EXCEPT ![s] = "use"]
  /\ tries' = [tries EXCEPT ![s] = 0]
  /\ UNCHANGED <<SessionTokens, starting, renewVars, counters, ghostVars>>

\* Mutant: Use only peeks.
PeekAtCounter(t) ==
  counters' = IF t.uses = NoValue THEN counters
              ELSE [counters EXCEPT ![t.uses].used = IF Peek(t) THEN @ + 1 ELSE @]

\* The atomic decrement of Use (zero stands for what is below it, too),
\* and in used the requests it lets through.
Decrement(t) ==
  counters' = IF t.uses = NoValue THEN counters
              ELSE [counters EXCEPT ![t.uses].left = IF @ = 0 THEN 0 ELSE @ - 1,
                                    ![t.uses].used = IF Peek(t) THEN @ + 1 ELSE @]

SignDone(s) == /\ pc' = [pc EXCEPT ![s] = "idle"]
                    /\ at' = [at EXCEPT ![s] = Empty]
                    /\ index' = [index EXCEPT ![s] = 0]
                    /\ tries' = [tries EXCEPT ![s] = 0]

\* Sign adds the headers of the token, if it has any, and returns no error.
UseGranted(s) ==
  /\ pc[s] = "use"
  /\ Peek(at[s])
  /\ Decrement(at[s])
  /\ SignDone(s)
  /\ UNCHANGED <<SessionTokens, starting, renewVars, ghostVars>>

\* Mutant: one more try than allowed.
OutOfTriesLate(s) == tries[s] > Tries

OutOfTries(s) == tries[s] = Tries

UseRefused(s) ==
  /\ pc[s] = "use"
  /\ ~Peek(at[s])
  /\ Decrement(at[s])
  /\ IF OutOfTries(s) THEN SignDone(s)
     ELSE /\ tries' = [tries EXCEPT ![s] = @ + 1]
          /\ at' = [at EXCEPT ![s] = SessionTokens[index[s]]]
          /\ UNCHANGED <<pc, index>>
  /\ UNCHANGED <<SessionTokens, starting, renewVars, ghostVars>>
----------------------------------------------------------------------------
(* Time.  A token is fetched in any time, and one that has been fetched is *)
(* stored within the second, as the loop of Sign ends within the second.   *)

Aged(t) == [t EXCEPT !.exp = IF @ = NoValue \/ @ < 0 THEN @ ELSE @ - 1]

Late(i) == step[i] = "post" \/ (step[i] = "timer" /\ due[i] = 0)

Tick ==
  /\ \A i \in Sessions : step[i] # "store"
  /\ \A s \in Signers : pc[s] # "use"
  /\ SessionTokens' = [i \in Sessions |-> Aged(SessionTokens[i])]
  /\ due' = [i \in Sessions |-> IF due[i] > 0 THEN due[i] - 1 ELSE 0]
  /\ overdue' = [i \in Sessions |-> IF Late(i) /\ overdue[i] <= Margin
                                    THEN overdue[i] + 1 ELSE overdue[i]]
  /\ UNCHANGED <<starting, step, fetched, failed, unstored, counters, signVars, refused, bare>>
----------------------------------------------------------------------------
StartStep == (\E g \in Grants : StartGranted(g)) \/ (\E g \in Remains : StartRefused(g))

RenewStep(i) ==
  \/ Fire(i)
  \/ \E g \in Grants : Granted(i, g)
  \/ \E g \in Remains : Refused(i, g)
  \/ Store(i)
  \/ Conclude(i)

Next ==
  \/ StartStep
  \/ \E i \in Sessions : RenewStep(i)
  \/ \E s \in Signers : selectAuthToken(s) \/ UseGranted(s) \/ UseRefused(s)
  \/ Tick

Spec == Init /\ [][Next]_vars

\* Time passes however busy the signers are: signing takes no time to speak of, so those
\* that overlap are done before the clock goes on.
TimePasses == SF_vars(Tick) /\ []<>(\A s \in Signers : pc[s] = "idle")

\* Goroutines run, timers fire, and every GetToken returns in the end.  The last is an
\* assumption, the client's http.Client has no timeout.
Fairness ==
  /\ TimePasses
  /\ WF_vars(StartStep)
  /\ \A i \in Sessions : WF_vars(RenewStep(i))
  /\ \A s \in Signers : WF_vars(UseGranted(s) \/ UseRefused(s))

LiveSpec == Spec /\ Fairness
----------------------------------------------------------------------------
(* Invariants.                                                             *)

Lives == {g.exp : g \in Grants} \ {NoValue}

\* What may be left of a lifetime: at most the longest one granted.
Left == {NoValue, -1} \cup UNION {0..e : e \in Lives}

AuthToken == [headers : {g.headers : g \in Grants} \cup {NoValue}, exp : Left, uses : Counters \cup {NoValue}]

TypeOK ==
  /\ SessionTokens \in [Sessions -> AuthToken]
  /\ starting \in 0..SessionCount
  /\ step \in [Sessions -> {"none", "timer", "post", "store"}]
  /\ due \in [Sessions -> Nat]
  /\ fetched \in [Sessions -> AuthToken]
  /\ failed \in [Sessions -> BOOLEAN]
  /\ unstored \in [Sessions -> SUBSET Fields]
  /\ counters \in [Counters -> [granted : Nat, left : Nat, used : Nat]]
  /\ pc \in [Signers -> {"idle", "use"}]
  /\ index \in [Signers -> Sessions]
  /\ at \in [Signers -> AuthToken]
  /\ tries \in [Signers -> 0..Tries]
  /\ refused \in [Sessions -> BOOLEAN]
  /\ bare \in [Sessions -> BOOLEAN]
  /\ overdue \in [Sessions -> 0..Margin + 1]

\* A session is given up for one reason only: its last answer came without an error
\* and without an expiration.  No failure ends its renewals, in Start or
\* later, whatever an answer that failed left in the token (client.go:134-148,
\* 157-168).  What the code does not look at does end them: an answer that is
\* neither an error nor a session, and a session without an end whose uses are spent.
NeverAbandoned ==
  \A i \in Sessions :
    (i < starting /\ step[i] = "none") => ~refused[i] /\ SessionTokens[i].exp = NoValue

\* As long as the server grants what it is asked for and a renewal is not overdue
\* by more than the margin, the session does not lapse; not even a copy made
\* while a token is being replaced has expired (client.go:146, 154, 167).
NeverLapses ==
  \A i \in Sessions :
    (i < starting /\ ~refused[i] /\ overdue[i] <= Margin) => ~Expired(SessionTokens[i])

\* A token lets no more requests through than it was granted uses, although it is
\* copied and used by several goroutines at a time (interface.go:46).
UsesRespected == \A c \in Counters : counters[c].used <= counters[c].granted

\* Use lets the request through and there are no headers to add to it.
GoesBare(s) == pc[s] = "use" /\ Peek(at[s]) /\ at[s].headers = NoValue

\* A request goes out without the headers, and without an error, only if some answer
\* to its session's GetToken had none, as a failure or as a success: not while Start
\* is at work, and not when the copy is made while one token replaces another
\* (client.go:137, 159, 216-233, 237-250).
BareEarned == \A s \in Signers : GoesBare(s) => bare[index[s]]
----------------------------------------------------------------------------
(* Liveness, under LiveSpec.                                               *)

\* The session adds its headers to a request, and is not spent.
Usable(i) == SessionTokens[i].headers # NoValue /\ Peek(SessionTokens[i])

\* What GetToken returned is a session, and if its uses are counted it comes in time: a
\* late one may be spent by signers that copy its counter before its expiration.
FetchedSession(i) ==
  /\ ~failed[i]
  /\ fetched[i].headers # NoValue
  /\ fetched[i].uses # NoValue => /\ counters[fetched[i].uses].granted > 0
                                 /\ overdue[i] <= Margin

\* A session whose every answer is a session from some time on becomes usable again
\* and again, however late its renewals, whoever uses it, and whatever failed before,
\* unless it is left with a token without an expiration (client.go:152-168,
\* interface.go:45-53).
SessionReturns ==
  \A i \in Sessions :
    /\ <>[](step[i] = "store" => FetchedSession(i))
    /\ []<>(SessionTokens[i].exp # NoValue)
    => []<>Usable(i)
----------------------------------------------------------------------------
(* What a comment in the code says of it and the code does not do.         *)

\* interface.go:74: "Sign should add headers to the client request such that it
\* would be accepted by the server"; it does not, and reports no error.
SignAddsHeaders == \A s \in Signers : ~GoesBare(s)
=============================================================================
