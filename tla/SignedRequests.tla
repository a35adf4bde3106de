--------------------------- MODULE SignedRequests ---------------------------
(***************************************************************************)
(* The two sides of a session together: the client of Sessions, whose      *)
(* tokens come from the server of AuthServer, and the requests it signs    *)
(* with them.  A token arrives some time after it was issued, or not at    *)
(* all, and so does a request; the server's clock may be ahead of the      *)
(* client's; the server is restarted and its configuration changed.  What  *)
(* reaches the client is this server's reply or an error, not an answer    *)
(* that somebody between them makes up: Sessions has those.                *)
(***************************************************************************)
EXTENDS Sessions

CONSTANTS
  Keys, Files, Lifetime, MaxLoads,  \* those of AuthServer
  Address,    \* the address the client signs with
  Paths,      \* the paths of the requests it signs
  Skew,       \* how far the server's clock is ahead of the client's
  MaxTravel   \* bound: how long a reply or a signed request is on its way

\* Keys are never short, as more of them than anybody can have would not be used; what
\* the sessions are granted is what this server grants, seen from the client.
ASSUME SignedAssumption ==
  /\ {Lifetime, MaxLoads, Skew, MaxTravel} \subseteq Nat
  /\ Lifetime - MaxTravel + Skew >= Margin
  /\ NoValue \notin Keys
  /\ IsFiniteSet(Keys)
  /\ Cardinality(Keys) >= 3 * SessionCount + 2 * Cardinality(Signers)
  /\ Grants = [headers : Keys, exp : Lifetime - MaxTravel + Skew..Lifetime + Skew,
               uses : {NoValue}]
  /\ \A f \in Files : f.secret \in {0, NoValue}  \* 0 is Configured of AuthServer

VARIABLES
  parsed, Secret, Whitelist, loads, jwt,  \* those of AuthServer
  reply,    \* the server's reply to GetToken: a string that is on its way, or NoValue
  request,  \* the signed request of a signer that is on its way, or NoValue
  slack     \* history variable: how overdue the renewal of its session was

serverVars == <<parsed, Secret, Whitelist, loads, jwt>>
wireVars == <<reply, request, slack>>
allVars == <<vars, serverVars, wireVars>>

Server == INSTANCE AuthServer

\* The strings somebody has, or is about to get.
Held == ({reply[i] : i \in Sessions}
           \cup {SessionTokens[i].headers : i \in Sessions} \cup {fetched[i].headers : i \in Sessions}
           \cup {at[s].headers : s \in Signers}
           \cup {request[s].key : s \in {t \in Signers : request[t] # NoValue}}) \ {NoValue}

SystemInit == /\ Init
              /\ Server!Init
              /\ reply = [i \in Sessions |-> NoValue]
              /\ request = [s \in Signers |-> NoValue]
              /\ slack = [s \in Signers |-> 0]
----------------------------------------------------------------------------
(* A session is fetched.                                                   *)

Fetching(i) == step[i] = "post" \/ starting = i

\* The server answers the client's signed message.
Post(i) ==
  /\ Fetching(i)
  /\ reply[i] = NoValue
  /\ LET key == CHOOSE k \in Keys : k \notin Held
     IN /\ Server!createSession(Address, key, Held)
        /\ reply' = [reply EXCEPT ![i] = key]
  /\ UNCHANGED <<vars, request, slack>>

\* What the reply grants, on the client's clock.
Grant(i) == [headers |-> reply[i], exp |-> jwt[reply[i]].left + Skew, uses |-> NoValue]

Deliver(i) ==
  /\ reply[i] # NoValue
  /\ IF starting = i THEN StartGranted(Grant(i)) ELSE Granted(i, Grant(i))
  /\ reply' = [reply EXCEPT ![i] = NoValue]
  /\ UNCHANGED <<serverVars, request, slack>>

\* GetToken returns an error, beside an empty token.
Failed(i) == IF starting = i THEN StartRefused(Empty) ELSE Refused(i, Empty)

\* The server refuses the client, which may be removed from its whitelist.
Refuse(i) ==
  /\ Fetching(i)
  /\ reply[i] = NoValue
  /\ Server!refuseSession(Address)
  /\ Failed(i)
  /\ UNCHANGED wireVars

\* The request or the reply is lost.
Lose(i) ==
  /\ Fetching(i)
  /\ Failed(i)
  /\ reply' = [reply EXCEPT ![i] = NoValue]
  /\ UNCHANGED <<serverVars, request, slack>>

Fetch(i) == Post(i) \/ Deliver(i) \/ Refuse(i) \/ Lose(i)

Renewal(i) == /\ Fire(i) \/ Store(i) \/ Conclude(i)
              /\ UNCHANGED <<serverVars, wireVars>>
----------------------------------------------------------------------------
(* A request is signed and sent.                                           *)

SelectToken(s) ==
  /\ request[s] = NoValue
  /\ selectAuthToken(s)
  /\ slack' = [slack EXCEPT ![s] = overdue[index'[s]]]
  /\ UNCHANGED <<serverVars, reply, request>>

Sent(s, key) == request' = [request EXCEPT ![s] = [key |-> key, travel |-> 0]]

\* Signed, perhaps with no headers, and on its way.
SignAndSend(s) ==
  /\ UseGranted(s)
  /\ Sent(s, at[s].headers)
  /\ UNCHANGED <<serverVars, reply, slack>>

\* After the last try Select logs the error and the request goes out as it is.
SignFails(s) ==
  /\ UseRefused(s)
  /\ IF OutOfTries(s) THEN Sent(s, NoValue) /\ UNCHANGED slack
     ELSE slack' = [slack EXCEPT ![s] = overdue[index[s]]] /\ UNCHANGED request
  /\ UNCHANGED <<serverVars, reply>>

Arrive(s) ==
  /\ request[s] # NoValue
  /\ request' = [request EXCEPT ![s] = NoValue]
  /\ slack' = [slack EXCEPT ![s] = 0]
  /\ UNCHANGED <<vars, serverVars, reply>>

Signing(s) == SignAndSend(s) \/ SignFails(s)
----------------------------------------------------------------------------
(* The server's process, and time.                                         *)

Operate == /\ Server!Restart \/ Server!Reload \/ Server!ReloadFromOutside
           /\ UNCHANGED <<vars, wireVars>>

Arriving == /\ \A i \in Sessions : reply[i] # NoValue => jwt[reply[i]].left > Lifetime - MaxTravel
            /\ \A s \in Signers : request[s] # NoValue => request[s].travel < MaxTravel

Elapse ==
  /\ Arriving
  /\ Tick
  /\ Server!Age(Held)
  /\ request' = [s \in Signers |-> IF request[s] = NoValue THEN NoValue
                                   ELSE [request[s] EXCEPT !.travel = @ + 1]]
  /\ UNCHANGED <<reply, slack>>

SystemNext ==
  \/ \E i \in Sessions : Fetch(i) \/ Renewal(i)
  \/ \E s \in Signers : SelectToken(s) \/ Signing(s) \/ Arrive(s)
  \/ Operate
  \/ Elapse

\* As for Sessions; what is on its way arrives or is lost.
SystemFairness ==
  /\ SF_allVars(Elapse)
  /\ \A i \in Sessions : WF_allVars(Fetch(i)) /\ WF_allVars(Renewal(i))
  /\ \A s \in Signers : WF_allVars(Signing(s)) /\ WF_allVars(Arrive(s))

SystemSpec == SystemInit /\ [][SystemNext]_allVars /\ SystemFairness
----------------------------------------------------------------------------
(* Properties.                                                             *)

\* The types of what this module adds to Sessions, and every string that somebody
\* has is one the server issued.
SystemTypeOK ==
  /\ parsed \in 0..MaxLoads + 1 /\ Secret \in 0..MaxLoads + 1
  /\ Whitelist \in {f.whitelist : f \in Files}
  /\ loads \in 0..MaxLoads
  /\ jwt \in [Keys -> [secret : 0..MaxLoads + 1 \cup {NoValue}, left : 0..Lifetime, kept : BOOLEAN]]
  /\ reply \in [Sessions -> Keys \cup {NoValue}]
  /\ request \in [Signers -> {NoValue} \cup [key : Keys \cup {NoValue}, travel : 0..MaxTravel]]
  /\ slack \in [Signers -> 0..Margin + 1]
  /\ \A k \in Held : jwt[k].secret # NoValue

\* How long the renewal, the difference of the clocks and the journey may take
\* together before a token is used that has expired at the server.
InTime(s) == slack[s] + Skew + request[s].travel < Margin

\* Some GetToken returned no headers, which this server's replies always have.
SomeBare == \E i \in Sessions : bare[i]

\* A request that arrives within the margin is accepted, unless a restart or a reload
\* without a secret in the Caddyfile has made the server forget the session (403).  It
\* lacks the header (401) only if some GetToken, at any time, has returned none, as
\* every failure leaves the session without.  A token that is copied while it is being
\* replaced, a change of the whitelist, and a restart with a secret do no harm
\* (client.go:152-168, 237-250; din_select.go:67-71; server.go:125-146, 179).
SignedAccepted ==
  \A s \in Signers : (request[s] # NoValue /\ InTime(s)) =>
    \A path \in Paths :
      LET key == request[s].key
          answer == Server!ServeHTTP(path, key)
      IN /\ answer = "401" => SomeBare
         /\ answer = "403" => ~jwt[key].kept

Accepted(i) ==
  LET token == SessionTokens[i]
  IN ~Expired(token) /\ \A path \in Paths : Server!ServeHTTP(path, token.headers) = "next"

\* A session whose requests for a token do not fail any more is accepted by the
\* server again and again, although the server may have forgotten its secret, and
\* the client learns of that only by asking for its next token when the old one
\* is due (client.go:166-168; server.go:179).
AcceptedAgain == \A i \in Sessions : <>[](~refused[i]) => []<>Accepted(i)
=============================================================================
