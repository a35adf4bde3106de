# TLA+ models of the DIN Caddy plugins

The repository is a set of plugins for the Caddy web server. A DIN router accepts JSON-RPC
requests under the path of a blockchain network (`/eth`, `/holesky`, ...), forwards each one to
one of the network's providers, and polls the providers' latest block numbers in the background to
decide which of them may be used. Some providers require a session, which the router opens by
signing a message (SIWE); the repository also holds the provider's side of that protocol.

This directory models the routing core (what the health checks decide, which providers a request
may go to, and what becomes of the request), the sessions a router keeps with its providers and the
providers' side of them, and how a Caddyfile becomes a router that serves its networks.

## 1. Inventory

| Component | Source | State | Operations | Modelled in |
|---|---|---|---|---|
| Provider health state | `modules/provider.go`, `consts.go` | `healthStatus`, `failures`, `successes` | `markPing*`, `markHealthy`, `markWarning`, `Available`, `IsAvailableWithWarning` | `Network`, `Upstreams` |
| Network health check | `modules/network.go` | `LatestBlockNumber`, a ticker, a wait group | `startHealthcheck`, `healthCheck` | `Network`, `ChainHead` |
| Checked-provider history | `modules/network.go` | `CheckedProviders` behind `n.mu` | `evaluateCheckedProviders`, `addHealthCheckToCheckedProviderList` | `Network` |
| Latest-block request | `modules/network.go`, `lib/http/http.go` | none | `getLatestBlockNumber`, `Post` | `Network` (by outcome) |
| Upstream pool | `modules/din_upstreams.go` | none (reads providers) | `GetUpstreams` | `Upstreams` |
| Upstream selection | `modules/din_select.go` | the request's replacer | `Select` | `Request`, `SignedRequests` (partly) |
| Request handling | `modules/din_middleware.go` | per request | `ServeHTTP` | `Request` |
| Response buffering | `modules/response_writer_wrapper.go` | buffered status and body, shared header map | `WriteHeader`, `Write` | `Request` |
| Configuration, provisioning | `modules/din_middleware.go` | the networks of the parsing object and of every instance | `UnmarshalCaddyfile`, `Provision`, `startHealthChecks` | `Provisioning` (partly) |
| SIWE client sessions | `lib/auth/siwe/client.go` | `SessionTokens`, timers | `Start`, `Renew`, `Sign`, `Error`, `Stop` | `Sessions` (not `Stop`) |
| Auth tokens | `lib/auth/interface.go` | `Uses`, `Expiration` | `Use`, `Peek` | `Sessions` |
| SIWE server | `lib/auth/siwe/server.go` | `Secret`, `Whitelist` | `createSession`, `ServeHTTP`, `UnmarshalCaddyfile` | `AuthServer`, `SignedRequests` |
| Metrics | `lib/prometheus` | counters | `HandleLatestBlockMetric`, `HandleRequestMetrics` | only that they are called |
| Registration | `module.go` | the two objects that parse | | `Provisioning`, `AuthServer` |
| Mocks, tests, CI | ... | none | | not modelled |

How they interact: a ticker per network starts a round of health checks; a round runs one
goroutine per provider, and these goroutines share `LatestBlockNumber`, the map of histories and
**each other's** `healthStatus` (a goroutine that sees a new height demotes the providers whose
history lags). Only the map is behind a lock. Requests read the statuses, also without a lock, in
`GetUpstreams`, which Caddy calls while it serves an attempt of `ServeHTTP`; then it calls `Select`
with the result. Caddy keeps its own view of an upstream (`Upstream.Available`), which may change
between the two calls. `Select` signs the request with one of the provider's sessions, as does the
latest-block request; a goroutine per session replaces its token in the background, again without
a lock. The token is a JWT that the server has signed with its secret; the server remembers nothing
else, so a new secret ends all sessions without a word to the clients. Both plugins parse the
Caddyfile with one object per process, which keeps what it has read: networks there, the secret
here.

What is hard: unlocked check-then-write steps, decisions on entries that are about to be replaced,
two-pass reads of statuses that change meanwhile, state that survives from one attempt to the next,
and the recovery of providers in spite of all this. The hazards, each at its line and with the
properties that would notice it going wrong, are in `PROJECT.json`.

What makes the components correct:

- *Health check*: the height only moves up between rounds; a laggard does not stay in use; the
  provider with the newest height does; Unhealthy needs enough failures; only a report of a height
  promotes; rounds end; providers recover, dead ones leave.
- *Upstream pool*: only usable providers of one priority; whoever is usable all along is in it or
  outranked; it is not empty as long as somebody is usable all along.
- *Request*: the reply is of one attempt, the last; retries follow failures only, carry the whole
  body and are bounded; a provider that is usable all along and of the best priority keeps the
  request from being dropped; every request ends.
- *Sessions*: a session is renewed for as long as it has an end, does not lapse while the server
  grants what it is asked for, comes back after failures, and lets no more requests through than it
  was granted.

## 2. Modules

| Module | What it is |
|---|---|
| `ChainHead` | abstract: the height a network has settled on starts at 0 and moves up to a reported height |
| `Network` | one network: rounds, goroutines, statuses, histories |
| `MCNetwork` | instances of `Network`: sets of answers, symmetry |
| `NetworkProofs` | theorems about `Network`, and that it implements `ChainHead` |
| `FrontRunnerProofs` | one more theorem about `Network`, of the provider that is ahead |
| `Upstreams` | one call of `GetUpstreams` after the other, while statuses change |
| `MCUpstreams` | instances of `Upstreams` |
| `UpstreamsProofs` | theorems about `Upstreams` |
| `Request` | `ServeHTTP`, the writer wrapper and `Select`, composed with an instance of `Upstreams` |
| `MCRequest` | instances of `Request` |
| `RequestProofs` | theorems about `Request`, and that it implements `Upstreams` |
| `Sessions` | the sessions of one SIWE client: `Start`, `Renew`, `Sign`, the tokens and time |
| `MCSessions` | instances of `Sessions` |
| `SessionsProofs` | theorems about `Sessions` |
| `AuthServer` | the provider's side: JWTs, the secret, the whitelist, restarts and reloads |
| `SignedRequests` | `Sessions` and an instance of `AuthServer`, with messages under way and two clocks |
| `MCSignedRequests` | an instance of `SignedRequests` |
| `SignedRequestsProofs` | theorems about `SignedRequests`, and that it implements `Sessions` |
| `Provisioning` | Caddyfiles read, rejected, provisioned and served by one process |
| `MCProvisioning` | an instance of `Provisioning`: the Caddyfiles |
| `FoldProofs` | what `FoldLeft` computes, and induction over an interval |
| `ProvisioningProofs` | theorems about `Provisioning` |

A definition commented "Mutant" is a slip somebody could make in the definition after it. It takes
part in no behaviour; replacing the definition by it breaks the property that `PROJECT.json` pairs
with it.

### Network

The atomic step is one access to shared memory. `pc[p]` says where provider `p`'s goroutine is;
between two values of it the goroutine reads or writes `LatestBlockNumber` or one `healthStatus`
once. `failures` and `successes` belong to the goroutine alone and move with the access next to
them. In code order:

| `pc` before | Action | Code |
|---|---|---|
| `post` | `PingFailure`, `PingWarning`, `PingSuccess`, `Panic` | the request, its classification (network.go:96-121), and the `markPing*` method up to its test |
| `setUnhealthy`, `setHealthy` | `SetUnhealthy`, `SetHealthy` | the write under that test (provider.go:66, 82) |
| `newer`, `equal`, `lagging` | `CompareNewer`, `CompareEqual`, `CompareLagging` | network.go:124, 130, 133; each reads the height again |
| `setLatest`, `markLeader`, `markHealthy`, `markWarning` | `SetLatest`, `MarkHealthy`, `MarkWarning` | network.go:127, 128, 132, 136 |
| `rlock`, `evaluate`, `markLaggard` | `RLock`, `Evaluate`, `MarkLaggard`, `RUnlock` | network.go:174-185, one key per step, in any order |
| `metric`, `append` | `sendLatestBlockMetric`, `AddHealthCheck` | network.go:140, 143 |

`round` is the loop of `startHealthcheck`: the first round runs before there is a ticker; the
ticker's channel has one slot (`tick`) and drops what does not fit; a round ends when every
goroutine has (`wg.Wait`). A panic in a goroutine ends the process (`round = "crashed"`).

Abstractions: an answer is a status and a body, the body being a height, something from which no
height can be read, or the one-character result on which `result[:2]` panics. Heights are
naturals: the code would also take negative ones and would wrap at 2^63. A counter stops one above
`HCThreshold` (`Count`), which loses nothing since the code only compares it with the threshold
(lemma `CountFaithful`). `HistoryLimit` stands for the 10 of the code, and a missing key of
`CheckedProviders` is the empty list. `addHealthCheckToCheckedProviderList` reads under the read
lock and writes under the write lock; nobody else writes that key, so it is one step that needs no
reader to be inside. The readers are those whose `pc` is between `RLock` and `RUnlock`. Providers
are known by their host, as in the code. Timestamps (never read), logging and `n.quit` (never
closed) are left out. `startBlock` is a history variable.

### Upstreams

`GetUpstreams` visits every provider once per priority and pass, in any order. `Visit` compares the
priority and asks Caddy's `Upstream.Available`; if the answer is yes, the provider is the
`candidate`, and `Test` reads its status (provider.go:45-51 makes the two reads one after the other,
without a lock). Everything may change between the two. A provider that goes down before it turns
Healthy passes the test although it was never both, so `PoolEarned` says that it was up at one
moment of the call and Healthy (or in Warning) at another, and `SteadyWarningServed` that only such a
provider, or a better one, displaces one that is in Warning and up all along. `Mark` and `Toggle` are
the environment: a health check writes a status, Caddy changes its own view. `past` is a history
variable: the states a provider has been in since the call began. `MaxChanges` bounds the changes
from one call to the next.

### Request

`ServeHTTP` for one request: the checks before the loop (`Reject`, `Accept`), the loop (`Attempt`,
`GetUpstreams`, `Select` or `SelectNone`, `Answer` or `Fail`, `EndLoop`) and its end
(`ReturnError`, `Reply`, `ReplyLost`, `NothingTried`). The steps of `GetUpstreams` and the status
changes are those of `Pool == INSTANCE Upstreams`, so everything can change between the collection
of the pool and `Select`, and from attempt to attempt. Requests share nothing but the statuses,
which the environment already changes at will; one request at a time is therefore general. The
request's own state (`body`, `info` for the header map, `provider` for the replacer) survives from
one attempt to the next as in the code.

External, from how the code uses it: Caddy's selector picks one of the pool's upstreams that are
available at that moment, or nil; the proxy writes the upstream's answer into the wrapper or
returns an error with nothing written; a panic of a handler drops the connection. Statuses are 200
and 500, success and anything else. `AttemptCounts` are the configured attempt counts, 0 included:
nothing in the code rejects it.

### Sessions

`StartGranted` and `StartRefused` are one turn of the loop in `Start`. Provisioning ends before the
server takes requests, so nobody signs before `starting = SessionCount`. `step[i]` is where the
goroutine that `Renew` has started for session `i` is:

| `step` before | Action | Code |
|---|---|---|
| `timer` | `Fire` | the timer's channel (client.go:155) |
| `post` | `Granted`, `Refused` | `GetToken`, by outcome: a token, and with `Refused` an error beside it (client.go:196-234) |
| `store` | `Store` | the assignment of line 159, field by field in any order |
| `store` | `Conclude` | lines 160-168: another try in a minute, the next renewal, or nothing more |

`GetToken` looks neither at the HTTP status nor at what the answer holds: it fails if there is no
JSON object, or one with "error". `Grants` are the tokens it returns without an error, sessions or
not: a JSON object that is none is the token `Empty`, and one may lack its headers, its expiration or
its uses. Beside an error `GetToken` returns what could be read until then, any of `Remains`, mostly
`Empty`. `failed` is the error itself, which decides what `Conclude` does next. Whoever answers with no
error and no expiration ends the renewals of that session for good (client.go:166), be it a session or
not; `NeverAbandoned` says that nothing else does. `bare` is a history variable: some answer to the
`GetToken` of the session had no headers; `refused` is another: the last one was an error.

A signer copies a token (`selectAuthToken`) and calls `Use` on the copy (`UseGranted`,
`UseRefused`), up to `Tries` more times. The copy shares the counter of uses with the token in the
slice, so `counters` is a heap and `uses` a pointer into it; a cell that nobody points to can be
used again. `granted` and `used` of a cell are history variables. A counter stops at 0 here and
runs below it in the code, which only asks for its sign.

The copy reads a struct that may be half written. That is a data race; its outcomes on the
platforms Go supports are mixtures of old and new words, and `Store` makes all of them visible.

Time is the number of `Tick`s, a unit being about the margin of five seconds; `exp` and `due` are
what is left. `Tick` waits for a `Store` in progress and for signers between copy and `Use`: both
take microseconds. It does not wait for `GetToken`. Expirations are therefore either known not to be
reached or reached for everyone; that a token can expire between the copy and `Use` is left out, and
`Use` looks at the clock itself.

`SessionsAssumption` has lifetimes of at least the margin, of those answers that have one: below it the
code renews without a pause. A session whose uses are spent is renewed when it expires and not
before, and never if it does not expire; `Usable` counts it as lost, and `SessionReturns` speaks of
sessions that are left with a token that expires.

### AuthServer and SignedRequests

A JWT string is a member of `Keys`, and `jwt` what it says: the secret it is signed with and how long
it is still valid on the server's clock. `kept` is a history variable: nothing has happened since it
was issued that should make the server forget it. `createSession` issues one if the address that
signed the message is in the whitelist; its five refusals are one (`refuseSession`), because each is
an error for the client. `ServeHTTP` is the decision about a request: `/auth` is `createSession`, `/`
passes unchecked, anything else needs a JWT of the current secret that has not expired.

Secrets are numbers: 0 is that of the Caddyfile; those that are made up are numbered by the load that
draws them, so that each is a fresh one (server.go:179-184). `parsed` is the secret of the
object that parses (server.go:151-188, module.go:18-20), `Secret` that of the handler that serves.
`Restart` is a new process, `Reload` a Caddyfile read by the running one, `ReloadFromOutside` the
command `caddy reload`, which reads the Caddyfile in a process of its own and sends the result.

`SignedRequests` extends `Sessions` and takes its grants from the server: `Post` is the server's
answer, `Deliver` the end of `GetToken` at the client, which computes with the expiration on its own
clock (`Grant`; the server's is ahead by `Skew`); `Lose` is any failure in between, `Refuse` the
server's. An answer that somebody between the two makes up (a gateway's error page) is not part of
this module, only of `Sessions`. `SelectToken`, `SignAndSend` and `SignFails` are `Select` and `Sign` for one request: when
`Sign` gives up, `Select` only logs the error and the request is sent without the header
(din_select.go:67-71). `Arrive` is the end of its journey; what the server says of a request is
evaluated in the properties for every moment of the journey. `Elapse` is `Tick` on both sides.
A string nobody holds can be used again. `slack` is a history variable: how overdue the renewal of
the session was when its token was copied.

### Provisioning

A Caddyfile is a sequence of blocks, a block a name and a sequence of items: a provider with its
number of sessions (or `NoAuth`), the health check's interval, or something that is rejected. The
interval stands for all options, which are read alike. `UnmarshalCaddyfile` is a fold over blocks and
items that stops where the code returns an error; the state it leaves behind is the point.
`Networks` is the map of the object that parses. `ParseCaddyfile` reads a Caddyfile with it, `Reload`
is a configuration that another process has read.

`loading` is the instance Caddy is provisioning, made from the JSON of that map: `StartAuth` for each
provider that has sessions, then, network by network, `FirstRound` and `StartTicker`
(din_middleware.go:70-113, network.go:60-63), then `Serve` (the return from `Provision`, upon which
Caddy puts the instance in the place of the one before). A request signed without sessions panics in
a goroutine and ends the process; a ticker without an interval panics in the goroutine that loads the
configuration, which ends the process or, if that is a request to the admin API, only the load.
`Restart` is Docker's (`compose.yml:7`). What old instances go on doing is left out, they share
nothing with the new one.

## 3. Runs

| Run | Instance | Checks |
|---|---|---|
| `NetworkAnswers` | 2 providers, heights 1, 3 and 4, every kind of answer, threshold 1, lag limit 1, history 1 | `TypeOK`, `IInv`, `UnhealthyEarned`, `OneMetricPerCheck`, `LaggingDemoted`, `LatestAdvances`, `HistoryHeadFresh`, `OnlyOwnReportPromotes` |
| `NetworkRaces` | 3 providers, heights 1 and 3, all answer, threshold 0, lag limit 1, history 2 | `LatestFromRound`, `FrontRunnerHealthy`, `HeadSpec` |
| `NetworkLive` | 2 providers, heights 3 and 5 that are counted anew again and again, reports, failures and the panicking answer, threshold 0, lag limit 1, history 1, fairness | `RoundsEnd`, `CaughtUpRecovers`, `DeadDemoted` |
| `Upstreams` | 3 providers, priorities 0, 1 and 3, two changes per call | `TypeOK`, `IInv`, `PoolEarned`, `SteadyServed`, `SteadyWarningServed`, `QuietCallExact` |
| `Request` | 2 providers, priorities 0 and 1, 0 or 3 attempts, one change per attempt, fairness | `TypeOK`, `ReplyFromLastAttempt`, `RetriesJustified`, `ForemostPreventsAbort`, `WholeBodySent`, `RequestEnds` |
| `Sessions` | 1 session, 2 signers, lifetimes of 2 and 3 units (the longer for a single use) or none, answers without headers and empty ones, each with and without an error, fairness | `TypeOK`, `NeverAbandoned`, `NeverLapses`, `UsesRespected`, `BareEarned`, `SessionReturns` |
| `SignedRequests` | 1 session, 1 signer, JWTs valid for 4 units, margin 3, clocks 1 apart, journeys up to 1, 2 loads, Caddyfiles with and without a secret and the client, fairness | `SystemTypeOK`, `SignedAccepted`, `AcceptedAgain` |
| `Provisioning` | 4 loads of 12 Caddyfiles of one or two networks, fairness | `TypeOK`, `ServedAsWritten`, `ServedReady`, `LoadEnds` |

Why the bounds are enough to be interesting:

- Two goroutines suffice for a lost update and for a demotion by another goroutine; three let two
  of them race while a third ranges over the map, and let a chain of heights overtake each other.
- Three heights with a lag limit of 1 give an equal, a tolerated and a lagging difference. Heights
  1 and 3 leave out the tolerated one, which pays for the third provider.
- In `NetworkAnswers` a laggard reports 1 in a round that starts at 3 while the other provider moves
  the height to 4, so its three comparisons interleave with a write. A lost update in a laggard's
  round takes two more providers and four heights, which is more than TLC does in minutes;
  `LaggingDemotedHolds` proves `LaggingDemoted` for all of them.
- `NetworkLive` has a chain that never stops. Heights are only compared with each other and with 0,
  so the step `Rebase` of `MCNetwork`, which counts all of them from one block later between two
  rounds, changes nothing but their names and keeps them finite. A height of 1 is so far behind
  that it stays where it is. Between a report of 5 and the next one zero, one or two steps `Rebase`
  leave room to stand still, to keep pace and to move on by more than the lag limit; a report of 3
  may lag or lead.
- A threshold of 1 has a failure that does not yet count, one that does, and one beyond; 0 makes
  the first one count.
- A history of 1 is full after one report, so the cut happens in every later round; 2 keeps the
  previous report in sight, which `FrontRunnerHealthy` refers to.
- Rounds are not bounded: the state spaces are closed under any number of them.
- Priority 3 with three providers is outside of what the loops reach. Two changes per call suffice
  for one status to change and change back, or for one provider to take another's place.
- Three attempts have a first, a middle and a last one.
- Sessions share nothing but the HTTP client, so one is enough for every property; two signers can
  hold copies of one token or of a token and its successor. With a margin of 1, lifetimes of 2 and 3
  leave time to use a token before its renewal is due and to overrun it, and the delays after a
  failure (3 and 4, less the margin) outlast either. One further try of `Sign` is the first that
  can see another token.
- With a margin of 3 and clocks 1 apart a request may be late by 1 in all, through the renewal or the
  journey, and is still accepted; by 2 it is not. Two loads suffice to lose a secret and get it back.
  Five strings are more than can be held at once.
- A served network, a rejected Caddyfile, a good one, and another one that undoes something: four
  loads. The Caddyfiles have networks with one provider, with two, with one host twice, without
  sessions, without an interval, with a mistake after a provider, without a provider; two networks,
  of which the second may be rejected; and one network twice.

Deadlock is checked in all of them but `Provisioning`: a crashed network stutters (`Dead`); everything
else always has a next step. In `Provisioning` there is nothing left to do when the bound on loads is
reached.

### Where the code differs from what is said of it

Each of these runs checks one sentence of a comment and fails; `PROJECT.json` quotes the line.

| Run | What happens |
|---|---|
| `CurrentProviderSpared` | the provider that has just moved the height is put in Warning by its own goroutine, for its previous report |
| `FailuresMarkUnhealthy` | a provider in Warning is never marked Unhealthy, however often it fails |
| `SignAddsHeaders` | a failed renewal replaces a valid token by the empty one, with which `Sign` adds no headers and reports no error |
| `NetworksHaveProviders` | a network that was rejected for want of providers is served after the next Caddyfile the process reads |

The first is bounded: `FrontRunnerHealthy` holds for a provider that reports more than all others (or
as much as the network had, with nobody reporting more) when the height has moved by no more than
`BlockLagLimit` since its own previous report. `CaughtUpRecovers` has the same proviso (`KeepsPace`), and
`NetworkLive` fails without it: a provider that moves on by more than `BlockLagLimit` from one round
to the next, on a fast chain or with a long interval, is put in Warning for its own previous report in
every round in which it is the one to move the height, although it has just led the round.
For the third, `BareEarned` says that there is one other way to it, an answer without an error and
without headers, and no third; and `SessionReturns` that it ends, if the answers are sessions again
and a renewal is still due. For the last, `ServedAsWritten` says that the networks of the Caddyfile itself are not
touched, and that a configuration from outside brings no others.

Two comments in `GetUpstreams` contradict each other on what happens when no provider is available or
in Warning: "pass along all upstreams" (din_upstreams.go:42) and "pass along no upstreams" (line 69).
`QuietCallExact` shows that the code does the latter; `Select` then finds no upstream and the request is
aborted.

Read off the code, without a run: a 429 whose body holds no block number is counted as a failure
although network.go:109 has it marked as a warning, because the body is decoded first
(network.go:97, 107). Two goroutines can pass the test of network.go:124 before either writes, so a
smaller newer height may overwrite a greater one of the same round; `LatestFromRound`,
`LatestAdvances` and `HeadSpec` show that no more than that is lost. If that write falls between the
two comparisons of another goroutine (network.go:124, 130, 133), which has just found its own height
to be the network's, that goroutine takes none of the three branches: its provider, one of two that
share the greatest height, keeps the status it had, which may be Warning although nothing was wrong
with it in this round. `FrontRunnerHealthy` therefore speaks of a provider that is alone in front; the
first version of it did not, and the attempt to prove it showed why (TLC finds the behaviour with
three providers at heights 1, 2 and 3 and a rate limit, which is more than `NetworkRaces` has). The
next round puts such a provider right. A token that was granted without an error but holds nothing (client.go:216-233) is never renewed, and
every request signed with it goes out bare. A provider that goes from Warning
to Healthy between the two passes of `GetUpstreams` is missed by both; `SteadyServed` and
`SteadyWarningServed` show that nobody else is.

## 4. Fairness

`Network!Fairness` is weak fairness of the ticker, of starting and ending a round and of every step
of a goroutine after its answer. Go's scheduler runs every runnable goroutine, a ticker keeps
firing, and `sync.RWMutex` lets a waiting writer in once the readers are gone; the readers leave
without waiting for anybody. `PostsReturn` is an *assumption*: every request to a provider returns.
The code does not see to it, for the HTTP client has no timeout beyond dialling, and one provider
that never answers stops the rounds of its network (and, in the first round, the start of the
server). `RoundsEnd` is false without it. `MCNetwork!GrowingSpec` asks the same as `Network!LiveSpec`, with
`Rebase` among the steps, to which no fairness is given and which disables no other.

`Request!LiveSpec` is weak fairness of the request's own steps and of `GetUpstreams` (`Proceed`), which is
the scheduler's, and `AnswersReturn`: every proxied exchange ends, with an answer or an error. That is an
*assumption* like `PostsReturn`. `ServeHTTP` sets no deadline, Caddy's HTTP transport has no response
timeout unless one is configured, and the repository's Caddyfile configures none
(src/Caddyfile:335). An upstream that accepts a request and stays silent holds it, without a retry,
until the client gives up; `RequestEnds` is false without the assumption.

`Sessions!Fairness`: time passes, goroutines run, timers fire, and every `GetToken` returns, with an
error or without. The last is an assumption again: the client has timeouts for dialling and the TLS
handshake and none for the answer. `TimePasses` says that `Tick` is strongly fair and that again and
again no signer is at work: signing takes next to no time, so requests that follow one another
closely can disable `Tick` again and again without holding the clock up in fact. Signers need not
sign at all.

`SignedRequests!SystemFairness` is the same with the server in place of `Grants`: what is under way
arrives or is lost. `Provisioning!LiveSpec` is weak fairness of the steps of a load, which rests on
every request of `Start` and of the first rounds returning; see `PostsReturn`.

`CaughtUpRecovers` and `DeadDemoted` speak of providers that behave in one way from some time on;
what the provider did before is arbitrary, and so is what the other providers do, except that with
`CaughtUpRecovers` they must not overtake the one in question. `SessionReturns` speaks of a session to
which every answer is a session from some time on, and `AcceptedAgain` of one whose `GetToken` does
not fail from some time on.

## 5. Proofs

TLC checks the instances above; the TLA+ proof system checks the following for all values of the
constants that satisfy the assumptions of the modules. Every safety invariant and every action
property of the runs is a theorem; what is left to TLC alone is liveness.

| Assumption | What it asks |
|---|---|
| `NetworkAssumption` | finitely many providers, answers with a natural status and a body as described, natural threshold and lag limit, a positive history limit |
| `UpstreamsAssumption`, `RequestAssumption` | finitely many providers and at least one, integer priorities and attempt counts, any bound on changes |
| `SessionsAssumption` | at least one session, finitely many signers, natural delays, answers whose lifetime, if they have one, is at least the margin; they need neither headers nor expiration nor uses |
| `SignedAssumption` | natural lifetimes, skews and delays, of which the margin is not more than what is left of a JWT when it arrives; as many strings as can be held at once |
| `ProvisioningAssumption` | Caddyfiles are sequences of blocks of items, an interval is an integer, the default interval is positive |

The code has 10 for the history limit, 16 sessions unless configured otherwise, and a margin of five
seconds. That strings and counters are finitely many is the models' own restriction; `FreeKey` and
`FreeCounter` show that it is none (pigeonhole): there is always one nobody holds.

### Network

`NetworkProofs`: `Spec => []IInv`, and from it `TypeOK`, `LatestFromRound`, `LatestAdvances`,
`LaggingDemoted`, `UnhealthyEarned`, `HistoryHeadFresh`, `OneMetricPerCheck`, the action property
`OnlyOwnReportPromotes`, and the refinement `HeadSpec`.

- None of the properties is inductive. `IInv` adds where a goroutine can be after which answer
  (`PostUnanswered`, `ComparingReported`, `WaitingDone`) and what is on its way: a height about to be
  written is newer than the round's start (`LatestBounds`); a newer report has been taken into
  account or is still to be (`NewerTracked`); a lagging report has led to a Warning or will
  (`LaggardTracked`); a status about to be written is still justified (`SetUnhealthyEarned`).
- The argument for the height: every write in a round is of a height reported in this round that was
  compared with a height at least the round's start. So a lost update replaces one newer height by
  another, and never goes below the start. The start of a round is the height the last one settled
  on, hence the refinement.
- The argument for laggards: within a round the height never falls below its start, so a provider
  lagging behind the start takes the Warning branch whenever it compares, and after that nobody else
  writes anything but Warning to its status.
- The proof has one lemma per conjunct of `IInv`, and in it one step per group of actions.
  `PostFrame` and `ProceedFrame` state once what the goroutine of one provider leaves alone.
- For `OneMetricPerCheck`, `MetricsCounted` says that as many metrics have been sent as goroutines are
  past that line; it needs cardinalities, and that a goroutine passes it once.

`FrontRunnerProofs`: `HistoryLimit > 1 => (Spec => []FrontRunnerHealthy)`. With a history of one entry
the previous report, of which the proviso speaks, is gone when the round ends. In the argument
the network's height is at any time the start of the round or written by a goroutine that is
done with it (`LatestWritten`), so the one in front always wins its comparison; and a demotion under way
by another goroutine was decided on an entry that is still there (`LaggardEarned`) and lags behind a
height of this round, which the proviso rules out for the one in front. `FrontRunnerTracked` follows it
from its report to the end of the round.

### Upstreams and Request

`UpstreamsProofs`: `Spec => []IInv`, and from it `TypeOK`, `PoolEarned`, `SteadyServed`,
`SteadyWarningServed` and `QuietCallExact`, for any number of changes. `IInv` says of a provider whose
state has not changed that the loop has not passed over it (`NotMissed`): it stands at a better priority,
or the provider is still to be visited or tested, or it has been taken. `CandidateFits` is what is left of
the first read when the second is made: only that the provider was up at some moment. For a call without any change,
`NoneBefore` and `QuietTracked` add the converse: nobody better has been passed over.

`RequestProofs`: a request implements `Upstreams` (`ImplementsUpstreams`; every step is one of `Upstreams`
or leaves its variables alone), so the invariant proved there holds during each attempt.
`Spec => []IInv`, and from it `TypeOK`, `ReplyFromLastAttempt`, `RetriesJustified`,
`ForemostPreventsAbort` and `WholeBodySent`. `WriterOfAttempt` ties what survives an attempt (writer,
header map, replacer, error) to the answers met so far, phase by phase; `AttemptsCounted` and `LoopLeft`
tie the loop variable to them. `ForemostPreventsAbort` is where both meet: by `NotMissed` a foremost
provider that stays Healthy is in the pool, and being up it is there for `Select`.

### Sessions and SignedRequests

`SessionsProofs`: `Spec => []IInv`, and from it `TypeOK`, `NeverAbandoned`, `NeverLapses`,
`UsesRespected` and `BareEarned` (`HeadersUnlessBare`), for any number of sessions, which do not disturb
one another, answers that are sessions or not, and all mixtures of old and new fields that a copy can see.

- `Lasting` is the heart of `NeverLapses`: what is left of a token is at least what is left of its timer
  plus the margin, less what the renewal is overdue. A field-by-field `Store` keeps it since the new
  expiration is never the smaller one by then (`FetchedGood`, `CopiedSoFar`).
- `UsesCovered` is `UsesRespected` with what is left; the cell of a counter is handed to a new token only
  when nobody, not even a signer's copy, points to it.
- `HeadersEverywhere` is `BareEarned` for tokens in the slice, new ones and copies.

`SignedRequestsProofs`: the client with the real server implements `Sessions` (`ImplementsSessions`), where
a grant was any token: `ReplyLeft` bounds what is left of a JWT while it travels, so what `Deliver`
hands over is a grant as `SessionsAssumption` has it. All theorems of `SessionsProofs` therefore hold here.
`SystemIInv` then follows a JWT through the client: the reply, the token fetched, the session, a signer's
copy and the request (`ReplyLeft`, `FetchedLeft`, `SessionLeft`, `CopyLeft`, `RequestLeft`), each bounding
what the server's clock has left for it from below by the margin less all delays so far. The header and
the expiration in a session may stem from different tokens while one replaces the other; `SessionLeft` is
therefore about the header alone. `RequestBare` is the other half: who has no headers got an answer
without them, which from this server is a failure (`FailedEmpty`, `RefusedBare`). `SignedAccepted` follows with `KeptSecret`; `SystemTypeOK` is proved
on the way.

### Provisioning

`ProvisioningProofs`: `Spec => []IInv`, and from it `TypeOK`, `ServedAsWritten` and `ServedReady`, for any
set of Caddyfiles of any length and any bound on loads.

- `ServedAsWritten` is about two nested folds, so it needs induction over the length of a sequence, and the
  provers cannot instantiate an induction theorem that takes a predicate. `FoldProofs` states both
  facts without one. `IntervalInduction` takes a set of numbers instead, and follows from the theorem that
  `<` is well-founded. `FoldSteps` says that `FoldLeft` goes through a sequence from the first element to
  the last; that the recursive function inside it exists at all is part of the proof (`RecursionSound`).
  The operator folded is a constant of that module, which is instantiated for the items of a
  block and for the blocks of a Caddyfile.
- `ItemsTo` and `BlocksTo` are the invariants of the two loops: of what has been read so far the last item
  of a kind and the last block of a name count, and no other network is touched. A network that
  an earlier Caddyfile left behind is replaced when its block begins (`Open`), so nothing of it remains.
- `Progress` says of the instance being loaded what is already true of the parts it has been through. It
  asks nothing of the map of networks the instance was made from, so `ServedReady` does not depend on what
  has been read and rejected before.

### Only model-checked

`RoundsEnd`, `CaughtUpRecovers`, `DeadDemoted`, `RequestEnds`, `SessionReturns`, `AcceptedAgain` and
`LoadEnds`: liveness under fairness needs `ENABLED`, which the prover does not handle. The runs that
disprove a comment are about single behaviours, for which a proof adds nothing.

## 6. Not modelled, and why

- Of the Caddyfile: its syntax, and the values of options other than the interval (their effects are
  constants of the models: thresholds, limits, attempt counts, priorities). The default URL of the
  sessions is the provider's with `/auth` appended (din_middleware.go:258), while the server answers at
  `/auth` exactly (server.go:118), so a provider with a path needs the URL written out, as in the
  example; the model has it right.
- Two Caddyfiles parsed at the same time by one process, through the admin API.
- The poller and renewal goroutines that a replaced instance leaves behind (network.go:67): they share
  nothing with the new one.
- The request's path and headers after `Select`, payloads, durations, logging, metric labels:
  formatting and output.
- Process restart of the router outside of `Provisioning`: nothing is persisted; a restart is the
  initial state.
- `network.close`, `closeAll`, `SIWEClientAuth.Stop`: nothing calls them. `SIWEClientAuth.Error` only
  reads and has no caller.
- What a message of the SIWE protocol contains, and the choice of a session by the hash of a header:
  any session may be chosen.

## 7. Plan

1. `Network` with bounded integers, for heights near the end of their range: which of its theorems need
   the sum of height and lag limit not to wrap (network.go:133, 182).
2. Weaker assumptions where a proof does not use all of one: lifetimes below the margin in `Sessions`
   (`UsesRespected` does not depend on them).
3. That `Provisioning` hands `Network` and `Sessions` only constants that satisfy their assumptions, which
   the code does not check everywhere (no sessions, a negative threshold).
