------------------------ MODULE SignedRequestsProofs ------------------------
(***************************************************************************)
(* Theorems about SignedRequests, for any number of sessions and signers,  *)
(* any lifetimes, clocks and delays: the client implements Sessions, whose *)
(* invariant thus holds here, too, and a request that is in time is        *)
(* accepted.                                                               *)
(***************************************************************************)
EXTENDS SignedRequests, SessionsProofs

----------------------------------------------------------------------------
(* The inductive invariant.                                                *)

\* This server grants no counted tokens, and none that never expires.
Uncounted == /\ \A i \in Sessions : SessionTokens[i].uses = NoValue /\ fetched[i].uses = NoValue
             /\ \A s \in Signers : at[s].uses = NoValue

Renewing == \A i \in Sessions : i < starting => step[i] # "none"

\* What is left of a JWT at the server while its string is the reply, ...
ReplyLeft == \A i \in Sessions :
               reply[i] # NoValue => /\ jwt[reply[i]].left >= Lifetime - MaxTravel
                                     /\ jwt[reply[i]].left >= 0

\* ... the token fetched, which lasts at the server as long as at the client, ...
FetchedLeft ==
  \A i \in Sessions :
    (step[i] = "store" /\ fetched[i] # Empty)
    => /\ fetched[i].headers # NoValue /\ fetched[i].exp # NoValue
       /\ jwt[fetched[i].headers].left + Skew >= fetched[i].exp

\* ... the header of a session, which need not be that of the same token as its
\* expiration, ...
SessionLeft ==
  \A i \in Sessions :
    SessionTokens[i].headers # NoValue
    => jwt[SessionTokens[i].headers].left + Skew + overdue[i]
         >= Margin + (IF step[i] = "timer" THEN due[i] ELSE 0)

\* ... the copy of a signer, ...
CopyLeft ==
  \A s \in Signers :
    (pc[s] = "use" /\ at[s].headers # NoValue)
    => jwt[at[s].headers].left + Skew + slack[s] >= Margin

\* ... and a request on its way.
RequestLeft ==
  \A s \in Signers :
    (request[s] # NoValue /\ request[s].key # NoValue)
    => jwt[request[s].key].left + Skew + slack[s] + request[s].travel >= Margin

OneAtATime == \A s \in Signers : request[s] # NoValue => pc[s] = "idle"

\* A GetToken fails by returning an empty token, and only then.
FailedEmpty == \A i \in Sessions : step[i] = "store" => (failed[i] <=> fetched[i] = Empty)

RefusedBare == \A i \in Sessions : refused[i] => bare[i]

\* A copy has expired only after a refusal or when the renewal was overdue, ...
CopyFresh == \A s \in Signers :
               (pc[s] = "use" /\ ~SomeBare /\ slack[s] <= Margin) => ~Expired(at[s])

\* ... and so has no request gone out without headers otherwise.
RequestBare ==
  \A s \in Signers :
    (request[s] # NoValue /\ request[s].key = NoValue /\ slack[s] <= Margin) => SomeBare

KeptSecret == \A k \in Keys : jwt[k].kept => jwt[k].secret = Secret

SystemIInv == /\ IInv
              /\ SystemTypeOK
              /\ Uncounted
              /\ Renewing
              /\ ReplyLeft
              /\ FetchedLeft
              /\ SessionLeft
              /\ CopyLeft
              /\ RequestLeft
              /\ OneAtATime
              /\ FailedEmpty
              /\ RefusedBare
              /\ CopyFresh
              /\ RequestBare
              /\ KeptSecret
----------------------------------------------------------------------------
(* Lemmas about the operators of the model.                                *)

Has(k) == \/ \E i \in Sessions : \/ reply[i] = k
                                 \/ SessionTokens[i].headers = k
                                 \/ fetched[i].headers = k
          \/ \E s \in Signers : \/ at[s].headers = k
                                \/ request[s] # NoValue /\ request[s].key = k

\* Who holds a string.
LEMMA HeldStrings ==
  /\ \A k : k \in Held <=> k # NoValue /\ Has(k)
  /\ \A k : k \in Held' <=> k # NoValue /\ Has(k)'
<1>1. \A k : k \in Held <=> k # NoValue /\ Has(k)
  BY DEF Held, Has
<1>2. \A k : k \in Held' <=> k # NoValue /\ Has(k)'
  BY DEF Held, Has
<1>. QED BY <1>1, <1>2

\* Two sets that need not be disjoint.
LEMMA UnionCounted ==
  ASSUME NEW S, NEW T, IsFiniteSet(S), IsFiniteSet(T)
  PROVE  /\ IsFiniteSet(S \cup T)
         /\ Cardinality(S \cup T) \in Nat
         /\ Cardinality(S \cup T) <= Cardinality(S) + Cardinality(T)
<1>1. /\ Cardinality(S) \in Nat /\ Cardinality(T) \in Nat
      /\ IsFiniteSet(S \cap T) /\ Cardinality(S \cap T) \in Nat
  BY FS_CardinalityType, FS_Intersection
<1>2. /\ IsFiniteSet(S \cup T)
      /\ Cardinality(S \cup T) = Cardinality(S) + Cardinality(T) - Cardinality(S \cap T)
  BY FS_Union
<1>3. Cardinality(S \cup T) \in Nat
  BY <1>2, FS_CardinalityType
<1>. QED BY <1>1, <1>2, <1>3

LEMMA CopiesCounted ==
  ASSUME NEW n, NEW S, IsFiniteSet(S)
  PROVE  IsFiniteSet({n} \X S) /\ Cardinality({n} \X S) = Cardinality(S)
<1>1. IsFiniteSet({n}) /\ Cardinality({n}) = 1
  BY FS_Singleton
<1>2. Cardinality(S) \in Nat
  BY FS_CardinalityType
<1>. QED BY <1>1, <1>2, FS_Product

\* The places a string can be held in, but for one reply.
LEMMA PlacesCounted ==
  ASSUME NEW i \in Sessions, NEW D,
         D = ({1} \X (Sessions \ {i})) \cup (({2} \X Sessions)
               \cup (({3} \X Sessions) \cup (({4} \X Signers) \cup ({5} \X Signers))))
  PROVE  IsFiniteSet(D) /\ Cardinality(D) < 3 * SessionCount + 2 * Cardinality(Signers)
<1>. DEFINE D5 == {5} \X Signers
            D4 == ({4} \X Signers) \cup D5
            D3 == ({3} \X Sessions) \cup D4
            D2 == ({2} \X Sessions) \cup D3
<1>1. /\ IsFiniteSet(Sessions) /\ Cardinality(Sessions) = SessionCount
      /\ IsFiniteSet(Signers) /\ Cardinality(Signers) \in Nat
      /\ SessionCount \in Nat
  BY SessionsCounted, SessionsAssumption, FS_CardinalityType
<1>2. IsFiniteSet(Sessions \ {i}) /\ Cardinality(Sessions \ {i}) = SessionCount - 1
  BY <1>1, FS_RemoveElement
<1>3. IsFiniteSet(D5) /\ Cardinality(D5) = Cardinality(Signers)
  BY <1>1, CopiesCounted
<1>4. /\ IsFiniteSet({4} \X Signers) /\ Cardinality({4} \X Signers) = Cardinality(Signers)
      /\ IsFiniteSet({3} \X Sessions) /\ Cardinality({3} \X Sessions) = SessionCount
      /\ IsFiniteSet({2} \X Sessions) /\ Cardinality({2} \X Sessions) = SessionCount
      /\ IsFiniteSet({1} \X (Sessions \ {i}))
      /\ Cardinality({1} \X (Sessions \ {i})) = SessionCount - 1
  BY <1>1, <1>2, CopiesCounted
<1>. HIDE DEF D5
<1>5. /\ IsFiniteSet(D4) /\ Cardinality(D4) \in Nat
      /\ Cardinality(D4) <= Cardinality(Signers) + Cardinality(D5)
  <2>1. /\ IsFiniteSet(D4) /\ Cardinality(D4) \in Nat
        /\ Cardinality(D4) <= Cardinality({4} \X Signers) + Cardinality(D5)
    BY <1>3, <1>4, UnionCounted
  <2>. QED BY <1>4, <2>1
<1>. HIDE DEF D4
<1>6. /\ IsFiniteSet(D3) /\ Cardinality(D3) \in Nat
      /\ Cardinality(D3) <= SessionCount + Cardinality(D4)
  <2>1. /\ IsFiniteSet(D3) /\ Cardinality(D3) \in Nat
        /\ Cardinality(D3) <= Cardinality({3} \X Sessions) + Cardinality(D4)
    BY <1>4, <1>5, UnionCounted
  <2>. QED BY <1>4, <2>1
<1>. HIDE DEF D3
<1>7. /\ IsFiniteSet(D2) /\ Cardinality(D2) \in Nat
      /\ Cardinality(D2) <= SessionCount + Cardinality(D3)
  <2>1. /\ IsFiniteSet(D2) /\ Cardinality(D2) \in Nat
        /\ Cardinality(D2) <= Cardinality({2} \X Sessions) + Cardinality(D3)
    BY <1>4, <1>6, UnionCounted
  <2>. QED BY <1>4, <2>1
<1>8. D = ({1} \X (Sessions \ {i})) \cup D2
  BY DEF D2, D3, D4, D5
<1>. HIDE DEF D2
<1>9. /\ IsFiniteSet(D) /\ Cardinality(D) \in Nat
      /\ Cardinality(D) <= SessionCount - 1 + Cardinality(D2)
  <2>1. /\ IsFiniteSet(D) /\ Cardinality(D) \in Nat
        /\ Cardinality(D) <= Cardinality({1} \X (Sessions \ {i})) + Cardinality(D2)
    BY <1>4, <1>7, <1>8, UnionCounted
  <2>. QED BY <1>4, <2>1
<1>. QED BY <1>1, <1>3, <1>5, <1>6, <1>7, <1>9

\* The server always has a string nobody holds: the keys of the model are as good
\* as the unbounded supply of the code (server.go:125-146).
LEMMA FreeKey ==
  ASSUME NEW i \in Sessions, reply[i] = NoValue
  PROVE  \E k \in Keys : k \notin Held
<1>. SUFFICES ASSUME \A k \in Keys : k \in Held
              PROVE  FALSE
  OBVIOUS
<1>. DEFINE D == ({1} \X (Sessions \ {i})) \cup (({2} \X Sessions)
                   \cup (({3} \X Sessions) \cup (({4} \X Signers) \cup ({5} \X Signers))))
            At(d) == IF d[1] = 1 THEN reply[d[2]]
                     ELSE IF d[1] = 2 THEN SessionTokens[d[2]].headers
                     ELSE IF d[1] = 3 THEN fetched[d[2]].headers
                     ELSE IF d[1] = 4 THEN at[d[2]].headers ELSE request[d[2]].key
<1>1. ASSUME NEW k \in Keys
      PROVE  \E d \in D : At(d) = k
  <2>1. Has(k) /\ k # NoValue
    BY HeldStrings
  <2>2. CASE \E j \in Sessions : reply[j] = k
    <3>1. PICK j \in Sessions : reply[j] = k
      BY <2>2
    <3>2. <<1, j>> \in D /\ At(<<1, j>>) = k
      BY <2>1, <3>1
    <3>. QED BY <3>2
  <2>3. CASE \E j \in Sessions : SessionTokens[j].headers = k
    <3>1. PICK j \in Sessions : SessionTokens[j].headers = k
      BY <2>3
    <3>2. <<2, j>> \in D /\ At(<<2, j>>) = k
      BY <3>1
    <3>. QED BY <3>2
  <2>4. CASE \E j \in Sessions : fetched[j].headers = k
    <3>1. PICK j \in Sessions : fetched[j].headers = k
      BY <2>4
    <3>2. <<3, j>> \in D /\ At(<<3, j>>) = k
      BY <3>1
    <3>. QED BY <3>2
  <2>5. CASE \E s \in Signers : at[s].headers = k
    <3>1. PICK s \in Signers : at[s].headers = k
      BY <2>5
    <3>2. <<4, s>> \in D /\ At(<<4, s>>) = k
      BY <3>1
    <3>. QED BY <3>2
  <2>6. CASE \E s \in Signers : request[s] # NoValue /\ request[s].key = k
    <3>1. PICK s \in Signers : request[s].key = k
      BY <2>6
    <3>2. <<5, s>> \in D /\ At(<<5, s>>) = k
      BY <3>1
    <3>. QED BY <3>2
  <2>. QED BY <2>1, <2>2, <2>3, <2>4, <2>5, <2>6 DEF Has
<1>. HIDE DEF At
<1>. DEFINE f == [k \in Keys |-> CHOOSE d \in D : At(d) = k]
<1>2. \A k \in Keys : f[k] \in D /\ At(f[k]) = k
  BY <1>1
<1>3. f \in [Keys -> D]
  BY <1>2
<1>4. /\ IsFiniteSet(D) /\ Cardinality(D) \in Nat
      /\ Cardinality(D) < 3 * SessionCount + 2 * Cardinality(Signers)
  BY PlacesCounted, FS_CardinalityType
<1>5. /\ IsFiniteSet(Keys) /\ Cardinality(Keys) \in Nat /\ Cardinality(Signers) \in Nat
      /\ SessionCount \in Nat
      /\ Cardinality(Keys) >= 3 * SessionCount + 2 * Cardinality(Signers)
  BY SignedAssumption, SessionsAssumption, FS_CardinalityType
<1>6. Cardinality(D) < Cardinality(Keys)
  BY <1>4, <1>5
<1>. HIDE DEF f, D
<1>7. PICK k, l \in Keys : k # l /\ f[k] = f[l]
  BY <1>3, <1>4, <1>5, <1>6, FS_PigeonHole
<1>. QED BY <1>2, <1>7
----------------------------------------------------------------------------
(* What the invariant says of strings, numbers and sessions.               *)

JWT == [secret : 0..MaxLoads + 1 \cup {NoValue}, left : 0..Lifetime, kept : BOOLEAN]

LEMMA Numbers ==
  ASSUME SystemIInv
  PROVE  /\ {Skew, Margin, Lifetime, MaxTravel, MaxLoads} \subseteq Nat
         /\ \A i \in Sessions : overdue[i] \in Nat /\ due[i] \in Nat
         /\ \A s \in Signers : slack[s] \in Nat
         /\ \A k \in Keys : jwt[k].left \in Nat
         /\ \A s \in Signers : request[s] # NoValue => request[s].travel \in Nat
BY SignedAssumption, SessionsAssumption DEF SystemIInv, IInv, TypeOK, SystemTypeOK

\* Everything that is held is a key.
LEMMA Strings ==
  ASSUME SystemIInv
  PROVE  /\ \A i \in Sessions : /\ reply[i] \in Keys \cup {NoValue}
                                /\ SessionTokens[i].headers \in Keys \cup {NoValue}
                                /\ fetched[i].headers \in Keys \cup {NoValue}
         /\ \A s \in Signers : /\ at[s].headers \in Keys \cup {NoValue}
                               /\ request[s] # NoValue => request[s].key \in Keys \cup {NoValue}
         /\ Held \subseteq Keys
<1>1. \A t \in AuthToken : t.headers \in Keys \cup {NoValue}
  BY SignedAssumption DEF AuthToken
<1>2. /\ \A i \in Sessions : /\ reply[i] \in Keys \cup {NoValue}
                             /\ SessionTokens[i].headers \in Keys \cup {NoValue}
                             /\ fetched[i].headers \in Keys \cup {NoValue}
      /\ \A s \in Signers : /\ at[s].headers \in Keys \cup {NoValue}
                            /\ request[s] # NoValue => request[s].key \in Keys \cup {NoValue}
  BY <1>1 DEF SystemIInv, IInv, TypeOK, SystemTypeOK
<1>3. Held \subseteq Keys
  BY <1>2, HeldStrings DEF Has
<1>. QED BY <1>2, <1>3

\* What is held stays at least as good as it was.
LEMMA LeftsKept ==
  ASSUME SystemIInv, UNCHANGED <<vars, request, slack>>,
         \A k \in Held : jwt'[k].left = jwt[k].left
  PROVE  FetchedLeft' /\ SessionLeft' /\ CopyLeft' /\ RequestLeft'
<1>1. UNCHANGED <<SessionTokens, step, due, fetched, overdue, pc, at, request, slack>>
  BY DEF vars, renewVars, signVars, ghostVars
<1>2. FetchedLeft'
  <2>1. \A i \in Sessions : fetched[i].headers # NoValue
                            => jwt'[fetched[i].headers].left = jwt[fetched[i].headers].left
    BY HeldStrings DEF Has
  <2>. QED BY <1>1, <2>1 DEF SystemIInv, FetchedLeft
<1>3. SessionLeft'
  <2>1. \A i \in Sessions :
          SessionTokens[i].headers # NoValue
          => jwt'[SessionTokens[i].headers].left = jwt[SessionTokens[i].headers].left
    BY HeldStrings DEF Has
  <2>. QED BY <1>1, <2>1 DEF SystemIInv, SessionLeft
<1>4. CopyLeft'
  <2>1. \A s \in Signers : at[s].headers # NoValue
                           => jwt'[at[s].headers].left = jwt[at[s].headers].left
    BY HeldStrings DEF Has
  <2>. QED BY <1>1, <2>1 DEF SystemIInv, CopyLeft
<1>5. RequestLeft'
  <2>1. \A s \in Signers : (request[s] # NoValue /\ request[s].key # NoValue)
                           => jwt'[request[s].key].left = jwt[request[s].key].left
    BY HeldStrings DEF Has
  <2>. QED BY <1>1, <2>1 DEF SystemIInv, RequestLeft
<1>. QED BY <1>2, <1>3, <1>4, <1>5

\* The parts that do not speak of the server or of what is on its way to the client.
ClientParts == /\ Uncounted /\ Renewing /\ OneAtATime
               /\ FailedEmpty /\ RefusedBare /\ CopyFresh /\ RequestBare

LEMMA ClientPartsKept ==
  ASSUME SystemIInv, UNCHANGED <<vars, request, slack>>
  PROVE  ClientParts'
BY DEF vars, renewVars, signVars, ghostVars, SystemIInv, ClientParts, Uncounted, Renewing,
       OneAtATime, FailedEmpty, RefusedBare, SomeBare, CopyFresh, RequestBare, Expired
----------------------------------------------------------------------------
(* What each action does to the invariant.                                 *)

LEMMA PostStep ==
  ASSUME SystemIInv, IInv', NEW i \in Sessions, Post(i)
  PROVE  SystemIInv'
<1>. DEFINE key == CHOOSE k \in Keys : k \notin Held
            fresh == [secret |-> Secret, left |-> Lifetime, kept |-> TRUE]
<1>1. key \in Keys /\ key \notin Held
  BY FreeKey DEF Post
<1>. HIDE DEF key
<1>2. /\ jwt' = [k \in Keys |-> IF k = key THEN fresh
                                ELSE IF k \in Held THEN jwt[k] ELSE Server!Unissued]
      /\ reply' = [reply EXCEPT ![i] = key]
      /\ UNCHANGED <<parsed, Secret, Whitelist, loads, vars, request, slack>>
  BY DEF Post, Server!createSession, Server!Issue, key
<1>3. Secret \in 0..MaxLoads + 1 /\ Secret # NoValue
  BY SessionsAssumption, SignedAssumption DEF SystemIInv, SystemTypeOK
<1>4. fresh \in JWT /\ Server!Unissued \in JWT
  BY <1>3, SignedAssumption DEF JWT, Server!Unissued
<1>5. \A k \in Held : k \in Keys /\ k # key /\ jwt'[k] = jwt[k]
  BY <1>1, <1>2, Strings
<1>6. jwt'[key] = fresh
  BY <1>1, <1>2
<1>7. SystemTypeOK'
  <2>1. jwt' \in [Keys -> JWT]
    BY <1>2, <1>4 DEF SystemIInv, SystemTypeOK, JWT
  <2>2. \A k \in Held' : k = key \/ k \in Held
    <3>1. UNCHANGED <<SessionTokens, fetched, at, request>>
      BY <1>2 DEF vars, renewVars, signVars
    <3>. QED BY <1>2, <3>1, HeldStrings DEF Has, SystemIInv, SystemTypeOK
  <2>3. \A k \in Held' : jwt'[k].secret # NoValue
    BY <1>3, <1>5, <1>6, <2>2 DEF SystemIInv, SystemTypeOK
  <2>4. reply' \in [Sessions -> Keys \cup {NoValue}]
    BY <1>1, <1>2 DEF SystemIInv, SystemTypeOK
  <2>. QED BY <1>2, <2>1, <2>3, <2>4 DEF SystemIInv, SystemTypeOK, JWT
<1>8. FetchedLeft' /\ SessionLeft' /\ CopyLeft' /\ RequestLeft'
  BY <1>2, <1>5, LeftsKept
<1>9. ReplyLeft'
  <2>1. \A j \in Sessions : reply'[j] = IF j = i THEN key ELSE reply[j]
    BY <1>2 DEF SystemIInv, SystemTypeOK
  <2>2. \A j \in Sessions : reply[j] # NoValue => reply[j] \in Held
    BY HeldStrings DEF Has
  <2>3. Lifetime >= Lifetime - MaxTravel /\ Lifetime >= 0
    BY SignedAssumption
  <2>. QED BY <1>5, <1>6, <2>1, <2>2, <2>3 DEF SystemIInv, ReplyLeft
<1>10. KeptSecret'
  BY <1>2 DEF SystemIInv, KeptSecret, Server!Unissued
<1>. QED BY <1>2, <1>7, <1>8, <1>9, <1>10, ClientPartsKept DEF SystemIInv, ClientParts

LEMMA OperateStep ==
  ASSUME SystemIInv, IInv', Operate
  PROVE  SystemIInv'
<1>1. /\ UNCHANGED <<vars, reply, request, slack>>
      /\ \E f \in Files, old \in {NoValue, parsed} :
           Server!Load(f, old) /\ parsed' \in {parsed, Secret'}
  BY DEF Operate, wireVars, Server!Restart, Server!Reload, Server!ReloadFromOutside
<1>2. PICK f \in Files, old \in {NoValue, parsed} :
        Server!Load(f, old) /\ parsed' \in {parsed, Secret'}
  BY <1>1
<1>3. /\ loads < MaxLoads /\ loads' = loads + 1
      /\ Secret' = Server!Parsed(f, old)
      /\ Whitelist' = f.whitelist
      /\ jwt' = [k \in Keys |-> [jwt[k] EXCEPT !.kept = @ /\ Server!Keeps(f, old)]]
  BY <1>2 DEF Server!Load
<1>4. /\ loads \in 0..MaxLoads /\ Secret \in 0..MaxLoads + 1 /\ parsed \in 0..MaxLoads + 1
      /\ NoValue \notin Int /\ MaxLoads \in Nat /\ f.secret \in {0, NoValue}
  BY SessionsAssumption, SignedAssumption DEF SystemIInv, SystemTypeOK
<1>. DEFINE keeps == Server!Keeps(f, old)
<1>5. Secret' \in 0..MaxLoads + 1 /\ keeps \in BOOLEAN /\ (keeps => Secret' = Secret)
  <2>1. CASE f.secret # NoValue
    BY <1>3, <1>4, <2>1 DEF Server!Parsed, Server!Keeps
  <2>2. CASE f.secret = NoValue
    <3>1. keeps <=> old = Secret
      BY <2>2 DEF Server!Keeps
    <3>2. Secret' = IF old # NoValue THEN old ELSE loads + 2
      BY <1>3, <2>2 DEF Server!Parsed
    <3>3. keeps \in BOOLEAN
      BY <2>2 DEF Server!Keeps
    <3>. HIDE DEF keeps
    <3>4. old \in {NoValue, parsed} /\ Secret # NoValue
      BY <1>4
    <3>5. CASE keeps
      BY <1>4, <3>1, <3>2, <3>3, <3>4, <3>5
    <3>6. CASE ~keeps
      <4>1. loads + 2 \in 0..MaxLoads + 1
        BY <1>3, <1>4
      <4>. QED BY <1>4, <3>2, <3>3, <3>4, <3>6, <4>1
    <3>. QED BY <3>5, <3>6
  <2>. QED BY <2>1, <2>2
<1>. HIDE DEF keeps
<1>6. \A k \in Keys : /\ jwt'[k] \in JWT
                      /\ jwt'[k].secret = jwt[k].secret
                      /\ jwt'[k].left = jwt[k].left
                      /\ jwt'[k].kept => jwt[k].kept /\ keeps
  <2>. SUFFICES ASSUME NEW k \in Keys
                PROVE  LET new == [jwt[k] EXCEPT !.kept = @ /\ keeps]
                       IN /\ new \in JWT
                          /\ new.secret = jwt[k].secret
                          /\ new.left = jwt[k].left
                          /\ new.kept => jwt[k].kept /\ keeps
    BY <1>3 DEF keeps
  <2>1. jwt[k] \in JWT
    BY DEF SystemIInv, SystemTypeOK, JWT
  <2>. QED BY <1>5, <2>1 DEF JWT
<1>7. SystemTypeOK'
  <2>1. jwt' \in [Keys -> JWT]
    BY <1>3, <1>6
  <2>2. Held' = Held
    <3>1. UNCHANGED <<SessionTokens, fetched, at, request, reply>>
      BY <1>1 DEF vars, renewVars, signVars
    <3>. QED BY <3>1 DEF Held
  <2>3. \A k \in Held' : jwt'[k].secret # NoValue
    BY <1>6, <2>2, Strings DEF SystemIInv, SystemTypeOK
  <2>4. loads' \in 0..MaxLoads /\ parsed' \in 0..MaxLoads + 1
    BY <1>2, <1>3, <1>4, <1>5
  <2>. QED BY <1>1, <1>3, <1>5, <2>1, <2>3, <2>4 DEF SystemIInv, SystemTypeOK, JWT
<1>8. FetchedLeft' /\ SessionLeft' /\ CopyLeft' /\ RequestLeft'
  BY <1>1, <1>6, Strings, LeftsKept
<1>9. ReplyLeft'
  BY <1>1, <1>6, Strings DEF SystemIInv, ReplyLeft
<1>10. KeptSecret'
  BY <1>5, <1>6 DEF SystemIInv, KeptSecret
<1>. QED BY <1>1, <1>7, <1>8, <1>9, <1>10, ClientPartsKept DEF SystemIInv, ClientParts

LEMMA ElapseStep ==
  ASSUME SystemIInv, IInv', Elapse
  PROVE  SystemIInv'
<1>1. /\ \A i \in Sessions : step[i] # "store"
      /\ \A s \in Signers : pc[s] # "use"
      /\ SessionTokens' = [i \in Sessions |-> Aged(SessionTokens[i])]
      /\ due' = [i \in Sessions |-> IF due[i] > 0 THEN due[i] - 1 ELSE 0]
      /\ overdue' = [i \in Sessions |-> IF Late(i) /\ overdue[i] <= Margin
                                        THEN overdue[i] + 1 ELSE overdue[i]]
      /\ UNCHANGED <<starting, step, fetched, failed, pc, at, refused, bare>>
  BY DEF Elapse, Tick, signVars
<1>2. /\ jwt' = [k \in Keys |-> IF k \notin Held THEN Server!Unissued
                                ELSE [jwt[k] EXCEPT !.left = IF @ > 0 THEN @ - 1 ELSE 0]]
      /\ request' = [s \in Signers |-> IF request[s] = NoValue THEN NoValue
                                       ELSE [request[s] EXCEPT !.travel = @ + 1]]
      /\ UNCHANGED <<parsed, Secret, Whitelist, loads, reply, slack>>
  BY DEF Elapse, Server!Age
<1>3. \A k \in Held : /\ k \in Keys /\ jwt'[k] \in JWT
                      /\ jwt'[k].left >= jwt[k].left - 1
                      /\ jwt'[k].left \in Nat
                      /\ jwt'[k].secret = jwt[k].secret
                      /\ jwt'[k].kept = jwt[k].kept
  <2>. SUFFICES ASSUME NEW k \in Held
                PROVE  LET new == [jwt[k] EXCEPT !.left = IF @ > 0 THEN @ - 1 ELSE 0]
                       IN /\ k \in Keys /\ new \in JWT
                          /\ new.left >= jwt[k].left - 1
                          /\ new.left \in Nat
                          /\ new.secret = jwt[k].secret
                          /\ new.kept = jwt[k].kept
    BY <1>2, Strings
  <2>1. k \in Keys /\ jwt[k] \in JWT /\ Lifetime \in Nat
    BY Strings, Numbers DEF SystemIInv, SystemTypeOK, JWT
  <2>. QED BY <2>1 DEF JWT
<1>4. \A i \in Sessions : /\ SessionTokens'[i].headers = SessionTokens[i].headers
                          /\ SessionTokens'[i].uses = SessionTokens[i].uses
  <2>. SUFFICES ASSUME NEW i \in Sessions
                PROVE  /\ Aged(SessionTokens[i]).headers = SessionTokens[i].headers
                       /\ Aged(SessionTokens[i]).uses = SessionTokens[i].uses
    BY <1>1
  <2>1. SessionTokens[i] \in AuthToken
    BY DEF SystemIInv, IInv, TypeOK
  <2>. QED BY <2>1 DEF Aged, AuthToken
<1>5. \A s \in Signers :
        request'[s] # NoValue
        => /\ request[s] # NoValue
           /\ request'[s].key = request[s].key
           /\ request'[s].travel = request[s].travel + 1
           /\ request'[s] \in [key : Keys \cup {NoValue}, travel : 0..MaxTravel]
  <2>. SUFFICES ASSUME NEW s \in Signers, request[s] # NoValue
                PROVE  LET new == [request[s] EXCEPT !.travel = @ + 1]
                       IN /\ new.key = request[s].key
                          /\ new.travel = request[s].travel + 1
                          /\ new \in [key : Keys \cup {NoValue}, travel : 0..MaxTravel]
    BY <1>2
  <2>1. request[s] \in [key : Keys \cup {NoValue}, travel : 0..MaxTravel]
    BY DEF SystemIInv, SystemTypeOK
  <2>2. request[s].travel < MaxTravel /\ MaxTravel \in Nat
    BY Numbers DEF Elapse, Arriving
  <2>. QED BY <2>1, <2>2
<1>6. Held' \subseteq Held
  <2>1. \A k : Has(k)' => Has(k)
    BY <1>1, <1>2, <1>4, <1>5 DEF Has
  <2>. QED BY <2>1, HeldStrings
<1>7. SystemTypeOK'
  <2>1. Server!Unissued \in JWT
    BY SignedAssumption DEF JWT, Server!Unissued
  <2>2. jwt' \in [Keys -> JWT]
    <3>1. \A k \in Keys : jwt'[k] \in JWT
      BY <1>2, <1>3, <2>1
    <3>. QED BY <1>2, <3>1
  <2>3. \A k \in Held' : jwt'[k].secret # NoValue
    BY <1>3, <1>6 DEF SystemIInv, SystemTypeOK
  <2>. QED BY <1>2, <1>5, <2>2, <2>3 DEF SystemIInv, SystemTypeOK, JWT
<1>8. Uncounted' /\ Renewing' /\ OneAtATime' /\ RefusedBare' /\ CopyFresh' /\ RequestBare'
  BY <1>1, <1>2, <1>4, <1>5
  DEF SystemIInv, Uncounted, Renewing, OneAtATime, RefusedBare, SomeBare, CopyFresh, RequestBare
<1>14. FailedEmpty'
  BY <1>1 DEF FailedEmpty
<1>9. ReplyLeft'
  <2>. SUFFICES ASSUME NEW i \in Sessions, reply[i] # NoValue
                PROVE  jwt'[reply[i]].left >= Lifetime - MaxTravel /\ jwt'[reply[i]].left >= 0
    BY <1>2 DEF ReplyLeft
  <2>1. reply[i] \in Held
    BY HeldStrings DEF Has
  <2>2. jwt[reply[i]].left > Lifetime - MaxTravel
    BY DEF Elapse, Arriving
  <2>. QED BY <1>3, <2>1, <2>2, Numbers
<1>10. FetchedLeft' /\ CopyLeft'
  BY <1>1 DEF FetchedLeft, CopyLeft
<1>11. SessionLeft'
  <2>. SUFFICES ASSUME NEW i \in Sessions, SessionTokens[i].headers # NoValue
                PROVE  jwt'[SessionTokens[i].headers].left + Skew + overdue'[i]
                         >= Margin + (IF step[i] = "timer" THEN due'[i] ELSE 0)
    BY <1>1, <1>4 DEF SessionLeft
  <2>. DEFINE k == SessionTokens[i].headers
  <2>1. k \in Held
    BY HeldStrings DEF Has
  <2>. HIDE DEF k
  <2>2. /\ jwt'[k].left >= jwt[k].left - 1 /\ jwt'[k].left \in Nat /\ jwt[k].left \in Nat
        /\ Skew \in Nat /\ Margin \in Nat /\ overdue[i] \in Nat /\ due[i] \in Nat
    BY <1>3, <2>1, Numbers
  <2>3. jwt[k].left + Skew + overdue[i] >= Margin + (IF step[i] = "timer" THEN due[i] ELSE 0)
    BY DEF SystemIInv, SessionLeft, k
  <2>4. step[i] \in {"timer", "post"}
    <3>1. i < starting
      BY SessionsAssumption DEF SystemIInv, IInv, Unstarted, TypeOK, Empty, Sessions
    <3>2. step[i] \in {"none", "timer", "post", "store"}
      BY DEF SystemIInv, IInv, TypeOK
    <3>. QED BY <1>1, <3>1, <3>2 DEF SystemIInv, Renewing
  <2>5. /\ due'[i] = IF due[i] > 0 THEN due[i] - 1 ELSE 0
        /\ overdue'[i] = IF Late(i) /\ overdue[i] <= Margin THEN overdue[i] + 1 ELSE overdue[i]
    BY <1>1
  <2>6. CASE step[i] = "timer" /\ due[i] > 0
    <3>1. due'[i] = due[i] - 1 /\ overdue'[i] = overdue[i]
      BY <2>5, <2>6 DEF Late
    <3>. QED BY <2>2, <2>3, <2>6, <3>1 DEF k
  <2>7. CASE ~(step[i] = "timer" /\ due[i] > 0)
    <3>1. Late(i) /\ (step[i] = "timer" => due[i] = 0 /\ due'[i] = 0)
      BY <2>2, <2>4, <2>5, <2>7 DEF Late
    <3>2. overdue'[i] = IF overdue[i] <= Margin THEN overdue[i] + 1 ELSE overdue[i]
      BY <2>5, <3>1
    <3>3. jwt[k].left + Skew + overdue[i] >= Margin
      BY <2>2, <2>3, <3>1
    <3>4. jwt'[k].left + Skew + overdue'[i] >= Margin
      BY <2>2, <3>2, <3>3
    <3>. QED BY <2>2, <3>1, <3>4 DEF k
  <2>. QED BY <2>6, <2>7
<1>12. RequestLeft'
  <2>. SUFFICES ASSUME NEW s \in Signers, request'[s] # NoValue, request'[s].key # NoValue
                PROVE  jwt'[request'[s].key].left + Skew + slack'[s] + request'[s].travel >= Margin
    BY DEF RequestLeft
  <2>1. /\ request[s] # NoValue
        /\ request'[s].key = request[s].key
        /\ request'[s].travel = request[s].travel + 1
    BY <1>5
  <2>2. request[s].key \in Held
    BY <2>1, HeldStrings DEF Has
  <2>3. jwt[request[s].key].left + Skew + slack[s] + request[s].travel >= Margin
    BY <2>1 DEF SystemIInv, RequestLeft
  <2>4. jwt'[request[s].key].left >= jwt[request[s].key].left - 1
    BY <1>3, <2>2
  <2>5. /\ jwt'[request[s].key].left \in Nat /\ jwt[request[s].key].left \in Nat
        /\ request[s].travel \in Nat /\ Skew \in Nat /\ slack[s] \in Nat /\ Margin \in Nat
    BY <1>3, <2>1, <2>2, Numbers
  <2>. QED BY <1>2, <2>1, <2>3, <2>4, <2>5
<1>13. KeptSecret'
  BY <1>2, <1>3 DEF SystemIInv, KeptSecret, Server!Unissued
<1>. QED BY <1>7, <1>8, <1>9, <1>10, <1>11, <1>12, <1>13, <1>14 DEF SystemIInv

\* What a reply that arrives grants.
LEMMA ReplyGrants ==
  ASSUME SystemIInv, NEW i \in Sessions, reply[i] # NoValue
  PROVE  /\ Grant(i) \in Grants
         /\ Token(Grant(i)) = Grant(i)
         /\ reply[i] \in Keys
         /\ Grant(i).headers = reply[i] /\ Grant(i).uses = NoValue
         /\ Grant(i).exp = jwt[reply[i]].left + Skew
         /\ Grant(i).exp \in Nat /\ Grant(i).exp >= Margin /\ Grant(i).exp # NoValue
         /\ Grant(i) # Empty
<1>1. /\ reply[i] \in Keys /\ jwt[reply[i]].left \in 0..Lifetime
      /\ jwt[reply[i]].left >= Lifetime - MaxTravel
  BY Strings DEF SystemIInv, SystemTypeOK, ReplyLeft
<1>2. /\ {Lifetime, MaxTravel, Skew, Margin} \subseteq Nat
      /\ Lifetime - MaxTravel + Skew >= Margin
  BY SignedAssumption, SessionsAssumption
<1>3. Grant(i).exp \in Lifetime - MaxTravel + Skew..Lifetime + Skew
  BY <1>1, <1>2 DEF Grant
<1>4. Grant(i) \in Grants
  <2>1. Grants = [headers : Keys, exp : Lifetime - MaxTravel + Skew..Lifetime + Skew,
                  uses : {NoValue}]
    BY SignedAssumption
  <2>. QED BY <1>1, <1>3, <2>1 DEF Grant
<1>5. Token(Grant(i)) = Grant(i)
  BY DEF Token, Grant
<1>6. Grant(i).exp \in Nat /\ Grant(i).exp >= Margin /\ Grant(i).exp # NoValue
  BY <1>1, <1>2, <1>3, SessionsAssumption DEF Grant
<1>. QED BY <1>1, <1>4, <1>5, <1>6 DEF Grant, Empty

LEMMA DeliverStep ==
  ASSUME SystemIInv, IInv', NEW i \in Sessions, Deliver(i)
  PROVE  SystemIInv'
<1>. DEFINE g == Grant(i)
<1>1. reply[i] # NoValue
  BY DEF Deliver
<1>2. /\ Token(g) = g /\ g.headers = reply[i] /\ g.uses = NoValue /\ reply[i] \in Keys
      /\ g.exp = jwt[reply[i]].left + Skew /\ g.exp \in Nat /\ g.exp >= Margin
      /\ g.exp # NoValue /\ g # Empty
  BY <1>1, ReplyGrants
<1>3. /\ reply' = [reply EXCEPT ![i] = NoValue]
      /\ UNCHANGED <<parsed, Secret, Whitelist, loads, jwt, request, slack>>
  BY DEF Deliver, serverVars
<1>. HIDE DEF g
<1>4. /\ \/ /\ starting = i /\ starting' = i + 1
            /\ SessionTokens' = [SessionTokens EXCEPT ![i] = g]
            /\ step' = [step EXCEPT ![i] = "timer"]
            /\ due' = [due EXCEPT ![i] = Timer(g.exp)]
            /\ UNCHANGED <<fetched, failed>>
         \/ /\ step[i] = "post"
            /\ step' = [step EXCEPT ![i] = "store"]
            /\ fetched' = [fetched EXCEPT ![i] = g]
            /\ failed' = [failed EXCEPT ![i] = FALSE]
            /\ UNCHANGED <<starting, SessionTokens, due>>
      /\ UNCHANGED <<pc, at, refused, bare, overdue>>
  <2>3. bare' = [bare EXCEPT ![i] = bare[i] \/ g.headers = NoValue] => UNCHANGED bare
    BY <1>2, SessionsAssumption, SignedAssumption DEF SystemIInv, IInv, TypeOK
  <2>1. CASE starting = i
    <3>1. StartGranted(g)
      BY <2>1 DEF Deliver, g
    <3>. QED BY <1>2, <2>1, <2>3, <3>1 DEF StartGranted, Renew, Noted, signVars
  <2>2. CASE starting # i
    <3>1. Granted(i, g)
      BY <2>2 DEF Deliver, g
    <3>. QED BY <1>2, <2>3, <3>1 DEF Granted, Returned, Noted, signVars
  <2>. QED BY <2>1, <2>2
<1>5. /\ \A j \in Sessions \ {i} : /\ SessionTokens'[j] = SessionTokens[j]
                                   /\ fetched'[j] = fetched[j]
                                   /\ step'[j] = step[j] /\ due'[j] = due[j]
                                   /\ reply'[j] = reply[j]
      /\ reply'[i] = NoValue
      /\ SessionTokens'[i] \in {SessionTokens[i], g} /\ fetched'[i] \in {fetched[i], g}
  BY <1>3, <1>4 DEF SystemIInv, IInv, TypeOK, SystemTypeOK
<1>6. Held' \subseteq Held
  <2>1. \A k : k # NoValue /\ Has(k)' => Has(k)
    BY <1>1, <1>2, <1>3, <1>4, <1>5 DEF Has
  <2>. QED BY <2>1, HeldStrings
<1>7. SystemTypeOK'
  BY <1>3, <1>6 DEF SystemIInv, SystemTypeOK
<1>8. Uncounted'
  BY <1>2, <1>4, <1>5 DEF SystemIInv, Uncounted
<1>9. Renewing'
  <2>. SUFFICES ASSUME NEW j \in Sessions, j < starting'
                PROVE  step'[j] # "none"
    BY DEF Renewing
  <2>1. CASE j = i
    BY <1>4, <2>1 DEF SystemIInv, IInv, TypeOK
  <2>2. CASE j # i
    <3>1. j < starting
      <4>1. j \in Int /\ i \in Int /\ starting \in Int
        BY SessionsAssumption DEF Sessions, SystemIInv, IInv, TypeOK
      <4>2. starting' = starting \/ (starting = i /\ starting' = starting + 1)
        BY <1>4
      <4>. QED BY <2>2, <4>1, <4>2
    <3>. QED BY <1>5, <2>2, <3>1 DEF SystemIInv, Renewing
  <2>. QED BY <2>1, <2>2
<1>10. OneAtATime' /\ RefusedBare' /\ CopyFresh' /\ RequestBare' /\ KeptSecret'
  BY <1>3, <1>4
  DEF SystemIInv, OneAtATime, RefusedBare, SomeBare, CopyFresh, RequestBare, KeptSecret, Expired
<1>15. FailedEmpty'
  BY <1>2, <1>4, <1>5 DEF SystemIInv, FailedEmpty, IInv, TypeOK
<1>11. ReplyLeft'
  BY <1>3, <1>5 DEF SystemIInv, ReplyLeft
<1>12. FetchedLeft'
  BY <1>1, <1>2, <1>3, <1>4, <1>5 DEF SystemIInv, FetchedLeft, IInv, TypeOK
<1>13. SessionLeft'
  <2>1. CASE starting = i /\ SessionTokens' = [SessionTokens EXCEPT ![i] = g]
             /\ step' = [step EXCEPT ![i] = "timer"] /\ due' = [due EXCEPT ![i] = Timer(g.exp)]
    <3>1. SessionTokens'[i] = g /\ step'[i] = "timer" /\ due'[i] = Timer(g.exp)
      BY <2>1 DEF SystemIInv, IInv, TypeOK
    <3>2. Timer(g.exp) + Margin = g.exp /\ Timer(g.exp) \in Nat
      BY <1>2, TimerType
    <3>3. jwt[reply[i]].left + Skew + overdue[i] >= Margin + Timer(g.exp)
      BY <1>2, <3>2, Numbers
    <3>. QED BY <1>2, <1>3, <1>4, <1>5, <3>1, <3>3 DEF SystemIInv, SessionLeft
  <2>2. CASE step[i] = "post" /\ UNCHANGED <<SessionTokens, due>>
             /\ step' = [step EXCEPT ![i] = "store"]
    BY <1>3, <1>4, <1>5, <2>2 DEF SystemIInv, SessionLeft, IInv, TypeOK
  <2>. QED BY <1>4, <2>1, <2>2
<1>14. CopyLeft' /\ RequestLeft'
  BY <1>3, <1>4 DEF SystemIInv, CopyLeft, RequestLeft
<1>. QED BY <1>7, <1>8, <1>9, <1>10, <1>11, <1>12, <1>13, <1>14, <1>15 DEF SystemIInv

LEMMA FailedStep ==
  ASSUME SystemIInv, IInv', NEW i \in Sessions, Refuse(i) \/ Lose(i)
  PROVE  SystemIInv'
<1>. DEFINE lapsed == [Empty EXCEPT !.exp = -1]
<1>1. /\ reply' = [reply EXCEPT ![i] = NoValue]
      /\ UNCHANGED <<parsed, Secret, Whitelist, loads, jwt, request, slack>>
  BY DEF Refuse, Lose, Server!refuseSession, Server!vars, wireVars, serverVars, SystemIInv,
         SystemTypeOK
<1>2. lapsed.headers = NoValue /\ lapsed.uses = NoValue
  BY DEF Empty
<1>. HIDE DEF lapsed
<1>3. /\ \/ /\ starting = i /\ starting' = i + 1
            /\ SessionTokens' = [SessionTokens EXCEPT ![i] = lapsed]
            /\ step' = [step EXCEPT ![i] = "timer"]
            /\ UNCHANGED <<fetched, failed>>
         \/ /\ step[i] = "post"
            /\ step' = [step EXCEPT ![i] = "store"]
            /\ fetched' = [fetched EXCEPT ![i] = Empty]
            /\ failed' = [failed EXCEPT ![i] = TRUE]
            /\ UNCHANGED <<starting, SessionTokens>>
      /\ refused' = [refused EXCEPT ![i] = TRUE]
      /\ bare' = [bare EXCEPT ![i] = TRUE]
      /\ \A j \in Sessions \ {i} : due'[j] = due[j]
      /\ UNCHANGED <<pc, at, overdue>>
  <2>1. Failed(i)
    BY DEF Refuse, Lose
  <2>4. Noted(i, Empty) => bare' = [bare EXCEPT ![i] = TRUE]
    BY DEF Noted, Empty
  <2>2. CASE starting = i
    BY <2>1, <2>2, <2>4, TokenEmpty
    DEF Failed, StartRefused, Renew, signVars, lapsed, SystemIInv, IInv, TypeOK
  <2>3. CASE starting # i
    BY <2>1, <2>3, <2>4, TokenEmpty DEF Failed, Refused, Returned, signVars
  <2>. QED BY <2>2, <2>3
<1>4. Empty.headers = NoValue /\ Empty.uses = NoValue
  BY DEF Empty
<1>5. /\ \A j \in Sessions \ {i} : /\ SessionTokens'[j] = SessionTokens[j]
                                   /\ fetched'[j] = fetched[j]
                                   /\ step'[j] = step[j]
                                   /\ reply'[j] = reply[j]
      /\ reply'[i] = NoValue
      /\ SessionTokens'[i] \in {SessionTokens[i], lapsed} /\ fetched'[i] \in {fetched[i], Empty}
  BY <1>1, <1>3 DEF SystemIInv, IInv, TypeOK, SystemTypeOK
<1>6. Held' \subseteq Held
  <2>1. \A k : k # NoValue /\ Has(k)' => Has(k)
    BY <1>1, <1>2, <1>3, <1>4, <1>5 DEF Has
  <2>. QED BY <2>1, HeldStrings
<1>7. SystemTypeOK'
  BY <1>1, <1>6 DEF SystemIInv, SystemTypeOK
<1>8. Uncounted'
  BY <1>2, <1>3, <1>4, <1>5 DEF SystemIInv, Uncounted
<1>9. Renewing'
  <2>. SUFFICES ASSUME NEW j \in Sessions, j < starting'
                PROVE  step'[j] # "none"
    BY DEF Renewing
  <2>1. CASE j = i
    BY <1>3, <2>1 DEF SystemIInv, IInv, TypeOK
  <2>2. CASE j # i
    <3>1. j < starting
      BY <1>3, <2>2, SessionsAssumption DEF Sessions, SystemIInv, IInv, TypeOK
    <3>. QED BY <1>5, <2>2, <3>1 DEF SystemIInv, Renewing
  <2>. QED BY <2>1, <2>2
<1>10. OneAtATime' /\ CopyFresh' /\ RequestBare' /\ KeptSecret'
  <2>1. SomeBare'
    BY <1>3 DEF SystemIInv, IInv, TypeOK, SomeBare
  <2>. QED BY <1>1, <1>3, <2>1 DEF SystemIInv, OneAtATime, CopyFresh, RequestBare, KeptSecret
<1>15. RefusedBare'
  BY <1>3 DEF SystemIInv, RefusedBare, IInv, TypeOK
<1>16. FailedEmpty'
  BY <1>3, <1>5 DEF SystemIInv, FailedEmpty, IInv, TypeOK
<1>11. ReplyLeft'
  BY <1>1, <1>5 DEF SystemIInv, ReplyLeft
<1>12. FetchedLeft'
  BY <1>1, <1>3, <1>5 DEF SystemIInv, FetchedLeft, IInv, TypeOK
<1>13. SessionLeft'
  <2>1. CASE starting = i /\ SessionTokens' = [SessionTokens EXCEPT ![i] = lapsed]
    <3>1. SessionTokens'[i].headers = NoValue
      BY <1>2, <2>1 DEF SystemIInv, IInv, TypeOK
    <3>. QED BY <1>1, <1>3, <1>5, <3>1 DEF SystemIInv, SessionLeft
  <2>2. CASE step[i] = "post" /\ UNCHANGED SessionTokens
             /\ step' = [step EXCEPT ![i] = "store"]
    BY <1>1, <1>3, <1>5, <2>2 DEF SystemIInv, SessionLeft, IInv, TypeOK
  <2>. QED BY <1>3, <2>1, <2>2
<1>14. CopyLeft' /\ RequestLeft'
  BY <1>1, <1>3 DEF SystemIInv, CopyLeft, RequestLeft
<1>. QED BY <1>7, <1>8, <1>9, <1>10, <1>11, <1>12, <1>13, <1>14, <1>15, <1>16
         DEF SystemIInv

LEMMA FiringStep ==
  ASSUME SystemIInv, IInv', NEW i \in Sessions, Fire(i), UNCHANGED <<serverVars, wireVars>>
  PROVE  SystemIInv'
<1>1. /\ step[i] = "timer" /\ due[i] = 0
      /\ step' = [step EXCEPT ![i] = "post"]
      /\ UNCHANGED <<SessionTokens, starting, due, fetched, failed, pc, at, refused, bare, overdue,
                     parsed, Secret, Whitelist, loads, jwt, reply, request, slack>>
  BY DEF Fire, signVars, ghostVars, serverVars, wireVars
<1>2. \A j \in Sessions : step'[j] = step[j] \/ (j = i /\ step'[j] = "post")
  BY <1>1 DEF SystemIInv, IInv, TypeOK
<1>3. Held' = Held
  BY <1>1 DEF Held
<1>4. SystemTypeOK' /\ Uncounted' /\ Renewing' /\ ReplyLeft' /\ FetchedLeft'
  BY <1>1, <1>2, <1>3
  DEF SystemIInv, SystemTypeOK, Uncounted, Renewing, ReplyLeft, FetchedLeft
<1>5. SessionLeft'
  BY <1>1, <1>2 DEF SystemIInv, SessionLeft
<1>6. /\ CopyLeft' /\ RequestLeft' /\ OneAtATime' /\ RefusedBare'
      /\ CopyFresh' /\ RequestBare' /\ KeptSecret'
  BY <1>1 DEF SystemIInv, CopyLeft, RequestLeft, OneAtATime, RefusedBare, CopyFresh,
     SomeBare, RequestBare, KeptSecret, Expired
<1>7. FailedEmpty'
  BY <1>1, <1>2 DEF SystemIInv, FailedEmpty
<1>. QED BY <1>4, <1>5, <1>6, <1>7 DEF SystemIInv

LEMMA StoringStep ==
  ASSUME SystemIInv, IInv', NEW i \in Sessions, Store(i), UNCHANGED <<serverVars, wireVars>>
  PROVE  SystemIInv'
<1>1. PICK f \in unstored[i] : SessionTokens' = [SessionTokens EXCEPT ![i][f] = fetched[i][f]]
  BY DEF Store
<1>2. /\ step[i] = "store"
      /\ UNCHANGED <<step, starting, due, fetched, failed, pc, at, refused, bare, overdue,
                     parsed, Secret, Whitelist, loads, jwt, reply, request, slack>>
  BY DEF Store, signVars, ghostVars, serverVars, wireVars
<1>3. /\ \A j \in Sessions \ {i} : SessionTokens'[j] = SessionTokens[j]
      /\ SessionTokens'[i].headers \in {SessionTokens[i].headers, fetched[i].headers}
      /\ SessionTokens'[i].uses \in {SessionTokens[i].uses, fetched[i].uses}
  <2>1. SessionTokens[i] \in AuthToken /\ f \in Fields
    BY DEF SystemIInv, IInv, TypeOK
  <2>2. SessionTokens'[i] = [SessionTokens[i] EXCEPT ![f] = fetched[i][f]]
    BY <1>1 DEF SystemIInv, IInv, TypeOK
  <2>3. \A j \in Sessions \ {i} : SessionTokens'[j] = SessionTokens[j]
    BY <1>1 DEF SystemIInv, IInv, TypeOK
  <2>. QED BY <2>1, <2>2, <2>3 DEF AuthToken, Fields
<1>4. Held' \subseteq Held
  <2>1. \A k : Has(k)' => Has(k)
    BY <1>2, <1>3 DEF Has
  <2>. QED BY <2>1, HeldStrings
<1>5. SystemTypeOK' /\ Uncounted' /\ Renewing' /\ ReplyLeft' /\ FetchedLeft'
  BY <1>2, <1>3, <1>4
  DEF SystemIInv, SystemTypeOK, Uncounted, Renewing, ReplyLeft, FetchedLeft
<1>6. SessionLeft'
  <2>1. fetched[i].headers # NoValue
        => jwt[fetched[i].headers].left + Skew + overdue[i] >= Margin
    <3>. SUFFICES ASSUME fetched[i].headers # NoValue
                  PROVE  jwt[fetched[i].headers].left + Skew + overdue[i] >= Margin
      OBVIOUS
    <3>1. fetched[i] # Empty
      BY DEF Empty
    <3>2. /\ jwt[fetched[i].headers].left + Skew >= fetched[i].exp
          /\ fetched[i].exp # NoValue
      BY <1>2, <3>1 DEF SystemIInv, FetchedLeft
    <3>3. fetched[i].exp >= Margin /\ fetched[i].exp \in Int
      BY <1>2, <3>1, <3>2, LeftType
      DEF SystemIInv, IInv, FetchedGood, Outlasts, TypeOK, AuthToken
    <3>4. fetched[i].headers \in Keys
      BY Strings
    <3>. QED BY <3>2, <3>3, <3>4, Numbers
  <2>2. jwt[SessionTokens[i].headers].left + Skew + overdue[i] >= Margin
        \/ SessionTokens[i].headers = NoValue
    BY <1>2, Numbers DEF SystemIInv, SessionLeft
  <2>3. SessionTokens'[i].headers # NoValue
        => jwt[SessionTokens'[i].headers].left + Skew + overdue[i] >= Margin
    BY <1>3, <2>1, <2>2
  <2>. QED BY <1>2, <1>3, <2>3, Numbers DEF SystemIInv, SessionLeft
<1>7. /\ CopyLeft' /\ RequestLeft' /\ OneAtATime' /\ RefusedBare'
      /\ CopyFresh' /\ RequestBare' /\ KeptSecret'
  BY <1>2 DEF SystemIInv, CopyLeft, RequestLeft, OneAtATime, RefusedBare, CopyFresh,
     SomeBare, RequestBare, KeptSecret, Expired
<1>8. FailedEmpty'
  BY <1>2 DEF SystemIInv, FailedEmpty
<1>. QED BY <1>5, <1>6, <1>7, <1>8 DEF SystemIInv

LEMMA ConcludingStep ==
  ASSUME SystemIInv, IInv', NEW i \in Sessions, Conclude(i), UNCHANGED <<serverVars, wireVars>>
  PROVE  SystemIInv'
<1>. DEFINE tok == SessionTokens[i]
<1>1. /\ step[i] = "store" /\ unstored[i] = {}
      /\ fetched' = [fetched EXCEPT ![i] = Empty]
      /\ refused' = [refused EXCEPT ![i] = failed[i]]
      /\ overdue' = [overdue EXCEPT ![i] = 0]
      /\ UNCHANGED <<SessionTokens, starting, pc, at, bare,
                     parsed, Secret, Whitelist, loads, jwt, reply, request, slack>>
  BY DEF Conclude, Stored, signVars, serverVars, wireVars
<1>2. tok = fetched[i]
  <2>1. tok \in AuthToken /\ fetched[i] \in AuthToken
    BY DEF SystemIInv, IInv, TypeOK
  <2>2. \A f \in Fields : tok[f] = fetched[i][f]
    BY <1>1 DEF SystemIInv, IInv, CopiedSoFar
  <2>. QED BY <2>1, <2>2, SameFields
<1>3. tok # Empty => /\ tok.headers # NoValue /\ tok.exp # NoValue /\ tok.exp \in Int
                     /\ tok.exp >= Margin
                     /\ tok.headers \in Keys
                     /\ jwt[tok.headers].left + Skew >= tok.exp
  <2>1. tok # Empty => /\ tok.headers # NoValue /\ tok.exp # NoValue
                       /\ jwt[tok.headers].left + Skew >= tok.exp
    BY <1>1, <1>2 DEF SystemIInv, FetchedLeft
  <2>2. tok # Empty => Outlasts(tok)
    BY <1>1, <1>2 DEF SystemIInv, IInv, FetchedGood
  <2>3. tok.exp \in Left
    BY DEF SystemIInv, IInv, TypeOK, AuthToken
  <2>. QED BY <2>1, <2>2, <2>3, LeftType, Strings DEF Outlasts
<1>4. /\ step' = [step EXCEPT ![i] = "timer"]
      /\ due' = [due EXCEPT ![i] = Timer(IF tok = Empty THEN Retry ELSE tok.exp)]
  <2>1. failed[i] <=> tok = Empty
    BY <1>1, <1>2 DEF SystemIInv, FailedEmpty
  <2>. QED BY <1>3, <2>1 DEF Conclude, Renew
<1>5. /\ step'[i] = "timer" /\ overdue'[i] = 0 /\ fetched'[i] = Empty
      /\ due'[i] = Timer(IF tok = Empty THEN Retry ELSE tok.exp)
      /\ refused'[i] <=> fetched[i] = Empty
      /\ \A j \in Sessions \ {i} : /\ step'[j] = step[j] /\ overdue'[j] = overdue[j]
                                   /\ fetched'[j] = fetched[j] /\ due'[j] = due[j]
                                   /\ refused'[j] = refused[j]
  <2>. DEFINE t == Timer(IF tok = Empty THEN Retry ELSE tok.exp)
  <2>. HIDE DEF t
  <2>1. /\ DOMAIN step = Sessions /\ DOMAIN overdue = Sessions /\ DOMAIN fetched = Sessions
        /\ DOMAIN due = Sessions /\ DOMAIN refused = Sessions
    BY DEF SystemIInv, IInv, TypeOK
  <2>2. due' = [due EXCEPT ![i] = t]
    BY <1>4 DEF t
  <2>3. due'[i] = t /\ \A j \in Sessions \ {i} : due'[j] = due[j]
    BY <2>1, <2>2
  <2>4. refused'[i] <=> fetched[i] = Empty
    BY <1>1, <2>1 DEF SystemIInv, FailedEmpty
  <2>5. \A j \in Sessions \ {i} : refused'[j] = refused[j]
    BY <1>1, <2>1
  <2>6. /\ step'[i] = "timer" /\ overdue'[i] = 0 /\ fetched'[i] = Empty
        /\ \A j \in Sessions \ {i} : /\ step'[j] = step[j] /\ overdue'[j] = overdue[j]
                                     /\ fetched'[j] = fetched[j]
    BY <1>1, <1>4, <2>1
  <2>. QED BY <2>3, <2>4, <2>5, <2>6 DEF t
<1>6. Empty.headers = NoValue /\ Empty.uses = NoValue
  BY DEF Empty
<1>. HIDE DEF tok
<1>7. Held' \subseteq Held
  <2>1. \A k : k # NoValue /\ Has(k)' => Has(k)
    BY <1>1, <1>5, <1>6 DEF Has
  <2>. QED BY <2>1, HeldStrings
<1>8. SystemTypeOK' /\ Uncounted' /\ Renewing' /\ ReplyLeft' /\ FetchedLeft'
  BY <1>1, <1>5, <1>6, <1>7
  DEF SystemIInv, SystemTypeOK, Uncounted, Renewing, ReplyLeft, FetchedLeft
<1>9. SessionLeft'
  <2>1. tok = Empty => SessionTokens[i].headers = NoValue
    BY <1>6 DEF tok
  <2>2. tok # Empty => jwt[tok.headers].left + Skew + 0 >= Margin + Timer(tok.exp)
    <3>. SUFFICES ASSUME tok # Empty
                  PROVE  jwt[tok.headers].left + Skew + 0 >= Margin + Timer(tok.exp)
      OBVIOUS
    <3>1. Timer(tok.exp) + Margin = tok.exp /\ Timer(tok.exp) \in Nat
      BY <1>3, TimerType
    <3>2. jwt[tok.headers].left \in Nat /\ Skew \in Nat /\ Margin \in Nat
      BY <1>3, Numbers
    <3>. QED BY <1>3, <3>1, <3>2
  <2>3. SessionTokens'[i].headers # NoValue
        => jwt'[SessionTokens'[i].headers].left + Skew + overdue'[i] >= Margin + due'[i]
    BY <1>1, <1>5, <2>1, <2>2 DEF tok
  <2>. QED BY <1>1, <1>5, <2>3 DEF SystemIInv, SessionLeft
<1>10. RefusedBare'
  <2>1. fetched[i] = Empty => bare[i]
    BY <1>1, <1>6 DEF SystemIInv, IInv, HeadersEverywhere
  <2>. QED BY <1>1, <1>5, <2>1 DEF SystemIInv, RefusedBare
<1>11. /\ CopyLeft' /\ RequestLeft' /\ OneAtATime'
       /\ CopyFresh' /\ RequestBare' /\ KeptSecret'
  BY <1>1 DEF SystemIInv, CopyLeft, RequestLeft, OneAtATime, CopyFresh, SomeBare,
     RequestBare, KeptSecret, Expired
<1>12. FailedEmpty'
  <2>1. failed' = [failed EXCEPT ![i] = FALSE]
    BY DEF Conclude, Stored
  <2>. QED BY <1>5, <2>1 DEF SystemIInv, FailedEmpty, IInv, TypeOK
<1>. QED BY <1>8, <1>9, <1>10, <1>11, <1>12 DEF SystemIInv

\* The parts that do not speak of the signers.
SessionParts == /\ Renewing /\ ReplyLeft /\ FetchedLeft /\ SessionLeft
                /\ FailedEmpty /\ RefusedBare /\ KeptSecret

sessionVars == <<SessionTokens, starting, step, due, fetched, failed, overdue, refused, bare,
                 parsed, Secret, Whitelist, loads, jwt, reply>>

LEMMA SessionPartsKept ==
  ASSUME SystemIInv, UNCHANGED sessionVars
  PROVE  SessionParts' /\ SomeBare' = SomeBare
BY DEF sessionVars, SessionParts, SystemIInv, Renewing, ReplyLeft, FetchedLeft, SessionLeft,
       FailedEmpty, RefusedBare, SomeBare, KeptSecret

\* A signer copies the token of a session.
LEMMA CopyingStep ==
  ASSUME SystemIInv, IInv', NEW s \in Signers, NEW i \in Sessions,
         UNCHANGED <<sessionVars, request>>,
         starting = SessionCount, request[s] = NoValue,
         at' = [at EXCEPT ![s] = SessionTokens[i]],
         slack' = [slack EXCEPT ![s] = overdue[i]],
         pc'[s] = "use", \A r \in Signers \ {s} : pc'[r] = pc[r]
  PROVE  SystemIInv'
<1>1. UNCHANGED <<SessionTokens, starting, step, due, fetched, failed, overdue, refused, bare,
                  parsed, Secret, Whitelist, loads, jwt, reply>>
  BY DEF sessionVars
<1>2. /\ at'[s] = SessionTokens[i] /\ slack'[s] = overdue[i] /\ overdue[i] \in 0..Margin + 1
      /\ \A r \in Signers \ {s} : at'[r] = at[r] /\ slack'[r] = slack[r]
  BY DEF SystemIInv, IInv, TypeOK, SystemTypeOK
<1>3. i < starting
  BY SessionsAssumption DEF Sessions
<1>4. Held' \subseteq Held
  <2>1. \A k : Has(k)' => Has(k)
    BY <1>1, <1>2 DEF Has
  <2>. QED BY <2>1, HeldStrings
<1>5. SystemTypeOK'
  <2>1. slack' \in [Signers -> 0..Margin + 1]
    BY <1>2 DEF SystemIInv, SystemTypeOK
  <2>. QED BY <1>1, <1>4, <2>1 DEF SystemIInv, SystemTypeOK
<1>6. Uncounted' /\ OneAtATime'
  BY <1>1, <1>2 DEF SystemIInv, Uncounted, OneAtATime
<1>7. CopyLeft'
  <2>1. SessionTokens[i].headers # NoValue
        => jwt[SessionTokens[i].headers].left + Skew + overdue[i] >= Margin
    <3>1. SessionTokens[i].headers # NoValue
          => jwt[SessionTokens[i].headers].left + Skew + overdue[i]
               >= Margin + (IF step[i] = "timer" THEN due[i] ELSE 0)
      BY DEF SystemIInv, SessionLeft
    <3>. QED BY <3>1, Numbers, Strings
  <2>. QED BY <1>1, <1>2, <2>1 DEF SystemIInv, CopyLeft
<1>8. RequestLeft' /\ RequestBare'
  BY <1>1, <1>2, SessionPartsKept DEF SystemIInv, RequestLeft, RequestBare
<1>9. CopyFresh'
  <2>1. (~SomeBare /\ overdue[i] <= Margin) => ~Expired(SessionTokens[i])
    BY <1>3, NotLapsed DEF NeverLapses, SystemIInv, RefusedBare, SomeBare
  <2>. QED BY <1>1, <1>2, <2>1, SessionPartsKept DEF SystemIInv, CopyFresh, Expired
<1>. QED BY <1>5, <1>6, <1>7, <1>8, <1>9, SessionPartsKept DEF SystemIInv, SessionParts

\* A signer returns, and its request is on its way.
LEMMA SendingStep ==
  ASSUME SystemIInv, IInv', NEW s \in Signers, NEW key \in Keys \cup {NoValue},
         UNCHANGED <<sessionVars, slack>>,
         pc[s] = "use", SignDone(s), Sent(s, key),
         key # NoValue => key = at[s].headers,
         (key = NoValue /\ slack[s] <= Margin) => SomeBare
  PROVE  SystemIInv'
<1>1. UNCHANGED <<SessionTokens, starting, step, due, fetched, failed, overdue, refused, bare,
                  parsed, Secret, Whitelist, loads, jwt, reply>>
  BY DEF sessionVars
<1>2. /\ at'[s] = Empty /\ pc'[s] = "idle"
      /\ \A r \in Signers \ {s} : at'[r] = at[r] /\ pc'[r] = pc[r]
  BY DEF SignDone, SystemIInv, IInv, TypeOK
<1>3. /\ request' = [request EXCEPT ![s] = [key |-> key, travel |-> 0]]
      /\ \A r \in Signers : request'[r] = IF r = s THEN [key |-> key, travel |-> 0] ELSE request[r]
  <2>1. request' = [request EXCEPT ![s] = [key |-> key, travel |-> 0]]
    BY DEF Sent
  <2>2. DOMAIN request = Signers
    BY DEF SystemIInv, SystemTypeOK
  <2>. QED BY <2>1, <2>2
<1>4. Empty.headers = NoValue /\ Empty.uses = NoValue
  BY DEF Empty
<1>5. Held' \subseteq Held
  <2>1. \A k : k # NoValue /\ Has(k)' => Has(k)
    BY <1>1, <1>2, <1>3, <1>4 DEF Has
  <2>. QED BY <2>1, HeldStrings
<1>6. SystemTypeOK'
  BY <1>1, <1>3, <1>5, SignedAssumption DEF SystemIInv, SystemTypeOK
<1>7. Uncounted' /\ OneAtATime'
  BY <1>1, <1>2, <1>3, <1>4 DEF SystemIInv, Uncounted, OneAtATime
<1>8. CopyLeft' /\ CopyFresh'
  BY <1>1, <1>2, SessionPartsKept DEF SystemIInv, CopyLeft, CopyFresh, Expired
<1>9. RequestLeft'
  <2>1. key # NoValue => jwt[key].left + Skew + slack[s] + 0 >= Margin
    BY Numbers DEF SystemIInv, CopyLeft
  <2>. QED BY <1>1, <1>3, <2>1 DEF SystemIInv, RequestLeft
<1>10. RequestBare'
  BY <1>1, <1>3, SessionPartsKept DEF SystemIInv, RequestBare
<1>. QED BY <1>6, <1>7, <1>8, <1>9, <1>10, SessionPartsKept DEF SystemIInv, SessionParts

LEMMA SignerStep ==
  ASSUME SystemIInv, IInv', NEW s \in Signers, SelectToken(s) \/ Signing(s)
  PROVE  SystemIInv'
<1>1. CASE SelectToken(s)
  <2>1. PICK i \in Sessions : /\ index' = [index EXCEPT ![s] = i]
                              /\ at' = [at EXCEPT ![s] = SessionTokens[i]]
    BY <1>1 DEF SelectToken, selectAuthToken
  <2>2. index'[s] = i
    BY <2>1 DEF SystemIInv, IInv, TypeOK
  <2>3. /\ pc'[s] = "use" /\ \A r \in Signers \ {s} : pc'[r] = pc[r]
        /\ starting = SessionCount /\ request[s] = NoValue
        /\ UNCHANGED <<sessionVars, request>>
        /\ slack' = [slack EXCEPT ![s] = overdue[i]]
    BY <1>1, <2>2 DEF SelectToken, selectAuthToken, sessionVars, renewVars, ghostVars, serverVars,
       SystemIInv, IInv, TypeOK
  <2>. QED BY <2>1, <2>3, CopyingStep
<1>2. CASE SignAndSend(s)
  <2>1. /\ pc[s] = "use" /\ SignDone(s) /\ Sent(s, at[s].headers)
        /\ UNCHANGED <<sessionVars, slack>>
    BY <1>2 DEF SignAndSend, UseGranted, sessionVars, renewVars, ghostVars, serverVars
  <2>2. at[s].headers \in Keys \cup {NoValue}
    BY Strings
  <2>3. at[s].headers = NoValue => SomeBare
    <3>1. index[s] \in Sessions
      BY DEF SystemIInv, IInv, TypeOK
    <3>. QED BY <2>1, <3>1 DEF SystemIInv, IInv, HeadersEverywhere, SomeBare
  <2>. QED BY <2>1, <2>2, <2>3, SendingStep
<1>3. CASE SignFails(s)
  <2>1. /\ pc[s] = "use" /\ ~Peek(at[s]) /\ request[s] = NoValue /\ starting = SessionCount
        /\ UNCHANGED sessionVars
    BY <1>3 DEF SignFails, UseRefused, sessionVars, renewVars, ghostVars, serverVars,
       SystemIInv, OneAtATime, IInv, SigningStarted
  <2>2. CASE OutOfTries(s)
    <3>1. SignDone(s) /\ Sent(s, NoValue) /\ UNCHANGED slack
      BY <1>3, <2>2 DEF SignFails, UseRefused
    <3>2. Expired(at[s])
      BY <2>1 DEF Peek, Exhausted, SystemIInv, Uncounted
    <3>3. slack[s] <= Margin => SomeBare
      BY <2>1, <3>2 DEF SystemIInv, CopyFresh
    <3>. QED BY <2>1, <3>1, <3>3, SendingStep
  <2>3. CASE ~OutOfTries(s)
    <3>1. /\ at' = [at EXCEPT ![s] = SessionTokens[index[s]]]
          /\ slack' = [slack EXCEPT ![s] = overdue[index[s]]]
          /\ UNCHANGED <<pc, request>>
      BY <1>3, <2>3 DEF SignFails, UseRefused
    <3>2. index[s] \in Sessions
      BY DEF SystemIInv, IInv, TypeOK
    <3>. QED BY <2>1, <3>1, <3>2, CopyingStep
  <2>. QED BY <2>2, <2>3
<1>. QED BY <1>1, <1>2, <1>3 DEF Signing

LEMMA ArriveStep ==
  ASSUME SystemIInv, IInv', NEW s \in Signers, Arrive(s)
  PROVE  SystemIInv'
<1>1. /\ request[s] # NoValue
      /\ request' = [request EXCEPT ![s] = NoValue]
      /\ slack' = [slack EXCEPT ![s] = 0]
      /\ UNCHANGED <<SessionTokens, starting, step, due, fetched, failed, overdue, refused, bare,
                     parsed, Secret, Whitelist, loads, jwt, reply, pc, at>>
  BY DEF Arrive, vars, renewVars, signVars, ghostVars, serverVars
<1>2. pc[s] = "idle" /\ 0 \in 0..Margin + 1
  BY <1>1, SessionsAssumption DEF SystemIInv, OneAtATime
<1>3. \A r \in Signers : /\ request'[r] = IF r = s THEN NoValue ELSE request[r]
                         /\ slack'[r] = IF r = s THEN 0 ELSE slack[r]
  BY <1>1 DEF SystemIInv, SystemTypeOK
<1>4. Held' \subseteq Held
  <2>1. \A k : Has(k)' => Has(k)
    BY <1>1, <1>3 DEF Has
  <2>. QED BY <2>1, HeldStrings
<1>5. SystemTypeOK'
  BY <1>1, <1>2, <1>3, <1>4 DEF SystemIInv, SystemTypeOK
<1>6. Uncounted' /\ OneAtATime' /\ CopyLeft' /\ CopyFresh'
  BY <1>1, <1>2, <1>3
  DEF SystemIInv, Uncounted, OneAtATime, CopyLeft, CopyFresh, SomeBare, Expired
<1>7. RequestLeft' /\ RequestBare'
  BY <1>1, <1>3 DEF SystemIInv, RequestLeft, RequestBare, SomeBare
<1>. QED BY <1>1, <1>5, <1>6, <1>7, SessionPartsKept DEF SystemIInv, SessionParts, sessionVars
----------------------------------------------------------------------------
(* The client does what Sessions says.                                     *)

\* Every step of the system is one of Sessions, or does not touch the client.
LEMMA SystemStep ==
  ASSUME SystemIInv, [SystemNext]_allVars
  PROVE  [Next]_vars
<1>1. ASSUME NEW i \in Sessions, Fetch(i)
      PROVE  [Next]_vars
  <2>1. CASE Post(i)
    BY <2>1 DEF Post
  <2>2. CASE Deliver(i)
    <3>1. Grant(i) \in Grants
      BY <2>2, ReplyGrants DEF Deliver
    <3>2. StartGranted(Grant(i)) \/ Granted(i, Grant(i))
      BY <2>2 DEF Deliver
    <3>. QED BY <3>1, <3>2 DEF Next, StartStep, RenewStep
  <2>3. CASE Refuse(i) \/ Lose(i)
    <3>1. StartRefused(Empty) \/ Refused(i, Empty)
      BY <2>3 DEF Refuse, Lose, Failed
    <3>. QED BY <3>1 DEF Next, StartStep, RenewStep, Remains
  <2>. QED BY <1>1, <2>1, <2>2, <2>3 DEF Fetch
<1>2. ASSUME NEW i \in Sessions, Renewal(i)
      PROVE  [Next]_vars
  BY <1>2 DEF Renewal, Next, RenewStep
<1>3. ASSUME NEW s \in Signers, SelectToken(s) \/ Signing(s) \/ Arrive(s)
      PROVE  [Next]_vars
  BY <1>3 DEF SelectToken, Signing, SignAndSend, SignFails, Arrive, Next
<1>4. CASE Operate \/ Elapse
  BY <1>4 DEF Operate, Elapse, Next
<1>5. CASE UNCHANGED allVars
  BY <1>5 DEF allVars
<1>. QED BY <1>1, <1>2, <1>3, <1>4, <1>5 DEF SystemNext

LEMMA SystemStarts ==
  ASSUME SystemInit
  PROVE  SystemIInv
<1>1. IInv
  BY InitInvariant DEF SystemInit
<1>2. Init /\ Server!Init /\ reply = [i \in Sessions |-> NoValue]
      /\ request = [s \in Signers |-> NoValue] /\ slack = [s \in Signers |-> 0]
  BY DEF SystemInit
<1>3. Empty.headers = NoValue /\ Empty.uses = NoValue
  BY DEF Empty
<1>4. Held = {}
  <2>1. \A k : ~(k # NoValue /\ Has(k))
    BY <1>2, <1>3 DEF Has, Init
  <2>. QED BY <2>1, HeldStrings
<1>5. SystemTypeOK
  <2>1. 0 \in 0..Margin + 1 /\ 0 \in 0..MaxLoads /\ 1 \in 0..MaxLoads + 1 /\ 0 \in 0..MaxLoads + 1
    BY SessionsAssumption, SignedAssumption
  <2>2. Server!Unissued \in JWT
    BY SignedAssumption DEF JWT, Server!Unissued
  <2>3. PICK f \in Files : /\ loads = 0
                           /\ Secret = IF f.secret # NoValue THEN f.secret ELSE 1
                           /\ parsed = Secret
                           /\ Whitelist = f.whitelist
                           /\ jwt = [k \in Keys |-> Server!Unissued]
    BY <1>2 DEF Server!Init
  <2>4. Secret \in 0..MaxLoads + 1 /\ jwt \in [Keys -> JWT]
    BY <2>1, <2>2, <2>3, SignedAssumption
  <2>. QED BY <1>2, <1>4, <2>1, <2>3, <2>4 DEF SystemTypeOK, JWT
<1>6. KeptSecret
  BY <1>2 DEF Server!Init, Server!Unissued, KeptSecret
<1>7. Renewing
  BY <1>2, SessionsAssumption DEF Init, Renewing, Sessions
<1>8. /\ Uncounted /\ ReplyLeft /\ FetchedLeft /\ SessionLeft /\ CopyLeft /\ RequestLeft
      /\ OneAtATime /\ FailedEmpty /\ RefusedBare /\ CopyFresh /\ RequestBare
  BY <1>2, <1>3 DEF Init, Uncounted, ReplyLeft, FetchedLeft, SessionLeft, CopyLeft, RequestLeft,
     OneAtATime, FailedEmpty, RefusedBare, CopyFresh, RequestBare
<1>. QED BY <1>1, <1>5, <1>6, <1>7, <1>8 DEF SystemIInv
----------------------------------------------------------------------------
(* The theorems.                                                           *)

\* The invariant of both sides of a session together: what the client believes to
\* be left of a token is left of it at the server, but for the clocks, the journey
\* and the renewal's delay.
THEOREM SystemInductive == SystemSpec => []SystemIInv
<1>1. SystemInit => SystemIInv
  BY SystemStarts
<1>2. SystemIInv /\ [SystemNext]_allVars => SystemIInv'
  <2>. SUFFICES ASSUME SystemIInv, [SystemNext]_allVars
                PROVE  SystemIInv'
    OBVIOUS
  <2>1. IInv'
    BY SystemStep, NextStep DEF SystemIInv
  <2>2. ASSUME NEW i \in Sessions, Fetch(i)
        PROVE  SystemIInv'
    BY <2>1, <2>2, PostStep, DeliverStep, FailedStep DEF Fetch
  <2>3. ASSUME NEW i \in Sessions, Renewal(i)
        PROVE  SystemIInv'
    BY <2>1, <2>3, FiringStep, StoringStep, ConcludingStep DEF Renewal
  <2>4. ASSUME NEW s \in Signers, SelectToken(s) \/ Signing(s) \/ Arrive(s)
        PROVE  SystemIInv'
    BY <2>1, <2>4, SignerStep, ArriveStep
  <2>5. CASE Operate \/ Elapse
    BY <2>1, <2>5, OperateStep, ElapseStep
  <2>6. CASE UNCHANGED allVars
    <3>1. UNCHANGED <<vars, serverVars, wireVars>>
      BY <2>6 DEF allVars
    <3>2. UNCHANGED <<sessionVars, pc, at, request, slack>>
      BY <3>1 DEF vars, renewVars, signVars, ghostVars, serverVars, wireVars, sessionVars
    <3>3. SystemTypeOK'
      BY <3>2 DEF SystemIInv, SystemTypeOK, Held, sessionVars
    <3>4. ClientParts'
      BY <3>1, ClientPartsKept DEF wireVars
    <3>5. CopyLeft' /\ RequestLeft'
      BY <3>2 DEF SystemIInv, CopyLeft, RequestLeft, sessionVars
    <3>. QED BY <2>1, <3>2, <3>3, <3>4, <3>5, SessionPartsKept DEF SystemIInv, SessionParts, ClientParts
  <2>. QED BY <2>2, <2>3, <2>4, <2>5, <2>6 DEF SystemNext
<1>. QED BY <1>1, <1>2, PTL DEF SystemSpec

\* The types, and that no string is ever held that the server did not issue
\* (server.go:125-146).
THEOREM SystemTypeCorrect == SystemSpec => []SystemTypeOK
<1>1. SystemIInv => SystemTypeOK
  BY DEF SystemIInv
<1>. QED BY <1>1, SystemInductive, PTL

\* Together with such a server the client behaves as Sessions says, so that what is
\* proved of Sessions holds of it: a server's reply is one of Grants.
THEOREM ImplementsSessions == SystemSpec => Spec
<1>1. SystemInit => Init
  BY DEF SystemInit
<1>2. SystemIInv /\ [SystemNext]_allVars => [Next]_vars
  BY SystemStep
<1>. QED BY <1>1, <1>2, SystemInductive, PTL DEF SystemSpec, Spec

\* A request that arrives within the margin is accepted, unless it lacks the header, which
\* takes a GetToken that returned none, at any time and for any session, or the server has
\* been loaded without the secret it issued the header with, whatever is renewed, torn,
\* restarted or reloaded meanwhile (client.go:152-168, 237-250; server.go:125-146, 179).
THEOREM SignedAcceptedHolds == SystemSpec => []SignedAccepted
<1>1. SystemIInv => SignedAccepted
  <2>. SUFFICES ASSUME SystemIInv, NEW s \in Signers, request[s] # NoValue, InTime(s),
                       NEW path \in Paths
                PROVE  /\ Server!ServeHTTP(path, request[s].key) = "401" => SomeBare
                       /\ Server!ServeHTTP(path, request[s].key) = "403"
                            => ~jwt[request[s].key].kept
    BY DEF SignedAccepted
  <2>. DEFINE key == request[s].key
  <2>1. /\ Server!ServeHTTP(path, key) = "401" => key = NoValue
        /\ Server!ServeHTTP(path, key) = "403" => key # NoValue /\ ~Server!Valid(key)
    BY DEF Server!ServeHTTP
  <2>2. /\ slack[s] \in Nat /\ Skew \in Nat /\ Margin \in Nat /\ request[s].travel \in Nat
        /\ slack[s] + Skew + request[s].travel < Margin
    BY Numbers DEF InTime
  <2>3. key = NoValue => SomeBare
    <3>1. slack[s] <= Margin
      BY <2>2
    <3>. QED BY <3>1 DEF SystemIInv, RequestBare
  <2>4. (key # NoValue /\ ~Server!Valid(key)) => ~jwt[key].kept
    <3>. SUFFICES ASSUME key # NoValue, jwt[key].kept
                  PROVE  Server!Valid(key)
      OBVIOUS
    <3>1. key \in Keys /\ jwt[key].left \in Nat
      BY Strings, Numbers
    <3>2. jwt[key].left + Skew + slack[s] + request[s].travel >= Margin
      BY DEF SystemIInv, RequestLeft
    <3>3. jwt[key].left > 0
      BY <2>2, <3>1, <3>2
    <3>4. jwt[key].secret = Secret
      BY <3>1 DEF SystemIInv, KeptSecret
    <3>. QED BY <3>3, <3>4 DEF Server!Valid
  <2>. QED BY <2>1, <2>3, <2>4
<1>. QED BY <1>1, SystemInductive, PTL
=============================================================================
