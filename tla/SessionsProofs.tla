--------------------------- MODULE SessionsProofs ---------------------------
(***************************************************************************)
(* Theorems about Sessions, for any number of sessions and signers, any    *)
(* answers whose sessions outlast the renewal margin, and any delays.  A   *)
(* session need not have headers, an expiration or uses.                   *)
(***************************************************************************)
EXTENDS Sessions, FiniteSetTheorems, TLAPS

----------------------------------------------------------------------------
(* The inductive invariant.                                                *)

\* What Start has not been through yet is as it was made.
Unstarted == \A i \in Sessions :
               i >= starting => /\ step[i] = "none"
                                /\ SessionTokens[i] = Empty
                                /\ overdue[i] = 0
                                /\ ~refused[i]

\* A token lives between GetToken and the end of its assignment.
FetchedBriefly == \A i \in Sessions : step[i] # "store" => fetched[i] = Empty

\* What GetToken returned outlasts the margin, if it expires at all.
Outlasts(t) == t.exp = NoValue \/ t.exp >= Margin

FetchedGood == \A i \in Sessions : step[i] = "store" => Outlasts(fetched[i])

\* The fields that have been stored are those of the new token.
CopiedSoFar == \A i \in Sessions :
                 step[i] = "store"
                 => \A f \in Fields \ unstored[i] : SessionTokens[i][f] = fetched[i][f]

\* Nobody signs before Start has returned.
SigningStarted == \A s \in Signers : pc[s] = "use" => starting = SessionCount

\* What is left of a token is at least what is left of its timer and the margin,
\* less what the renewal is overdue.
Lasting == \A i \in Sessions :
  (i < starting /\ ~refused[i] /\ overdue[i] <= Margin /\ SessionTokens[i].exp # NoValue)
  => SessionTokens[i].exp >= Margin - overdue[i] + (IF step[i] = "timer" THEN due[i] ELSE 0)

\* As long as every answer to the GetToken of a session had headers, so have its
\* token, its new one and every copy of it.
HeadersEverywhere == \A i \in Sessions :
  ~bare[i] => /\ i < starting => SessionTokens[i].headers # NoValue
              /\ step[i] = "store" => fetched[i].headers # NoValue
              /\ \A s \in Signers : (pc[s] = "use" /\ index[s] = i) => at[s].headers # NoValue

\* A request let through has been counted down.
UsesCovered == \A c \in Counters : counters[c].used + counters[c].left <= counters[c].granted

IInv == /\ TypeOK
        /\ Unstarted
        /\ FetchedBriefly
        /\ FetchedGood
        /\ CopiedSoFar
        /\ SigningStarted
        /\ NeverAbandoned
        /\ Lasting
        /\ HeadersEverywhere
        /\ UsesCovered
----------------------------------------------------------------------------
(* Lemmas about the operators of the model.                                *)

LEMMA SessionsCounted == IsFiniteSet(Sessions) /\ Cardinality(Sessions) = SessionCount
<1>1. SessionCount - 1 \in Int /\ 0 <= SessionCount - 1 /\ SessionCount - 1 - 0 + 1 = SessionCount
  BY SessionsAssumption
<1>. DEFINE last == SessionCount - 1
<1>. HIDE DEF last
<1>2. last \in Int /\ ~(0 > last)
  BY <1>1 DEF last
<1>3. IsFiniteSet(0..last) /\ Cardinality(0..last) = last - 0 + 1
  BY <1>2, FS_Interval
<1>. QED BY <1>1, <1>3 DEF Sessions, last

\* There are as many counters as tokens that may point to one.
LEMMA PointersCounted ==
  ASSUME NEW D, D = ({1} \X Sessions) \cup ({2} \X Sessions) \cup ({3} \X Signers)
  PROVE  IsFiniteSet(D) /\ Cardinality(D) <= 2 * SessionCount + Cardinality(Signers)
<1>1. /\ IsFiniteSet(Sessions) /\ Cardinality(Sessions) = SessionCount
      /\ IsFiniteSet(Signers) /\ Cardinality(Signers) \in Nat
  BY SessionsCounted, SessionsAssumption, FS_CardinalityType
<1>2. \A n \in 1..3 : IsFiniteSet({n}) /\ Cardinality({n}) = 1
  BY FS_Singleton
<1>3. /\ IsFiniteSet({1} \X Sessions) /\ Cardinality({1} \X Sessions) = SessionCount
      /\ IsFiniteSet({2} \X Sessions) /\ Cardinality({2} \X Sessions) = SessionCount
      /\ IsFiniteSet({3} \X Signers) /\ Cardinality({3} \X Signers) = Cardinality(Signers)
  BY <1>1, <1>2, FS_Product, SessionsAssumption
<1>4. \A S, T : (IsFiniteSet(S) /\ IsFiniteSet(T))
                => /\ IsFiniteSet(S \cup T)
                   /\ Cardinality(S \cup T) <= Cardinality(S) + Cardinality(T)
  <2>. SUFFICES ASSUME NEW S, NEW T, IsFiniteSet(S), IsFiniteSet(T)
                PROVE  /\ IsFiniteSet(S \cup T)
                       /\ Cardinality(S \cup T) <= Cardinality(S) + Cardinality(T)
    OBVIOUS
  <2>1. /\ Cardinality(S) \in Nat /\ Cardinality(T) \in Nat
        /\ IsFiniteSet(S \cap T) /\ Cardinality(S \cap T) \in Nat
    BY FS_CardinalityType, FS_Intersection
  <2>2. /\ IsFiniteSet(S \cup T)
        /\ Cardinality(S \cup T) = Cardinality(S) + Cardinality(T) - Cardinality(S \cap T)
    BY FS_Union
  <2>. QED BY <2>1, <2>2
<1>5. /\ IsFiniteSet(({1} \X Sessions) \cup ({2} \X Sessions))
      /\ Cardinality(({1} \X Sessions) \cup ({2} \X Sessions)) <= 2 * SessionCount
      /\ Cardinality(({1} \X Sessions) \cup ({2} \X Sessions)) \in Nat
  BY <1>3, <1>4, FS_CardinalityType, SessionsAssumption
<1>6. /\ IsFiniteSet(D)
      /\ Cardinality(D) <= Cardinality(({1} \X Sessions) \cup ({2} \X Sessions)) + Cardinality(Signers)
      /\ Cardinality(D) \in Nat
  BY <1>1, <1>3, <1>4, <1>5, FS_CardinalityType
<1>. QED BY <1>1, <1>5, <1>6, SessionsAssumption

\* GetToken always finds a counter nobody points to: the heap of the model is as
\* good as the unbounded one of the code (interface.go:46).
LEMMA FreeCounter ==
  ASSUME TypeOK, \E i \in Sessions : SessionTokens[i] = Empty \/ fetched[i] = Empty
  PROVE  Free \in Counters /\ Free \notin Pointed
<1>. SUFFICES ASSUME \A c \in Counters : c \in Pointed
              PROVE  FALSE
  BY DEF Free
<1>. DEFINE D == ({1} \X Sessions) \cup ({2} \X Sessions) \cup ({3} \X Signers)
            At(d) == IF d[1] = 1 THEN SessionTokens[d[2]].uses
                     ELSE IF d[1] = 2 THEN fetched[d[2]].uses ELSE at[d[2]].uses
<1>1. PICK x \in D : At(x) = NoValue
  <2>1. PICK i \in Sessions : SessionTokens[i] = Empty \/ fetched[i] = Empty
    OBVIOUS
  <2>2. CASE SessionTokens[i] = Empty
    <3>1. <<1, i>> \in D /\ At(<<1, i>>) = NoValue
      BY <2>2 DEF Empty
    <3>. QED BY <3>1
  <2>3. CASE fetched[i] = Empty
    <3>1. <<2, i>> \in D /\ At(<<2, i>>) = NoValue
      BY <2>3 DEF Empty
    <3>. QED BY <3>1
  <2>. QED BY <2>1, <2>2, <2>3
<1>2. \A c \in Counters : c # NoValue
  BY SessionsAssumption DEF Counters
<1>3. ASSUME NEW c \in Counters
      PROVE  \E d \in D \ {x} : At(d) = c
  <2>1. CASE \E i \in Sessions : SessionTokens[i].uses = c
    <3>1. PICK i \in Sessions : SessionTokens[i].uses = c
      BY <2>1
    <3>2. <<1, i>> \in D /\ At(<<1, i>>) = c
      BY <3>1
    <3>. QED BY <1>1, <1>2, <3>2
  <2>2. CASE \E i \in Sessions : fetched[i].uses = c
    <3>1. PICK i \in Sessions : fetched[i].uses = c
      BY <2>2
    <3>2. <<2, i>> \in D /\ At(<<2, i>>) = c
      BY <3>1
    <3>. QED BY <1>1, <1>2, <3>2
  <2>3. CASE \E s \in Signers : at[s].uses = c
    <3>1. PICK s \in Signers : at[s].uses = c
      BY <2>3
    <3>2. <<3, s>> \in D /\ At(<<3, s>>) = c
      BY <3>1
    <3>. QED BY <1>1, <1>2, <3>2
  <2>. QED BY <2>1, <2>2, <2>3 DEF Pointed
<1>. HIDE DEF At
<1>. DEFINE f == [c \in Counters |-> CHOOSE d \in D \ {x} : At(d) = c]
<1>4. \A c \in Counters : f[c] \in D \ {x} /\ At(f[c]) = c
  BY <1>3
<1>5. f \in [Counters -> D \ {x}]
  BY <1>4
<1>6. /\ IsFiniteSet(D) /\ Cardinality(D) \in Nat
      /\ Cardinality(D) <= 2 * SessionCount + Cardinality(Signers)
  BY PointersCounted, FS_CardinalityType
<1>7. IsFiniteSet(D \ {x}) /\ Cardinality(D \ {x}) = Cardinality(D) - 1
  BY <1>1, <1>6, FS_RemoveElement
<1>8. IsFiniteSet(Counters) /\ Cardinality(Counters) = 2 * SessionCount + Cardinality(Signers)
  <2>1. Cardinality(Signers) \in Nat
    BY SessionsAssumption, FS_CardinalityType
  <2>2. PICK m \in Nat : m = 2 * SessionCount + Cardinality(Signers) /\ m >= 2
    BY <2>1, SessionsAssumption
  <2>3. Counters = 1..m
    BY <2>2 DEF Counters
  <2>4. IsFiniteSet(1..m) /\ Cardinality(1..m) = m
    BY <2>2, FS_Interval
  <2>. QED BY <2>2, <2>3, <2>4
<1>9. Cardinality(D \ {x}) < Cardinality(Counters)
  <2>1. 2 * SessionCount + Cardinality(Signers) \in Nat
    BY SessionsAssumption, FS_CardinalityType
  <2>. QED BY <1>6, <1>7, <1>8, <2>1
<1>. HIDE DEF f, D
<1>10. PICK c, e \in Counters : c # e /\ f[c] = f[e]
  BY <1>5, <1>7, <1>8, <1>9, FS_PigeonHole
<1>. QED BY <1>4, <1>10
----------------------------------------------------------------------------
(* Tokens.                                                                 *)

\* What is left of a lifetime is a number, or there is no end to it.
LEMMA LeftType ==
  ASSUME NEW x \in Left, x # NoValue
  PROVE  x \in Int /\ x >= -1
BY SessionsAssumption DEF Left, Lives

LEMMA EmptyType == Empty \in AuthToken /\ Empty.headers = NoValue /\ Empty.exp = NoValue
BY DEF Empty, AuthToken, Left

\* What is left of an answer that is none.
LEMMA TokenEmpty == Token(Empty) = Empty
BY DEF Token, Empty

\* What GetToken returns is a token that outlasts the margin.
LEMMA TokenGranted ==
  ASSUME TypeOK, NEW g \in Grants,
         \E i \in Sessions : SessionTokens[i] = Empty \/ fetched[i] = Empty
  PROVE  /\ Token(g) \in AuthToken
         /\ Token(g).headers = g.headers
         /\ Outlasts(Token(g))
         /\ Token(g).exp = g.exp
<1>1. Free \in Counters
  BY FreeCounter
<1>2. g.exp \in Left
  <2>1. CASE g.exp = NoValue
    BY <2>1 DEF Left
  <2>2. CASE g.exp # NoValue
    <3>1. g.exp \in Lives /\ g.exp \in 0..g.exp
      BY <2>2, SessionsAssumption DEF Lives
    <3>. QED BY <3>1 DEF Left
  <2>. QED BY <2>1, <2>2
<1>3. /\ Token(g).headers = g.headers /\ Token(g).exp = g.exp
      /\ Token(g).uses \in Counters \cup {NoValue}
  BY <1>1 DEF Token
<1>4. Token(g) \in AuthToken
  BY <1>2, <1>3 DEF Token, AuthToken
<1>5. g.exp = NoValue \/ g.exp >= Margin
  BY SessionsAssumption
<1>. QED BY <1>3, <1>4, <1>5 DEF Outlasts

\* So is what it returns beside an error.
LEMMA TokenRemains ==
  ASSUME TypeOK, NEW g \in Remains,
         \E i \in Sessions : SessionTokens[i] = Empty \/ fetched[i] = Empty
  PROVE  /\ Token(g) \in AuthToken
         /\ Token(g).headers = g.headers
         /\ Outlasts(Token(g))
<1>1. CASE g \in Grants
  BY <1>1, TokenGranted
<1>2. CASE g = Empty
  BY <1>2, TokenEmpty, EmptyType DEF Outlasts
<1>. QED BY <1>1, <1>2 DEF Remains

\* A token that grows older is still one; an end stays an end.
LEMMA AgedToken ==
  ASSUME NEW t \in AuthToken
  PROVE  /\ Aged(t) \in AuthToken
         /\ Aged(t).headers = t.headers
         /\ Aged(t).exp = IF t.exp = NoValue \/ t.exp < 0 THEN t.exp ELSE t.exp - 1
<1>. DEFINE e == IF t.exp = NoValue \/ t.exp < 0 THEN t.exp ELSE t.exp - 1
<1>1. Aged(t) = [headers |-> t.headers, exp |-> e, uses |-> t.uses]
  BY DEF Aged, AuthToken
<1>2. e \in Left
  <2>1. CASE t.exp = NoValue \/ t.exp < 0
    BY <2>1 DEF AuthToken
  <2>2. CASE ~(t.exp = NoValue \/ t.exp < 0)
    <3>1. t.exp \in Left /\ t.exp \in Int /\ t.exp >= 0
      BY <2>2, LeftType DEF AuthToken
    <3>2. PICK l \in Lives : t.exp \in 0..l
      BY <2>2, <3>1 DEF Left
    <3>3. e = t.exp - 1 /\ e \in {-1} \cup 0..l
      BY <2>2, <3>1, <3>2, SessionsAssumption DEF Lives
    <3>. QED BY <3>3 DEF Left
  <2>. QED BY <2>1, <2>2
<1>. QED BY <1>1, <1>2 DEF AuthToken

\* A token with the fields of another is the other one.
LEMMA SameFields ==
  ASSUME NEW t \in AuthToken, NEW u \in AuthToken, \A f \in Fields : t[f] = u[f]
  PROVE  t = u
BY DEF AuthToken, Fields

Counter == [granted : Nat, left : Nat, used : Nat]

LEMMA TimerType ==
  ASSUME NEW d \in Int
  PROVE  Timer(d) \in Nat /\ (d >= Margin => Timer(d) + Margin = d)
BY SessionsAssumption DEF Timer

\* A sum of its own is kept for each counter.
LEMMA CountStep ==
  ASSUME TypeOK, UsesCovered, NEW g \in Remains, Count(g)
  PROVE  counters' \in [Counters -> Counter] /\ UsesCovered'
<1>1. g.uses # NoValue => g.uses \in Nat
  BY SessionsAssumption DEF Remains, Empty
<1>. QED BY <1>1 DEF TypeOK, UsesCovered, Count, Unused, Counter

\* Use counts the token down, and lets the request through only if there was one left.
LEMMA DecrementStep ==
  ASSUME TypeOK, UsesCovered, NEW t \in AuthToken, Decrement(t)
  PROVE  counters' \in [Counters -> Counter] /\ UsesCovered'
<1>. USE DEF TypeOK, UsesCovered
<1>1. CASE t.uses = NoValue
  BY <1>1 DEF Decrement, Counter
<1>2. CASE t.uses # NoValue
  <2>. DEFINE u == t.uses
              left == IF counters[u].left = 0 THEN 0 ELSE counters[u].left - 1
              used == IF Peek(t) THEN counters[u].used + 1 ELSE counters[u].used
              low == [counters EXCEPT ![u].left = left]
              written == [granted |-> counters[u].granted, left |-> left, used |-> used]
  <2>1. u \in Counters /\ counters \in [Counters -> Counter]
    BY <1>2 DEF AuthToken, Counter
  <2>2. left \in Nat /\ used \in Nat
    BY <2>1 DEF Counter
  <2>3. counters' = [low EXCEPT ![u].used = used]
    BY <1>2 DEF Decrement
  <2>4. Peek(t) => counters[u].left # 0
    BY <1>2 DEF Peek, Exhausted
  <2>5. left + used <= counters[u].left + counters[u].used
    BY <2>1, <2>4 DEF Counter
  <2>6. written \in Counter
    BY <2>1, <2>2 DEF Counter
  <2>. HIDE DEF left, used
  <2>7. low = [counters EXCEPT ![u] = [granted |-> counters[u].granted, left |-> left,
                                       used |-> counters[u].used]]
    <3>1. counters[u] \in Counter
      BY <2>1
    <3>2. [counters[u] EXCEPT !.left = left]
            = [granted |-> counters[u].granted, left |-> left, used |-> counters[u].used]
      BY <3>1 DEF Counter
    <3>. QED BY <3>2
  <2>8. low \in [Counters -> Counter]
    BY <2>1, <2>2, <2>7 DEF Counter
  <2>9. counters' = [low EXCEPT ![u] = written]
    <3>. HIDE DEF low
    <3>1. low[u].granted = counters[u].granted /\ low[u].left = left
      BY <2>1, <2>7
    <3>2. counters' = [low EXCEPT ![u] = [granted |-> low[u].granted, left |-> low[u].left,
                                          used |-> used]]
      <4>1. low[u] \in Counter
        BY <2>1, <2>8
      <4>2. [low[u] EXCEPT !.used = used]
              = [granted |-> low[u].granted, left |-> low[u].left, used |-> used]
        BY <4>1 DEF Counter
      <4>. QED BY <2>3, <4>2
    <3>. QED BY <3>1, <3>2
  <2>10. counters' = [counters EXCEPT ![u] = written]
    BY <2>1, <2>7, <2>9
  <2>11. counters' \in [Counters -> Counter]
    BY <2>1, <2>6, <2>10
  <2>12. UsesCovered'
    BY <2>1, <2>2, <2>5, <2>10 DEF Counter
  <2>. QED BY <2>11, <2>12
<1>. QED BY <1>1, <1>2
----------------------------------------------------------------------------
(* What each action does to the invariant.                                 *)

LEMMA InitInvariant == Init => IInv
<1>. SUFFICES ASSUME Init PROVE IInv
  OBVIOUS
<1>1. TypeOK
  <2>1. 0 \in Sessions /\ 0 \in 0..SessionCount /\ 0 \in 0..Tries /\ 0 \in 0..Margin + 1
    BY SessionsAssumption DEF Sessions
  <2>2. Empty \in AuthToken /\ Unused \in [granted : Nat, left : Nat, used : Nat]
    BY EmptyType DEF Unused
  <2>. QED BY <2>1, <2>2 DEF Init, TypeOK
<1>2. UsesCovered
  BY DEF Init, UsesCovered, Unused
<1>3. Unstarted /\ FetchedBriefly /\ FetchedGood /\ CopiedSoFar
  BY DEF Init, Unstarted, FetchedBriefly, FetchedGood, CopiedSoFar
<1>4. SigningStarted /\ NeverAbandoned /\ Lasting /\ HeadersEverywhere
  BY SessionsAssumption
  DEF Init, SigningStarted, NeverAbandoned, Lasting, HeadersEverywhere, Sessions
<1>. QED BY <1>1, <1>2, <1>3, <1>4 DEF IInv

LEMMA StartGrantedStep ==
  ASSUME IInv, NEW g \in Grants, StartGranted(g)
  PROVE  IInv'
<1>. USE DEF IInv
<1>1. starting \in Sessions /\ starting + 1 \in 0..SessionCount
  BY SessionsAssumption DEF TypeOK, StartGranted, Sessions
<1>2. /\ SessionTokens[starting] = Empty /\ step[starting] = "none" /\ overdue[starting] = 0
      /\ fetched[starting] = Empty /\ ~refused[starting]
  BY <1>1, SessionsAssumption DEF Unstarted, FetchedBriefly, Sessions
<1>3. /\ Token(g) \in AuthToken /\ Token(g).headers = g.headers
      /\ Outlasts(Token(g)) /\ Token(g).exp = g.exp
  BY <1>1, <1>2, TokenGranted
<1>4. counters' \in [Counters -> Counter] /\ UsesCovered'
  BY CountStep DEF StartGranted, Remains
<1>5. /\ g.exp # NoValue => g.exp \in Int /\ g.exp >= Margin
      /\ g.exp # NoValue => Timer(g.exp) \in Nat /\ Timer(g.exp) + Margin = g.exp
  BY TimerType, SessionsAssumption
<1>6. /\ SessionTokens' = [SessionTokens EXCEPT ![starting] = Token(g)]
      /\ starting' = starting + 1
      /\ bare' = [bare EXCEPT ![starting] = bare[starting] \/ g.headers = NoValue]
      /\ UNCHANGED <<fetched, failed, unstored, pc, index, at, tries, refused, overdue>>
  BY DEF StartGranted, Noted, signVars
<1>7. \/ /\ g.exp # NoValue
         /\ step' = [step EXCEPT ![starting] = "timer"]
         /\ due' = [due EXCEPT ![starting] = Timer(g.exp)]
      \/ g.exp = NoValue /\ step' = step /\ due' = due
  BY DEF StartGranted, Renew
<1>8. TypeOK'
  BY <1>1, <1>3, <1>4, <1>5, <1>6, <1>7 DEF TypeOK, Counter
<1>9. \A i \in Sessions : /\ i >= starting' => i >= starting /\ i # starting
                          /\ i < starting' => i < starting \/ i = starting
                          /\ i = starting \/ (step'[i] = step[i] /\ due'[i] = due[i]
                                              /\ SessionTokens'[i] = SessionTokens[i])
  <2>1. \A i \in Sessions : /\ i >= starting' => i >= starting /\ i # starting
                            /\ i < starting' => i < starting \/ i = starting
    BY <1>1, <1>6 DEF Sessions
  <2>2. \A i \in Sessions : i = starting \/ (step'[i] = step[i] /\ due'[i] = due[i]
                                              /\ SessionTokens'[i] = SessionTokens[i])
    BY <1>1, <1>6, <1>7 DEF TypeOK
  <2>. QED BY <2>1, <2>2
<1>10. SessionTokens'[starting] = Token(g) /\ (step'[starting] = "none" => g.exp = NoValue)
       /\ step'[starting] \in {"none", "timer"} /\ (step'[starting] = "timer" => due'[starting] = Timer(g.exp))
  BY <1>1, <1>2, <1>6, <1>7 DEF TypeOK
<1>11. Unstarted'
  BY <1>6, <1>9, SessionsAssumption DEF Unstarted, TypeOK, Sessions
<1>12. FetchedBriefly' /\ FetchedGood'
  BY <1>2, <1>6, <1>9, <1>10 DEF FetchedBriefly, FetchedGood
<1>13. CopiedSoFar'
  BY <1>6, <1>9, <1>10 DEF CopiedSoFar
<1>14. SigningStarted'
  <2>1. starting # SessionCount
    BY SessionsAssumption DEF TypeOK, StartGranted
  <2>. QED BY <1>6, <2>1 DEF SigningStarted
<1>15. NeverAbandoned'
  BY <1>2, <1>3, <1>6, <1>9, <1>10 DEF NeverAbandoned
<1>16. Lasting'
  <2>. SUFFICES ASSUME NEW i \in Sessions,
                       (i < starting /\ ~refused[i] /\ overdue[i] <= Margin
                          /\ SessionTokens[i].exp # NoValue)'
                PROVE  (SessionTokens[i].exp
                          >= Margin - overdue[i] + (IF step[i] = "timer" THEN due[i] ELSE 0))'
    BY DEF Lasting
  <2>1. CASE i = starting
    BY <1>2, <1>3, <1>5, <1>6, <1>10, <2>1, SessionsAssumption
  <2>2. CASE i # starting
    BY <1>6, <1>9, <2>2 DEF Lasting
  <2>. QED BY <2>1, <2>2
<1>17. HeadersEverywhere'
  <2>. SUFFICES ASSUME NEW j \in Sessions, ~bare'[j]
                PROVE  /\ j < starting' => SessionTokens'[j].headers # NoValue
                       /\ step'[j] = "store" => fetched'[j].headers # NoValue
                       /\ \A s \in Signers : (pc'[s] = "use" /\ index'[s] = j) => at'[s].headers # NoValue
    BY DEF HeadersEverywhere
  <2>1. \A s \in Signers : pc'[s] # "use"
    BY <1>6, SessionsAssumption DEF SigningStarted, TypeOK, StartGranted
  <2>2. CASE j = starting
    <3>1. g.headers # NoValue
      BY <1>1, <1>6, <2>2 DEF TypeOK
    <3>. QED BY <1>3, <1>10, <2>1, <2>2, <3>1
  <2>3. CASE j # starting
    <3>1. ~bare[j]
      BY <1>1, <1>6, <2>3 DEF TypeOK
    <3>. QED BY <1>6, <1>9, <2>1, <2>3, <3>1 DEF HeadersEverywhere
  <2>. QED BY <2>2, <2>3
<1>. QED BY <1>4, <1>8, <1>11, <1>12, <1>13, <1>14, <1>15, <1>16, <1>17

LEMMA StartRefusedStep ==
  ASSUME IInv, NEW g \in Remains, StartRefused(g)
  PROVE  IInv'
<1>. USE DEF IInv
<1>. DEFINE lapsed == [Token(g) EXCEPT !.exp = -1]
<1>1. starting \in Sessions /\ starting + 1 \in 0..SessionCount
  BY SessionsAssumption DEF TypeOK, StartRefused, Sessions
<1>2. lapsed \in AuthToken /\ lapsed.headers = g.headers
  <2>1. Token(g) \in AuthToken /\ Token(g).headers = g.headers
    BY <1>1, TokenRemains, SessionsAssumption DEF Unstarted, Sessions
  <2>. QED BY <2>1 DEF AuthToken, Left
<1>14. counters' \in [Counters -> Counter] /\ UsesCovered'
  BY CountStep DEF StartRefused
<1>3. Timer(StartRetry) \in Nat
  BY TimerType, SessionsAssumption
<1>. HIDE DEF lapsed
<1>4. /\ SessionTokens' = [SessionTokens EXCEPT ![starting] = lapsed]
      /\ step' = [step EXCEPT ![starting] = "timer"]
      /\ due' = [due EXCEPT ![starting] = Timer(StartRetry)]
      /\ starting' = starting + 1
      /\ refused' = [refused EXCEPT ![starting] = TRUE]
      /\ bare' = [bare EXCEPT ![starting] = bare[starting] \/ g.headers = NoValue]
      /\ UNCHANGED <<fetched, failed, unstored, pc, index, at, tries, overdue>>
  BY DEF StartRefused, Renew, Noted, signVars, lapsed
<1>5. TypeOK'
  BY <1>1, <1>2, <1>3, <1>4, <1>14 DEF TypeOK, Counter
<1>6. \A i \in Sessions : /\ i >= starting' => i >= starting /\ i # starting
                          /\ i < starting' => i < starting \/ i = starting
                          /\ i = starting \/ (step'[i] = step[i] /\ due'[i] = due[i]
                                              /\ refused'[i] = refused[i]
                                              /\ SessionTokens'[i] = SessionTokens[i])
  <2>1. \A i \in Sessions : /\ i >= starting' => i >= starting /\ i # starting
                            /\ i < starting' => i < starting \/ i = starting
    BY <1>1, <1>4 DEF Sessions
  <2>2. \A i \in Sessions : i = starting \/ (step'[i] = step[i] /\ due'[i] = due[i]
                                              /\ refused'[i] = refused[i]
                                              /\ SessionTokens'[i] = SessionTokens[i])
    BY <1>1, <1>4 DEF TypeOK
  <2>. QED BY <2>1, <2>2
<1>7. step'[starting] = "timer" /\ refused'[starting] /\ fetched[starting] = Empty
  BY <1>1, <1>4, SessionsAssumption DEF TypeOK, Unstarted, FetchedBriefly, Sessions
<1>8. Unstarted'
  BY <1>4, <1>6, SessionsAssumption DEF Unstarted, TypeOK, Sessions
<1>9. FetchedBriefly' /\ FetchedGood' /\ CopiedSoFar'
  BY <1>4, <1>6, <1>7 DEF FetchedBriefly, FetchedGood, CopiedSoFar
<1>10. SigningStarted'
  <2>1. starting # SessionCount
    BY SessionsAssumption DEF TypeOK, StartRefused
  <2>. QED BY <1>4, <2>1 DEF SigningStarted
<1>12. NeverAbandoned'
  BY <1>4, <1>6, <1>7 DEF NeverAbandoned
<1>13. HeadersEverywhere'
  <2>. SUFFICES ASSUME NEW j \in Sessions, ~bare'[j]
                PROVE  /\ j < starting' => SessionTokens'[j].headers # NoValue
                       /\ step'[j] = "store" => fetched'[j].headers # NoValue
                       /\ \A s \in Signers : (pc'[s] = "use" /\ index'[s] = j) => at'[s].headers # NoValue
    BY DEF HeadersEverywhere
  <2>1. \A s \in Signers : pc'[s] # "use"
    BY <1>4, SessionsAssumption DEF SigningStarted, TypeOK, StartRefused
  <2>2. CASE j = starting
    <3>1. g.headers # NoValue /\ SessionTokens'[j].headers = g.headers
      BY <1>1, <1>2, <1>4, <2>2 DEF TypeOK
    <3>. QED BY <1>7, <2>1, <2>2, <3>1
  <2>3. CASE j # starting
    <3>1. ~bare[j]
      BY <1>1, <1>4, <2>3 DEF TypeOK
    <3>. QED BY <1>4, <1>6, <2>1, <2>3, <3>1 DEF HeadersEverywhere
  <2>. QED BY <2>2, <2>3
<1>11. Lasting'
  BY <1>4, <1>6, <1>7 DEF Lasting
<1>. QED BY <1>5, <1>8, <1>9, <1>10, <1>11, <1>12, <1>13, <1>14

LEMMA FireStep ==
  ASSUME IInv, NEW i \in Sessions, Fire(i)
  PROVE  IInv'
<1>. USE DEF IInv
<1>1. /\ step[i] = "timer" /\ due[i] = 0
      /\ step' = [step EXCEPT ![i] = "post"]
      /\ UNCHANGED <<SessionTokens, starting, due, fetched, failed, unstored, counters,
                     pc, index, at, tries, refused, bare, overdue>>
  BY DEF Fire, signVars, ghostVars
<1>2. TypeOK'
  BY <1>1 DEF TypeOK
<1>3. step'[i] = "post" /\ \A j \in Sessions : j = i \/ step'[j] = step[j]
  BY <1>1 DEF TypeOK
<1>4. Unstarted' /\ FetchedBriefly' /\ FetchedGood' /\ CopiedSoFar'
  BY <1>1, <1>3 DEF Unstarted, FetchedBriefly, FetchedGood, CopiedSoFar
<1>5. SigningStarted' /\ NeverAbandoned' /\ HeadersEverywhere' /\ UsesCovered'
  BY <1>1, <1>3 DEF SigningStarted, NeverAbandoned, HeadersEverywhere, UsesCovered
<1>6. Lasting'
  BY <1>1, <1>3 DEF Lasting
<1>. QED BY <1>2, <1>4, <1>5, <1>6

\* GetToken has returned, with an error or without.
LEMMA ReturnedStep ==
  ASSUME IInv, NEW i \in Sessions, NEW g \in Remains, NEW err \in BOOLEAN,
         Returned(i, g, err), refused' \in {refused, [refused EXCEPT ![i] = TRUE]}
  PROVE  IInv'
<1>. USE DEF IInv
<1>1. /\ step[i] = "post"
      /\ step' = [step EXCEPT ![i] = "store"]
      /\ fetched' = [fetched EXCEPT ![i] = Token(g)]
      /\ failed' = [failed EXCEPT ![i] = err]
      /\ unstored' = [unstored EXCEPT ![i] = Fields]
      /\ bare' = [bare EXCEPT ![i] = bare[i] \/ g.headers = NoValue]
      /\ UNCHANGED <<SessionTokens, starting, due, pc, index, at, tries, overdue>>
  BY DEF Returned, Noted, signVars
<1>2. Token(g) \in AuthToken /\ Token(g).headers = g.headers /\ Outlasts(Token(g))
  BY <1>1, TokenRemains DEF FetchedBriefly
<1>3. counters' \in [Counters -> Counter] /\ UsesCovered'
  BY CountStep DEF Returned
<1>4. refused' \in [Sessions -> BOOLEAN] /\ \A j \in Sessions : refused'[j] = refused[j] \/ j = i
  BY DEF TypeOK
<1>5. TypeOK'
  BY <1>1, <1>2, <1>3, <1>4 DEF TypeOK, Counter
<1>6. /\ step'[i] = "store" /\ fetched'[i] = Token(g) /\ unstored'[i] = Fields
      /\ bare'[i] = (bare[i] \/ g.headers = NoValue)
      /\ \A j \in Sessions : j = i \/ (step'[j] = step[j] /\ fetched'[j] = fetched[j]
                                       /\ unstored'[j] = unstored[j] /\ bare'[j] = bare[j])
  BY <1>1 DEF TypeOK
<1>7. refused'[i] = refused[i] \/ refused'[i]
  BY DEF TypeOK
<1>8. Unstarted' /\ FetchedBriefly' /\ CopiedSoFar'
  BY <1>1, <1>4, <1>6 DEF Unstarted, FetchedBriefly, CopiedSoFar
<1>9. FetchedGood'
  BY <1>2, <1>6 DEF FetchedGood
<1>10. SigningStarted' /\ NeverAbandoned'
  BY <1>1, <1>4, <1>6 DEF SigningStarted, NeverAbandoned
<1>11. HeadersEverywhere'
  <2>. SUFFICES ASSUME NEW j \in Sessions, ~bare'[j]
                PROVE  /\ j < starting' => SessionTokens'[j].headers # NoValue
                       /\ step'[j] = "store" => fetched'[j].headers # NoValue
                       /\ \A s \in Signers : (pc'[s] = "use" /\ index'[s] = j) => at'[s].headers # NoValue
    BY DEF HeadersEverywhere
  <2>1. CASE j = i
    <3>1. ~bare[i] /\ g.headers # NoValue
      BY <1>6, <2>1
    <3>2. fetched'[j].headers # NoValue
      BY <1>2, <1>6, <2>1, <3>1
    <3>. QED BY <1>1, <2>1, <3>1, <3>2 DEF HeadersEverywhere
  <2>2. CASE j # i
    BY <1>1, <1>6, <2>2 DEF HeadersEverywhere
  <2>. QED BY <2>1, <2>2
<1>12. Lasting'
  BY <1>1, <1>4, <1>6, <1>7 DEF Lasting
<1>. QED BY <1>3, <1>5, <1>8, <1>9, <1>10, <1>11, <1>12

LEMMA GrantedStep ==
  ASSUME IInv, NEW i \in Sessions, NEW g \in Grants, Granted(i, g)
  PROVE  IInv'
BY ReturnedStep DEF Granted, Remains

LEMMA RefusedStep ==
  ASSUME IInv, NEW i \in Sessions, NEW g \in Remains, Refused(i, g)
  PROVE  IInv'
BY ReturnedStep DEF Refused

LEMMA StoreStep ==
  ASSUME IInv, NEW i \in Sessions, Store(i)
  PROVE  IInv'
<1>. USE DEF IInv
<1>1. PICK f \in unstored[i] :
        /\ SessionTokens' = [SessionTokens EXCEPT ![i][f] = fetched[i][f]]
        /\ unstored' = [unstored EXCEPT ![i] = @ \ {f}]
  BY DEF Store
<1>2. /\ step[i] = "store"
      /\ UNCHANGED <<starting, step, due, fetched, failed, counters, pc, index, at, tries,
                     refused, bare, overdue>>
  BY DEF Store, signVars, ghostVars
<1>3. f \in Fields /\ SessionTokens[i] \in AuthToken /\ fetched[i] \in AuthToken
  BY DEF TypeOK
<1>4. /\ \A j \in Sessions : j = i \/ (SessionTokens'[j] = SessionTokens[j] /\ unstored'[j] = unstored[j])
      /\ SessionTokens'[i] = [SessionTokens[i] EXCEPT ![f] = fetched[i][f]]
      /\ unstored'[i] = unstored[i] \ {f}
  BY <1>1 DEF TypeOK
<1>5. \A k \in Fields : SessionTokens'[i][k] = IF k = f THEN fetched[i][k] ELSE SessionTokens[i][k]
  BY <1>3, <1>4 DEF AuthToken, Fields
<1>6. SessionTokens'[i] \in AuthToken
  BY <1>3, <1>4 DEF AuthToken, Fields
<1>7. TypeOK'
  <2>1. SessionTokens' \in [Sessions -> AuthToken]
    BY <1>1, <1>6 DEF TypeOK
  <2>. QED BY <1>1, <1>2, <2>1 DEF TypeOK
<1>8. /\ SessionTokens'[i].headers \in {SessionTokens[i].headers, fetched[i].headers}
      /\ SessionTokens'[i].exp \in {SessionTokens[i].exp, fetched[i].exp}
  BY <1>5 DEF Fields
<1>9. Unstarted' /\ FetchedBriefly' /\ FetchedGood'
  BY <1>2, <1>4 DEF Unstarted, FetchedBriefly, FetchedGood
<1>10. CopiedSoFar'
  <2>. SUFFICES ASSUME NEW j \in Sessions, step[j] = "store", NEW k \in Fields \ unstored'[j]
                PROVE  SessionTokens'[j][k] = fetched[j][k]
    BY <1>2 DEF CopiedSoFar
  <2>1. CASE j = i
    <3>1. k = f \/ k \in Fields \ unstored[i]
      BY <1>4, <2>1
    <3>2. k # f => SessionTokens[i][k] = fetched[i][k]
      BY <2>1, <3>1 DEF CopiedSoFar
    <3>. QED BY <1>5, <2>1, <3>2
  <2>2. CASE j # i
    BY <1>4, <2>2 DEF CopiedSoFar
  <2>. QED BY <2>1, <2>2
<1>11. SigningStarted' /\ NeverAbandoned' /\ UsesCovered'
  BY <1>2, <1>4 DEF SigningStarted, NeverAbandoned, UsesCovered
<1>12. HeadersEverywhere'
  BY <1>2, <1>4, <1>8 DEF HeadersEverywhere
<1>13. Lasting'
  <2>. SUFFICES ASSUME NEW j \in Sessions,
                       (j < starting /\ ~refused[j] /\ overdue[j] <= Margin
                          /\ SessionTokens[j].exp # NoValue)'
                PROVE  (SessionTokens[j].exp
                          >= Margin - overdue[j] + (IF step[j] = "timer" THEN due[j] ELSE 0))'
    BY DEF Lasting
  <2>1. CASE j = i /\ SessionTokens'[i].exp = fetched[i].exp
    <3>1. fetched[i].exp \in Int /\ fetched[i].exp >= Margin
      BY <1>2, <1>3, <2>1, LeftType DEF FetchedGood, Outlasts, AuthToken
    <3>. QED BY <1>2, <2>1, <3>1, SessionsAssumption DEF TypeOK
  <2>2. CASE ~(j = i /\ SessionTokens'[i].exp = fetched[i].exp)
    BY <1>2, <1>4, <1>8, <2>2 DEF Lasting
  <2>. QED BY <2>1, <2>2
<1>. QED BY <1>7, <1>9, <1>10, <1>11, <1>12, <1>13

LEMMA ConcludeStep ==
  ASSUME IInv, NEW i \in Sessions, Conclude(i)
  PROVE  IInv'
<1>. USE DEF IInv
<1>. DEFINE tok == SessionTokens[i]
<1>1. /\ step[i] = "store" /\ unstored[i] = {}
      /\ fetched' = [fetched EXCEPT ![i] = Empty]
      /\ failed' = [failed EXCEPT ![i] = FALSE]
      /\ refused' = [refused EXCEPT ![i] = failed[i]]
      /\ overdue' = [overdue EXCEPT ![i] = 0]
      /\ UNCHANGED <<SessionTokens, starting, unstored, counters, pc, index, at, tries, bare>>
  BY DEF Conclude, Stored, signVars
<1>2. tok \in AuthToken /\ tok = fetched[i]
  BY <1>1, SameFields DEF TypeOK, CopiedSoFar
<1>3. \/ /\ failed[i]
         /\ step' = [step EXCEPT ![i] = "timer"] /\ due' = [due EXCEPT ![i] = Timer(Retry)]
      \/ /\ ~failed[i] /\ tok.exp # NoValue
         /\ step' = [step EXCEPT ![i] = "timer"] /\ due' = [due EXCEPT ![i] = Timer(tok.exp)]
      \/ /\ ~failed[i] /\ tok.exp = NoValue
         /\ step' = [step EXCEPT ![i] = "none"] /\ due' = due
  BY DEF Conclude, Renew
<1>4. Outlasts(tok)
  BY <1>1, <1>2 DEF FetchedGood
<1>5. Timer(Retry) \in Nat
  BY TimerType, SessionsAssumption
<1>6. tok.exp # NoValue => tok.exp \in Int /\ Timer(tok.exp) \in Nat
  BY <1>2, LeftType, TimerType DEF AuthToken
<1>7. tok.exp # NoValue => Timer(tok.exp) + Margin = tok.exp
  BY <1>4, <1>6, TimerType DEF Outlasts
<1>. HIDE DEF tok
<1>8. TypeOK'
  <2>1. 0 \in 0..Margin + 1
    BY SessionsAssumption
  <2>2. step' \in [Sessions -> {"none", "timer", "post", "store"}] /\ due' \in [Sessions -> Nat]
    BY <1>3, <1>5, <1>6 DEF TypeOK
  <2>3. overdue' \in [Sessions -> 0..Margin + 1]
    BY <1>1, <2>1 DEF TypeOK
  <2>4. /\ refused' \in [Sessions -> BOOLEAN] /\ fetched' \in [Sessions -> AuthToken]
        /\ failed' \in [Sessions -> BOOLEAN]
    BY <1>1, EmptyType DEF TypeOK
  <2>. QED BY <1>1, <2>2, <2>3, <2>4 DEF TypeOK
<1>9. /\ fetched'[i] = Empty /\ overdue'[i] = 0 /\ (refused'[i] <=> failed[i])
      /\ \A j \in Sessions : j = i \/ (fetched'[j] = fetched[j] /\ refused'[j] = refused[j]
                                       /\ overdue'[j] = overdue[j])
  BY <1>1, <1>2 DEF TypeOK
<1>10. /\ \A j \in Sessions : j = i \/ (step'[j] = step[j] /\ due'[j] = due[j])
       /\ step'[i] = IF failed[i] \/ tok.exp # NoValue THEN "timer" ELSE "none"
       /\ (~failed[i] /\ tok.exp # NoValue) => due'[i] = Timer(tok.exp)
  BY <1>3 DEF TypeOK
<1>11. Unstarted' /\ FetchedBriefly' /\ FetchedGood' /\ CopiedSoFar'
  BY <1>1, <1>9, <1>10 DEF Unstarted, FetchedBriefly, FetchedGood, CopiedSoFar
<1>12. SigningStarted' /\ UsesCovered' /\ HeadersEverywhere'
  BY <1>1, <1>9, <1>10 DEF SigningStarted, UsesCovered, HeadersEverywhere
<1>13. NeverAbandoned'
  BY <1>1, <1>9, <1>10 DEF NeverAbandoned, tok
<1>14. Lasting'
  <2>. SUFFICES ASSUME NEW j \in Sessions,
                       (j < starting /\ ~refused[j] /\ overdue[j] <= Margin
                          /\ SessionTokens[j].exp # NoValue)'
                PROVE  (SessionTokens[j].exp
                          >= Margin - overdue[j] + (IF step[j] = "timer" THEN due[j] ELSE 0))'
    BY DEF Lasting
  <2>1. CASE j = i
    <3>1. ~failed[i] /\ tok.exp # NoValue /\ SessionTokens'[i].exp = tok.exp
      BY <1>1, <1>9, <2>1 DEF tok
    <3>2. step'[i] = "timer" /\ due'[i] = Timer(tok.exp) /\ Timer(tok.exp) + Margin = tok.exp
      BY <1>7, <1>10, <3>1
    <3>. QED BY <1>6, <1>9, <2>1, <3>1, <3>2, SessionsAssumption
  <2>2. CASE j # i
    BY <1>1, <1>9, <1>10, <2>2 DEF Lasting
  <2>. QED BY <2>1, <2>2
<1>. QED BY <1>8, <1>11, <1>12, <1>13, <1>14

LEMMA SelectStep ==
  ASSUME IInv, NEW s \in Signers, selectAuthToken(s)
  PROVE  IInv'
<1>. USE DEF IInv
<1>1. PICK i \in Sessions : /\ index' = [index EXCEPT ![s] = i]
                            /\ at' = [at EXCEPT ![s] = SessionTokens[i]]
  BY DEF selectAuthToken
<1>2. /\ starting = SessionCount
      /\ pc' = [pc EXCEPT ![s] = "use"]
      /\ tries' = [tries EXCEPT ![s] = 0]
      /\ UNCHANGED <<SessionTokens, starting, step, due, fetched, failed, unstored, counters,
                     refused, bare, overdue>>
  BY DEF selectAuthToken, renewVars, ghostVars
<1>3. TypeOK'
  <2>1. 0 \in 0..Tries
    BY SessionsAssumption
  <2>. QED BY <1>1, <1>2, <2>1 DEF TypeOK
<1>4. i < starting
  BY <1>2, SessionsAssumption DEF Sessions
<1>5. /\ at'[s] = SessionTokens[i] /\ index'[s] = i
      /\ \A r \in Signers : r = s \/ (at'[r] = at[r] /\ pc'[r] = pc[r] /\ index'[r] = index[r])
  BY <1>1, <1>2 DEF TypeOK
<1>6. Unstarted' /\ FetchedBriefly' /\ FetchedGood' /\ CopiedSoFar'
  BY <1>2 DEF Unstarted, FetchedBriefly, FetchedGood, CopiedSoFar
<1>7. SigningStarted' /\ NeverAbandoned' /\ Lasting' /\ UsesCovered'
  BY <1>2 DEF SigningStarted, NeverAbandoned, Lasting, UsesCovered
<1>8. HeadersEverywhere'
  BY <1>2, <1>4, <1>5 DEF HeadersEverywhere
<1>. QED BY <1>3, <1>6, <1>7, <1>8

\* A signer that uses its token is done with it, or copies the session's once more.
LEMMA UseStep ==
  ASSUME IInv, NEW s \in Signers, UseGranted(s) \/ UseRefused(s)
  PROVE  IInv'
<1>. USE DEF IInv
<1>1. /\ pc[s] = "use"
      /\ Decrement(at[s])
      /\ UNCHANGED <<SessionTokens, starting, step, due, fetched, failed, unstored,
                     refused, bare, overdue>>
  BY DEF UseGranted, UseRefused, renewVars, ghostVars
<1>2. at[s] \in AuthToken
  BY DEF TypeOK
<1>3. counters' \in [Counters -> Counter] /\ UsesCovered'
  BY <1>1, <1>2, DecrementStep
<1>4. \/ /\ pc' = [pc EXCEPT ![s] = "idle"]
         /\ at' = [at EXCEPT ![s] = Empty]
         /\ index' = [index EXCEPT ![s] = 0]
         /\ tries' = [tries EXCEPT ![s] = 0]
      \/ /\ UNCHANGED <<pc, index>>
         /\ tries[s] # Tries
         /\ at' = [at EXCEPT ![s] = SessionTokens[index[s]]]
         /\ tries' = [tries EXCEPT ![s] = @ + 1]
  BY DEF UseGranted, UseRefused, SignDone, OutOfTries
<1>5. TypeOK'
  <2>1. 0 \in 0..Tries /\ 0 \in Sessions /\ Empty \in AuthToken
    BY EmptyType, SessionsAssumption DEF Sessions
  <2>2. tries[s] # Tries => tries[s] + 1 \in 0..Tries
    <3>1. tries[s] \in 0..Tries
      BY DEF TypeOK
    <3>. QED BY <3>1, SessionsAssumption
  <2>3. SessionTokens[index[s]] \in AuthToken
    BY DEF TypeOK
  <2>4. at' \in [Signers -> AuthToken] /\ tries' \in [Signers -> 0..Tries]
    BY <1>4, <2>1, <2>2, <2>3 DEF TypeOK
  <2>5. pc' \in [Signers -> {"idle", "use"}] /\ index' \in [Signers -> Sessions]
    BY <1>4, <2>1 DEF TypeOK
  <2>. QED BY <1>1, <1>3, <2>4, <2>5 DEF TypeOK, Counter
<1>6. index[s] \in Sessions /\ index[s] < starting
  <2>1. starting = SessionCount
    BY <1>1 DEF SigningStarted
  <2>. QED BY <2>1, SessionsAssumption DEF TypeOK, Sessions
<1>7. /\ pc'[s] = "use" => at'[s] = SessionTokens[index[s]] /\ index'[s] = index[s]
      /\ \A r \in Signers : r = s \/ (at'[r] = at[r] /\ pc'[r] = pc[r] /\ index'[r] = index[r])
  BY <1>4 DEF TypeOK
<1>8. Unstarted' /\ FetchedBriefly' /\ FetchedGood' /\ CopiedSoFar'
  BY <1>1 DEF Unstarted, FetchedBriefly, FetchedGood, CopiedSoFar
<1>9. SigningStarted' /\ NeverAbandoned' /\ Lasting'
  BY <1>1, <1>7 DEF SigningStarted, NeverAbandoned, Lasting
<1>10. HeadersEverywhere'
  BY <1>1, <1>6, <1>7 DEF HeadersEverywhere
<1>. QED BY <1>3, <1>5, <1>8, <1>9, <1>10

LEMMA TickStep ==
  ASSUME IInv, Tick
  PROVE  IInv'
<1>. USE DEF IInv
<1>1. /\ \A i \in Sessions : step[i] # "store"
      /\ \A s \in Signers : pc[s] # "use"
      /\ SessionTokens' = [i \in Sessions |-> Aged(SessionTokens[i])]
      /\ due' = [i \in Sessions |-> IF due[i] > 0 THEN due[i] - 1 ELSE 0]
      /\ overdue' = [i \in Sessions |-> IF Late(i) /\ overdue[i] <= Margin
                                        THEN overdue[i] + 1 ELSE overdue[i]]
      /\ UNCHANGED <<starting, step, fetched, failed, unstored, counters, pc, index, at, tries,
                     refused, bare>>
  BY DEF Tick, signVars
<1>2. \A i \in Sessions :
        /\ SessionTokens'[i] \in AuthToken
        /\ SessionTokens'[i].headers = SessionTokens[i].headers
        /\ SessionTokens'[i].exp = IF SessionTokens[i].exp = NoValue \/ SessionTokens[i].exp < 0
                                   THEN SessionTokens[i].exp ELSE SessionTokens[i].exp - 1
  BY <1>1, AgedToken DEF TypeOK
<1>3. \A i \in Sessions : SessionTokens[i].exp # NoValue => SessionTokens[i].exp \in Int
  BY LeftType DEF TypeOK, AuthToken
<1>4. TypeOK'
  <2>1. SessionTokens' \in [Sessions -> AuthToken]
    BY <1>1, <1>2
  <2>2. due' \in [Sessions -> Nat]
    BY <1>1 DEF TypeOK
  <2>3. overdue' \in [Sessions -> 0..Margin + 1]
    BY <1>1, SessionsAssumption DEF TypeOK
  <2>. QED BY <1>1, <2>1, <2>2, <2>3 DEF TypeOK
<1>5. Unstarted'
  <2>. SUFFICES ASSUME NEW i \in Sessions, i >= starting
                PROVE  step[i] = "none" /\ SessionTokens'[i] = Empty /\ overdue'[i] = 0 /\ ~refused[i]
    BY <1>1 DEF Unstarted
  <2>1. step[i] = "none" /\ SessionTokens[i] = Empty /\ overdue[i] = 0 /\ ~refused[i]
    BY DEF Unstarted
  <2>2. Aged(Empty) = Empty
    BY DEF Aged, Empty
  <2>. QED BY <1>1, <2>1, <2>2 DEF Late
<1>6. FetchedBriefly' /\ FetchedGood' /\ CopiedSoFar' /\ SigningStarted' /\ UsesCovered'
  BY <1>1 DEF FetchedBriefly, FetchedGood, CopiedSoFar, SigningStarted, UsesCovered
<1>7. NeverAbandoned'
  BY <1>1, <1>2 DEF NeverAbandoned
<1>8. HeadersEverywhere'
  BY <1>1, <1>2 DEF HeadersEverywhere
<1>9. Lasting'
  <2>. SUFFICES ASSUME NEW i \in Sessions,
                       i < starting, ~refused[i], overdue'[i] <= Margin,
                       SessionTokens'[i].exp # NoValue
                PROVE  SessionTokens'[i].exp
                         >= Margin - overdue'[i] + (IF step[i] = "timer" THEN due'[i] ELSE 0)
    BY <1>1 DEF Lasting
  <2>1. /\ overdue[i] \in Nat /\ due[i] \in Nat /\ Margin \in Nat
        /\ SessionTokens[i].exp # NoValue /\ SessionTokens[i].exp \in Int
    BY <1>2, <1>3, SessionsAssumption DEF TypeOK
  <2>2. overdue[i] <= Margin /\ overdue'[i] = IF Late(i) THEN overdue[i] + 1 ELSE overdue[i]
    BY <1>1, <2>1
  <2>3. SessionTokens[i].exp >= Margin - overdue[i] + (IF step[i] = "timer" THEN due[i] ELSE 0)
    BY <2>1, <2>2 DEF Lasting
  <2>4. due'[i] = IF due[i] > 0 THEN due[i] - 1 ELSE 0
    BY <1>1
  <2>5. CASE Late(i)
    BY <1>2, <2>1, <2>2, <2>3, <2>4, <2>5 DEF Late
  <2>6. CASE ~Late(i)
    <3>1. step[i] = "timer" /\ due[i] > 0
      BY <1>1, <2>1, <2>6 DEF Late, NeverAbandoned, TypeOK
    <3>. QED BY <1>2, <2>1, <2>2, <2>3, <2>4, <2>6, <3>1
  <2>. QED BY <2>5, <2>6
<1>. QED BY <1>4, <1>5, <1>6, <1>7, <1>8, <1>9

\* Every step preserves the invariant.
LEMMA NextStep ==
  ASSUME IInv, [Next]_vars
  PROVE  IInv'
<1>1. CASE StartStep
  BY <1>1, StartGrantedStep, StartRefusedStep DEF StartStep
<1>2. ASSUME NEW i \in Sessions, RenewStep(i)
      PROVE  IInv'
  BY <1>2, FireStep, GrantedStep, RefusedStep, StoreStep, ConcludeStep DEF RenewStep
<1>3. ASSUME NEW s \in Signers, selectAuthToken(s) \/ UseGranted(s) \/ UseRefused(s)
      PROVE  IInv'
  BY <1>3, SelectStep, UseStep
<1>4. CASE Tick
  BY <1>4, TickStep
<1>5. CASE UNCHANGED vars
  BY <1>5 DEF vars, renewVars, signVars, ghostVars, IInv, TypeOK, Unstarted, FetchedBriefly,
              FetchedGood, CopiedSoFar, SigningStarted, NeverAbandoned, Lasting,
              HeadersEverywhere, UsesCovered
<1>. QED BY <1>1, <1>2, <1>3, <1>4, <1>5 DEF Next

\* What the invariant says of the expiration of a session's token.
LEMMA NotLapsed ==
  ASSUME IInv
  PROVE  NeverLapses
<1>. SUFFICES ASSUME NEW i \in Sessions,
                     i < starting, ~refused[i], overdue[i] <= Margin,
                     SessionTokens[i].exp # NoValue
              PROVE  ~(SessionTokens[i].exp < 0)
  BY DEF NeverLapses, Expired
<1>1. /\ SessionTokens[i].exp \in Int /\ due[i] \in Nat /\ overdue[i] \in Nat /\ Margin \in Nat
  BY LeftType, SessionsAssumption DEF IInv, TypeOK, AuthToken
<1>2. SessionTokens[i].exp >= Margin - overdue[i] + (IF step[i] = "timer" THEN due[i] ELSE 0)
  BY DEF IInv, Lasting
<1>. QED BY <1>1, <1>2
----------------------------------------------------------------------------
(* The theorems.                                                           *)

\* IInv holds in every state the sessions reach.
THEOREM Inductive == Spec => []IInv
<1>1. Init => IInv
  BY InitInvariant
<1>. QED BY <1>1, NextStep, PTL DEF Spec

\* The tokens, the timers and the counters are of the types the code declares, and
\* every pointer a token holds points to a counter (interface.go:20-31).
THEOREM TypeCorrect == Spec => []TypeOK
<1>1. IInv => TypeOK
  BY DEF IInv
<1>. QED BY <1>1, Inductive, PTL

\* A session whose goroutine has ended got its last answer without an error and
\* without an expiration: no failure ends it, in Start or later (client.go:134-148,
\* 157-168).
THEOREM RenewedForever == Spec => []NeverAbandoned
<1>1. IInv => NeverAbandoned
  BY DEF IInv
<1>. QED BY <1>1, Inductive, PTL

\* A session whose last request for a token was granted does not lapse before its
\* renewal is overdue by more than the margin (client.go:146, 154, 167).
THEOREM RenewedInTime == Spec => []NeverLapses
<1>. QED BY NotLapsed, Inductive, PTL

\* However many goroutines copy and use a token, it lets no more requests through
\* than it was granted uses (interface.go:46).
THEOREM UsesNeverExceeded == Spec => []UsesRespected
<1>1. IInv => UsesRespected
  <2>. SUFFICES ASSUME IInv, NEW c \in Counters
                PROVE  counters[c].used <= counters[c].granted
    BY DEF UsesRespected
  <2>1. counters[c] \in [granted : Nat, left : Nat, used : Nat]
    BY DEF IInv, TypeOK
  <2>2. counters[c].used + counters[c].left <= counters[c].granted
    BY DEF IInv, UsesCovered
  <2>. QED BY <2>1, <2>2
<1>. QED BY <1>1, Inductive, PTL

\* A request goes out without headers only if some answer to its session's GetToken had
\* none: never because a token was copied while it was being replaced
\* (client.go:137, 159, 216-233, 237-250).
THEOREM HeadersUnlessBare == Spec => []BareEarned
<1>1. IInv => BareEarned
  <2>. SUFFICES ASSUME IInv, NEW s \in Signers, GoesBare(s)
                PROVE  bare[index[s]]
    BY DEF BareEarned
  <2>1. index[s] \in Sessions
    BY DEF IInv, TypeOK
  <2>. QED BY <2>1 DEF IInv, HeadersEverywhere, GoesBare
<1>. QED BY <1>1, Inductive, PTL
=============================================================================
