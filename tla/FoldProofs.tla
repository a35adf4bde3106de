----------------------------- MODULE FoldProofs -----------------------------
(***************************************************************************)
(* What FoldLeft of the community modules computes, for every sequence,    *)
(* and induction over an interval, stated with a set in place of an        *)
(* operator.  To be instantiated with the operator that is folded.         *)
(***************************************************************************)
EXTENDS Integers, SequencesExt, WellFoundedInduction, TLAPS

\* One turn of a loop: a parameter of the loop, the result so far, an element.
CONSTANT Turn(_, _, _)
----------------------------------------------------------------------------
\* Induction: a set of numbers that has 0, and with a number the next one, has all.
LEMMA IntervalInduction ==
  ASSUME NEW n \in Nat, NEW S, 0 \in S, \A k \in 0..n - 1 : k \in S => k + 1 \in S
  PROVE  0..n \subseteq S
<1>. DEFINE Less == OpToRel(<, Nat)
            Missing == {k \in Nat : k <= n /\ k \notin S}
<1>1. \A x, y \in Nat : x < y => <<x, y>> \in Less
  BY DEF OpToRel
<1>2. IsWellFoundedOn(Less, Nat)
  BY NatLessThanWellFounded
<1>. HIDE DEF Less
<1>3. SUFFICES ASSUME Missing # {} PROVE FALSE
  OBVIOUS
<1>4. PICK m \in Missing : \A y \in Missing : <<y, m>> \notin Less
  <2>1. Missing \subseteq Nat
    OBVIOUS
  <2>. HIDE DEF Missing
  <2>. QED BY <1>2, <1>3, <2>1, WFMin
<1>5. m # 0 /\ m \in Nat
  OBVIOUS
<1>6. m - 1 \in Nat /\ m - 1 < m /\ m - 1 <= n /\ m - 1 \in 0..n - 1
  BY <1>5
<1>7. m - 1 \notin Missing
  BY <1>1, <1>4, <1>5, <1>6
<1>8. m - 1 \in S
  BY <1>6, <1>7
<1>9. m - 1 + 1 \in S
  BY <1>6, <1>8
<1>. QED BY <1>5, <1>9

\* Of the numbers of an interval that have a property, one is the last.
LEMMA LastOfSome ==
  ASSUME NEW n \in Nat, NEW F, F \subseteq 1..n, F # {}
  PROVE  \E k \in F : \A l \in F : l <= k
<1>. DEFINE Has(m) == \A l \in F : l > m
            S == {m \in 0..n : Has(m) \/ \E k \in F : \A l \in F : l <= m => l <= k}
<1>1. 0 \in S
  OBVIOUS
<1>2. ASSUME NEW m \in 0..n - 1, m \in S
      PROVE  m + 1 \in S
  <2>1. m + 1 \in 0..n
    OBVIOUS
  <2>2. CASE m + 1 \in F
    <3>1. \A l \in F : l <= m + 1 => l <= m + 1
      OBVIOUS
    <3>. QED BY <2>1, <2>2, <3>1
  <2>3. CASE m + 1 \notin F
    <3>1. \A l \in F : l > m => l > m + 1
      BY <2>3
    <3>. QED BY <1>2, <2>1, <3>1
  <2>. QED BY <2>2, <2>3
<1>. HIDE DEF S
<1>3. n \in S
  BY <1>1, <1>2, IntervalInduction
<1>4. ~Has(n)
  <2>1. PICK l \in F : l \in 1..n
    OBVIOUS
  <2>. QED BY <2>1
<1>5. \E k \in F : \A l \in F : l <= n => l <= k
  BY <1>3, <1>4 DEF S
<1>. QED BY <1>5
----------------------------------------------------------------------------
(* Folds.                                                                  *)

\* The recursive definition inside FoldLeft.
Recursion(x, base, seq, n, f) ==
  f = [s \in SUBSET (1..n) |->
         IF s = {} THEN base ELSE Turn(x, f[s \ {Max(s)}], seq[Max(s)])]

LEMMA MaxIs ==
  ASSUME NEW m \in Nat, NEW s \in SUBSET (1..m), m \in s
  PROVE  Max(s) = m
<1>1. m \in s /\ \A y \in s : m >= y
  OBVIOUS
<1>2. \A z \in s : (\A y \in s : z >= y) => z = m
  BY <1>1
<1>. QED BY <1>1, <1>2 DEF Max

\* There is a function that satisfies it.
LEMMA RecursionSound ==
  ASSUME NEW x, NEW base, NEW seq, NEW n \in Nat
  PROVE  \E f : Recursion(x, base, seq, n, f)
<1>. DEFINE S == {m \in Nat : \E f : Recursion(x, base, seq, m, f)}
<1>1. 0 \in S
  <2>. DEFINE f == [s \in SUBSET (1..0) |-> base]
  <2>1. \A s \in SUBSET (1..0) : s = {}
    OBVIOUS
  <2>2. Recursion(x, base, seq, 0, f)
    BY <2>1 DEF Recursion
  <2>. QED BY <2>2
<1>2. ASSUME NEW m \in 0..n - 1, m \in S
      PROVE  m + 1 \in S
  <2>1. PICK f : Recursion(x, base, seq, m, f)
    BY <1>2
  <2>. DEFINE g == [s \in SUBSET (1..m + 1) |->
                      IF m + 1 \in s THEN Turn(x, f[s \ {m + 1}], seq[m + 1]) ELSE f[s]]
              h == [s \in SUBSET (1..m + 1) |->
                      IF s = {} THEN base ELSE Turn(x, g[s \ {Max(s)}], seq[Max(s)])]
  <2>2. ASSUME NEW s \in SUBSET (1..m + 1)
        PROVE  g[s] = h[s]
    <3>1. s \ {Max(s)} \in SUBSET (1..m + 1)
      OBVIOUS
    <3>2. CASE m + 1 \in s
      <4>1. Max(s) = m + 1
        BY <3>2, MaxIs
      <4>2. m + 1 \notin s \ {m + 1}
        OBVIOUS
      <4>. QED BY <3>1, <3>2, <4>1, <4>2
    <3>3. CASE m + 1 \notin s
      <4>1. s \in SUBSET (1..m) /\ m + 1 \notin s \ {Max(s)}
        BY <3>3
      <4>2. g[s] = f[s] /\ g[s \ {Max(s)}] = f[s \ {Max(s)}]
        BY <3>1, <3>3, <4>1
      <4>3. f[s] = IF s = {} THEN base ELSE Turn(x, f[s \ {Max(s)}], seq[Max(s)])
        BY <2>1, <4>1 DEF Recursion
      <4>. QED BY <4>2, <4>3
    <3>. QED BY <3>2, <3>3
  <2>3. g = h
    BY <2>2
  <2>4. Recursion(x, base, seq, m + 1, g)
    BY <2>3 DEF Recursion
  <2>. QED BY <2>4
<1>. HIDE DEF S
<1>3. n \in S
  BY <1>1, <1>2, IntervalInduction
<1>. QED BY <1>3 DEF S

Folded(x, base, seq, result) ==
  result = FoldLeft(LAMBDA y, e : Turn(x, y, e), base, seq)

\* FoldLeft goes through the sequence from its first element to its last.
LEMMA FoldSteps ==
  ASSUME NEW x, NEW base, NEW seq, NEW n \in Nat, DOMAIN seq = 1..n,
         NEW result, Folded(x, base, seq, result)
  PROVE  \E r : /\ r[0] = base
                /\ \A k \in 1..n : r[k] = Turn(x, r[k - 1], seq[k])
                /\ r[n] = result
<1>. DEFINE f == CHOOSE f : Recursion(x, base, seq, n, f)
            r == [k \in 0..n |-> f[1..k]]
<1>1. Recursion(x, base, seq, n, f)
  BY RecursionSound
<1>2. result = f[1..n]
  BY DEF Folded, FoldLeft, MapThenFoldSet, Recursion
<1>. HIDE DEF f
<1>3. r[0] = base
  <2>1. 1..0 = {}
    OBVIOUS
  <2>. QED BY <1>1, <2>1 DEF Recursion
<1>4. ASSUME NEW k \in 1..n
      PROVE  r[k] = Turn(x, r[k - 1], seq[k])
  <2>1. Max(1..k) = k
    BY MaxIs
  <2>2. 1..k # {} /\ 1..k \in SUBSET (1..n) /\ (1..k) \ {k} = 1..k - 1
    OBVIOUS
  <2>3. f[1..k] = Turn(x, f[1..k - 1], seq[k])
    BY <1>1, <2>1, <2>2 DEF Recursion
  <2>. QED BY <2>3
<1>5. r[n] = result
  BY <1>2
<1>. HIDE DEF r
<1>. QED BY <1>3, <1>4, <1>5
=============================================================================
