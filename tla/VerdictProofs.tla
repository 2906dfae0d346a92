--------------------------- MODULE VerdictProofs ----------------------------
(***************************************************************************)
(* Theorems about what the verdict of a test rests on: which mask rule     *)
(* covers a position (RuleMatcher), how the items of a set array are       *)
(* paired (SetMatching), the ledger of what was approved (Approvals), and  *)
(* what the commands find in two bodies of an endpoint (Engine).           *)
(*                                                                         *)
(* The first two hold for all rules, paths and arrays; the third for every *)
(* set of names, of editors and every number of crashes, when the editors  *)
(* work one at a time; and the last for all bodies, settings and consumers *)
(* of an endpoint.  The functions of the Engine are defined by recursion   *)
(* over the calls on the parts of a body: that they are the functions that *)
(* their recursions say is proved here from how deep a body nests.         *)
(***************************************************************************)
EXTENDS Approvals, RuleMatcher, SetMatching, Recursion, FiniteSetTheorems, FunctionTheorems,
        Engine, TLAPS

-----------------------------------------------------------------------------
(* The matching of set arrays. *)

Choice(fits, m, i, taken) ==
  LET left == Left(fits, m, taken, i) IN IF left = {} THEN 0 ELSE Min(left)

LEMMA SmallestExists ==
  ASSUME NEW S \in SUBSET Nat, S # {}
  PROVE  Min(S) \in S
<1>1. IsWellFoundedOn(Smaller, Nat)
  BY NatLessThanWellFounded DEF OpToRel, Smaller
<1>2. PICK x \in S : \A y \in S : <<y, x>> \notin Smaller
  BY <1>1, WFMin
<1>3. \A y \in S : x <= y
  <2>1. \A y \in S : ~(y < x)
    BY <1>2 DEF Smaller
  <2>2. \A y \in S : y \in Nat /\ x \in Nat
    OBVIOUS
  <2>3. QED
    BY <2>1, <2>2
<1>4. QED
  BY <1>3 DEF Min

\* An item takes nothing, or an item that fits it and that is left.
LEMMA ChoiceIs ==
  ASSUME NEW fits, NEW m \in Nat, NEW i \in Nat, NEW taken
  PROVE  /\ Choice(fits, m, i, taken) \in 0..m
         /\ Left(fits, m, taken, i) = {} => Choice(fits, m, i, taken) = 0
         /\ Left(fits, m, taken, i) # {} =>
              /\ Choice(fits, m, i, taken) \in Left(fits, m, taken, i)
              /\ Choice(fits, m, i, taken) # 0
<1> DEFINE left == Left(fits, m, taken, i)
<1>1. left \in SUBSET Nat /\ left \subseteq 1..m
  BY DEF Left
<1>2. left # {} => Min(left) \in left
  <2> HIDE DEF left
  <2>1. QED
    BY <1>1, SmallestExists
<1>3. Choice(fits, m, i, taken) = IF left = {} THEN 0 ELSE Min(left)
  BY DEF Choice
<1> HIDE DEF left
<1>4. 0 \notin 1..m /\ 0 \in 0..m /\ 1..m \subseteq 0..m
  OBVIOUS
<1>5. /\ Choice(fits, m, i, taken) \in 0..m
      /\ left = {} => Choice(fits, m, i, taken) = 0
      /\ left # {} => Choice(fits, m, i, taken) \in left /\ Choice(fits, m, i, taken) # 0
  BY <1>1, <1>2, <1>3, <1>4
<1>6. QED
  BY <1>5 DEF left

\* What is left for an item depends on what those before it have taken.
LEMMA LeftDepends ==
  ASSUME NEW fits, NEW m, NEW i \in Nat, NEW s, NEW t,
         \A k \in 1..(i - 1) : s[k] = t[k]
  PROVE  /\ Left(fits, m, s, i) = Left(fits, m, t, i)
         /\ Choice(fits, m, i, s) = Choice(fits, m, i, t)
BY DEF Left, Choice

\* The stored items are taken up one by one.
LEMMA TakenSteps ==
  ASSUME NEW fits, NEW n \in Nat, NEW m \in Nat
  PROVE  /\ Taken(fits, n, m)[0] = <<>>
         /\ \A i \in 1..n : Taken(fits, n, m)[i] =
              Append(Taken(fits, n, m)[i - 1], Choice(fits, m, i, Taken(fits, n, m)[i - 1]))
<1> DEFINE V == Seq(0..m)
           More(k, s) == Append(s, Choice(fits, m, k + 1, s))
           step == [q \in Nat \X V |-> More(q[1], q[2])]
           first == <<>>
           Next1(f, i) == Append(f[i - 1], Choice(fits, m, i, f[i - 1]))
           upTo(f) == [i \in 0..n |-> IF i = 0 THEN <<>> ELSE Next1(f, i)]
<1>1. StepsIn(V, first, step)
  <2>1. ASSUME NEW k \in Nat, NEW s \in V PROVE More(k, s) \in V
    <3> DEFINE x == Choice(fits, m, k + 1, s)
    <3>1. x \in 0..m
      <4>1. k + 1 \in Nat
        OBVIOUS
      <4>2. QED
        BY <4>1, ChoiceIs
    <3> HIDE DEF x
    <3>2. Append(s, x) \in V
      BY <3>1
    <3>3. QED
      BY <3>2 DEF x
  <2>2. first \in V
    OBVIOUS
  <2> HIDE DEF V, More, first
  <2>3. step \in [Nat \X V -> V]
    BY <2>1
  <2>4. QED
    BY <2>2, <2>3 DEF StepsIn
<1>2. PICK h \in [0..n -> V] : DefinesUpTo(h, n, first, step)
  <2> HIDE DEF V, step, first
  <2>1. QED
    BY <1>1, RecursiveUpTo
<1>3. \A i \in 1..n : h[i] = Next1(h, i)
  <2> SUFFICES ASSUME NEW i \in 1..n PROVE h[i] = Next1(h, i)
    OBVIOUS
  <2>1. i - 1 \in Nat /\ i - 1 \in 0..n /\ (i - 1) + 1 = i
    OBVIOUS
  <2>2. h[i - 1] \in V
    <3> HIDE DEF V
    <3>1. QED
      BY <2>1
  <2>3. step[<<i - 1, h[i - 1]>>] = More(i - 1, h[i - 1])
    <3> HIDE DEF V, More
    <3>1. QED
      BY <2>1, <2>2
  <2>4. h[i] = More(i - 1, h[i - 1])
    <3> HIDE DEF V, More, step
    <3>1. QED
      BY <1>2, <2>3 DEF DefinesUpTo
  <2>5. QED
    BY <2>1, <2>4
<1>4. h[0] = <<>>
  BY <1>2 DEF DefinesUpTo
<1>5. h = upTo(h)
  <2> DEFINE Value(i) == IF i = 0 THEN <<>> ELSE Next1(h, i)
  <2>1. \A i \in 0..n : i = 0 \/ (i # 0 /\ i \in 1..n)
    OBVIOUS
  <2>2. \A i \in 1..n : i # 0
    OBVIOUS
  <2>3. \A i \in 0..n : h[i] = Value(i)
    <3> HIDE DEF Next1
    <3>1. QED
      BY <1>3, <1>4, <2>1, <2>2
  <2> HIDE DEF Value, V
  <2>4. h = [i \in 0..n |-> Value(i)]
    BY <2>3
  <2>5. QED
    BY <2>4 DEF Value
<1>6. Taken(fits, n, m) = CHOOSE f : f = upTo(f)
  BY DEF Taken, Choice
<1> DEFINE R == Taken(fits, n, m)
<1>7. R = upTo(R)
  <2> HIDE DEF upTo
  <2>1. QED
    BY <1>5, <1>6
<1>8. R[0] = <<>> /\ \A i \in 1..n : R[i] = Next1(R, i)
  <2> DEFINE Value(i) == IF i = 0 THEN <<>> ELSE Next1(R, i)
  <2>1. R = [i \in 0..n |-> Value(i)]
    BY <1>7
  <2> HIDE DEF Value, R
  <2>2. \A i \in 0..n : R[i] = Value(i)
    BY <2>1
  <2>3. 0 \in 0..n /\ \A i \in 1..n : i \in 0..n /\ i # 0
    OBVIOUS
  <2>4. QED
    BY <2>2, <2>3 DEF Value
<1>9. QED
  BY <1>8

\* Each stored item has taken the choice that it had.
LEMMA MatchIs ==
  ASSUME NEW fits, NEW n \in Nat, NEW m \in Nat
  PROVE  LET match == Match(fits, n, m)
         IN  /\ match \in Seq(0..m) /\ Len(match) = n
             /\ \A i \in 1..n : match[i] = Choice(fits, m, i, match)
<1> DEFINE R == Taken(fits, n, m)
           Right(s, k) == /\ s \in Seq(0..m) /\ Len(s) = k
                          /\ \A i \in 1..k : s[i] = Choice(fits, m, i, s)
           T == {k \in Nat : k <= n => Right(R[k], k)}
<1>1. 0 \in T
  <2>1. <<>> \in Seq(0..m) /\ Len(<<>>) = 0 /\ \A i \in 1..0 : FALSE
    OBVIOUS
  <2>2. Right(<<>>, 0)
    BY <2>1
  <2> HIDE DEF Right
  <2>3. QED
    BY <2>2, TakenSteps
<1>2. ASSUME NEW k \in Nat, k \in T PROVE k + 1 \in T
  <2> SUFFICES ASSUME k + 1 <= n PROVE Right(R[k + 1], k + 1)
    OBVIOUS
  <2> DEFINE s == R[k]
             x == Choice(fits, m, k + 1, s)
             t == Append(s, x)
  <2>1. Right(s, k)
    BY <1>2
  <2>2. R[k + 1] = t
    <3>1. k + 1 \in 1..n /\ (k + 1) - 1 = k
      OBVIOUS
    <3>2. R[k + 1] = Append(R[(k + 1) - 1], Choice(fits, m, k + 1, R[(k + 1) - 1]))
      BY <3>1, TakenSteps
    <3> HIDE DEF R
    <3>3. QED
      BY <3>1, <3>2
  <2>3. x \in 0..m
    BY ChoiceIs
  <2>4. s \in Seq(0..m) /\ Len(s) = k
    BY <2>1
  <2> HIDE DEF s, x
  <2>5. /\ t \in Seq(0..m) /\ Len(t) = k + 1 /\ t[k + 1] = x
        /\ \A i \in 1..k : t[i] = s[i]
    BY <2>3, <2>4
  <2> HIDE DEF t
  <2>6. ASSUME NEW i \in 1..(k + 1) PROVE t[i] = Choice(fits, m, i, t)
    <3>1. i \in Nat /\ \A l \in 1..(i - 1) : l \in 1..k
      OBVIOUS
    <3>2. \A l \in 1..(i - 1) : s[l] = t[l]
      BY <2>5, <3>1
    <3>3. Choice(fits, m, i, s) = Choice(fits, m, i, t)
      BY <3>1, <3>2, LeftDepends
    <3>4. CASE i = k + 1
      BY <2>5, <3>3, <3>4 DEF x
    <3>5. CASE i # k + 1
      <4>1. i \in 1..k
        BY <3>5
      <4>2. QED
        BY <2>1, <2>5, <3>3, <4>1
    <3>6. QED
      BY <3>4, <3>5
  <2>7. QED
    BY <2>2, <2>5, <2>6
<1>3. n \in T
  <2> HIDE DEF T
  <2>1. QED
    BY <1>1, <1>2, SetInduction
<1>4. Right(R[n], n)
  BY <1>3
<1>5. QED
  BY <1>4 DEF Match

\* What an item takes fits it, and no other item takes it.
Partners(match, fits, n, m) ==
  /\ \A i \in 1..n : match[i] # 0 => match[i] \in 1..m /\ <<i, match[i]>> \in fits
  /\ \A i, k \in 1..n : match[i] = match[k] /\ match[i] # 0 => i = k

\* differ.rs:360, actual_matched: what an item takes fits it, and no other item takes it.
THEOREM MatchedOnce ==
  ASSUME NEW fits, NEW n \in Nat, NEW m \in Nat
  PROVE  Partners(Match(fits, n, m), fits, n, m)
<1> DEFINE match == Match(fits, n, m)
<1>1. \A i \in 1..n : match[i] = Choice(fits, m, i, match)
  BY MatchIs
<1> HIDE DEF match
<1>2. ASSUME NEW i \in 1..n, match[i] # 0
      PROVE  /\ match[i] \in 1..m /\ <<i, match[i]>> \in fits
             /\ \A k \in 1..(i - 1) : match[k] # match[i]
  <2>1. i \in Nat
    OBVIOUS
  <2>2. match[i] \in Left(fits, m, match, i)
    BY <1>1, <1>2, <2>1, ChoiceIs
  <2>3. QED
    BY <2>2 DEF Left
<1>3. ASSUME NEW i \in 1..n, NEW k \in 1..n, match[i] = match[k], match[i] # 0
      PROVE  i = k
  <2>1. ~(i < k)
    <3>1. i < k => i \in 1..(k - 1)
      OBVIOUS
    <3>2. QED
      BY <1>2, <1>3, <3>1
  <2>2. ~(k < i)
    <3>1. k < i => k \in 1..(i - 1)
      OBVIOUS
    <3>2. QED
      BY <1>2, <1>3, <3>1
  <2>3. QED
    BY <2>1, <2>2
<1>4. /\ \A i \in 1..n : match[i] # 0 => match[i] \in 1..m /\ <<i, match[i]>> \in fits
      /\ \A i, k \in 1..n : match[i] = match[k] /\ match[i] # 0 => i = k
  <2>1. \A i \in 1..n : match[i] # 0 => match[i] \in 1..m /\ <<i, match[i]>> \in fits
    BY <1>2
  <2>2. \A i, k \in 1..n : match[i] = match[k] /\ match[i] # 0 => i = k
    BY <1>3
  <2>3. QED
    BY <2>1, <2>2
<1>5. Partners(match, fits, n, m)
  BY <1>4 DEF Partners
<1>6. QED
  BY <1>5 DEF match

\* diff_array_as_set finds no difference only where each stored item can be paired with
\* an actual one, whatever fits what.
THEOREM NoSetDifferencePairs ==
  ASSUME NEW fits, NEW n \in Nat, NEW m \in Nat,
         Missing(Match(fits, n, m)) = {}, Surplus(Match(fits, n, m), m) = {}
  PROVE  CanPair(fits, n, m)
<1> DEFINE match == Match(fits, n, m)
<1>1. match \in Seq(0..m) /\ Len(match) = n
  BY MatchIs
<1>2. Partners(match, fits, n, m)
  BY MatchedOnce
<1>3. Missing(match) = {} /\ Surplus(match, m) = {}
  OBVIOUS
<1> HIDE DEF match
<1>4. DOMAIN match = 1..n
  BY <1>1
<1>5. \A i \in 1..n : match[i] # 0
  BY <1>3, <1>4 DEF Missing
<1>6. match \in [1..n -> 1..m]
  <2>1. match = [i \in 1..n |-> match[i]]
    BY <1>1
  <2>2. QED
    BY <1>2, <1>5, <2>1 DEF Partners
<1>7. \A j \in 1..m : \E i \in 1..n : match[i] = j
  BY <1>3, <1>4 DEF Surplus
<1>8. match \in Injection(1..n, 1..m) /\ match \in Surjection(1..n, 1..m)
  BY <1>2, <1>5, <1>6, <1>7 DEF Partners, Injection, Surjection, IsInjective
<1>9. /\ IsFiniteSet(1..n) /\ Cardinality(1..n) = n
      /\ IsFiniteSet(1..m) /\ Cardinality(1..m) = m
  <2>1. \A a \in Nat : IsFiniteSet(1..a) /\ Cardinality(1..a) = a
    BY FS_Interval
  <2>2. QED
    BY <2>1
<1>10. n <= m /\ m <= n
  BY <1>8, <1>9, FS_Injection, FS_Surjection
<1>11. n = m
  BY <1>10
<1>12. \A i, k \in 1..n : match[i] = match[k] => i = k
  BY <1>2, <1>5 DEF Partners
<1>13. \A i \in 1..n : <<i, match[i]>> \in fits
  BY <1>2, <1>5 DEF Partners
<1>14. QED
  BY <1>6, <1>11, <1>12, <1>13 DEF CanPair

\* Of two items that fit a third each fits what the other does.
Interchangeable(fits) ==
  \A q, r, s \in fits : q[2] = r[2] /\ r[1] = s[1] => <<q[1], s[2]>> \in fits

\* differ.rs:355: where the items that fit each other are interchangeable, as they are
\* when numbers must be equal, taking the first that is left misses no pairing: every
\* stored item finds a partner when there is any way to pair them all.
THEOREM PairsNoSetDifference ==
  ASSUME NEW n \in Nat, NEW m \in Nat, NEW fits \in SUBSET ((1..n) \X (1..m)),
         Interchangeable(fits), CanPair(fits, n, m)
  PROVE  Missing(Match(fits, n, m)) = {} /\ Surplus(Match(fits, n, m), m) = {}
<1> DEFINE match == Match(fits, n, m)
<1>1. match \in Seq(0..m) /\ Len(match) = n
  BY MatchIs
<1>2. Partners(match, fits, n, m)
  BY MatchedOnce
<1>3. \A i \in 1..n : match[i] = Choice(fits, m, i, match)
  BY MatchIs
<1> HIDE DEF match
<1>4. DOMAIN match = 1..n
  BY <1>1
<1>5. \A a \in Nat : IsFiniteSet(1..a) /\ Cardinality(1..a) = a
  BY FS_Interval
<1>6. PICK p \in [1..n -> 1..m] :
        /\ \A i, k \in 1..n : p[i] = p[k] => i = k
        /\ \A i \in 1..n : <<i, p[i]>> \in fits
  BY DEF CanPair
<1>7. ASSUME NEW i \in 1..n, match[i] = 0 PROVE FALSE
  <2> DEFINE J == {j \in 1..m : <<i, j>> \in fits}
             C == {k \in 1..n : <<k, p[i]>> \in fits}
             g == [k \in C |-> p[k]]
             h == [j \in J |-> CHOOSE k \in 1..n : k < i /\ match[k] = j]
  <2>1. \A j \in J : \E k \in 1..n : k < i /\ match[k] = j
    <3> SUFFICES ASSUME NEW j \in J PROVE \E k \in 1..n : k < i /\ match[k] = j
      OBVIOUS
    <3>1. i \in Nat
      OBVIOUS
    <3>2. Left(fits, m, match, i) = {}
      BY <1>3, <1>7, <3>1, ChoiceIs
    <3>3. PICK k \in 1..(i - 1) : match[k] = j
      BY <3>2 DEF Left
    <3>4. k \in 1..n /\ k < i
      OBVIOUS
    <3>5. QED
      BY <3>3, <3>4
  <2>2. i \in C /\ C \subseteq 1..n /\ J \subseteq 1..m
    BY <1>6
  <2>3. ASSUME NEW k \in C PROVE p[k] \in J
    <3>1. <<k, p[k]>> \in fits /\ <<k, p[i]>> \in fits /\ <<i, p[i]>> \in fits /\ p[k] \in 1..m
      BY <1>6
    <3> DEFINE q == <<i, p[i]>>
               r == <<k, p[i]>>
               s == <<k, p[k]>>
    <3>2. q[2] = r[2] /\ r[1] = s[1] /\ q[1] = i /\ s[2] = p[k]
      OBVIOUS
    <3>3. q \in fits /\ r \in fits /\ s \in fits
      BY <3>1
    <3> HIDE DEF q, r, s
    <3>4. <<q[1], s[2]>> \in fits
      BY <3>2, <3>3 DEF Interchangeable
    <3>5. QED
      BY <3>1, <3>2, <3>4
  <2>4. g \in Injection(C, J)
    <3>1. g \in [C -> J]
      BY <2>3
    <3>2. \A k, l \in C : g[k] = g[l] => k = l
      BY <1>6
    <3> HIDE DEF g, C, J
    <3>3. DOMAIN g = C
      BY <3>1
    <3>4. QED
      BY <3>1, <3>2, <3>3 DEF Injection, IsInjective
  <2>5. ASSUME NEW j \in J
        PROVE  h[j] \in C \ {i} /\ match[h[j]] = j
    <3>1. h[j] \in 1..n /\ h[j] < i /\ match[h[j]] = j
      BY <2>1
    <3> DEFINE k == h[j]
    <3>2. <<k, j>> \in fits /\ <<i, j>> \in fits /\ <<i, p[i]>> \in fits
      <4>1. j # 0
        OBVIOUS
      <4>2. <<k, match[k]>> \in fits
        BY <1>2, <3>1, <4>1 DEF Partners
      <4>3. QED
        BY <1>6, <3>1, <4>2
    <3> HIDE DEF k
    <3> DEFINE q == <<k, j>>
               r == <<i, j>>
               s == <<i, p[i]>>
    <3>3. q[2] = r[2] /\ r[1] = s[1] /\ q[1] = k /\ s[2] = p[i]
      OBVIOUS
    <3>4. q \in fits /\ r \in fits /\ s \in fits
      BY <3>2
    <3> HIDE DEF q, r, s
    <3>5. <<k, p[i]>> \in fits
      BY <3>3, <3>4 DEF Interchangeable
    <3>6. QED
      BY <3>1, <3>5 DEF k
  <2>6. h \in Injection(J, C \ {i})
    <3>1. h = [j \in J |-> h[j]]
      OBVIOUS
    <3> HIDE DEF h, C, J
    <3>2. h \in [J -> C \ {i}]
      BY <2>5, <3>1
    <3>3. \A j, l \in J : h[j] = h[l] => j = l
      BY <2>5
    <3>4. QED
      BY <3>2, <3>3 DEF Injection, IsInjective
  <2> HIDE DEF g, h, C, J
  <2>7. IsFiniteSet(C) /\ IsFiniteSet(J)
    <3>1. IsFiniteSet(1..n) /\ IsFiniteSet(1..m)
      BY <1>5
    <3>2. QED
      BY <2>2, <3>1, FS_Subset
  <2>8. IsFiniteSet(C \ {i}) /\ Cardinality(C \ {i}) = Cardinality(C) - 1
    BY <2>2, <2>7, FS_RemoveElement
  <2>9. Cardinality(C) <= Cardinality(J)
    BY <2>4, <2>7, FS_Injection
  <2>10. Cardinality(J) <= Cardinality(C \ {i})
    BY <2>6, <2>8, FS_Injection
  <2>11. Cardinality(C) \in Nat /\ Cardinality(J) \in Nat
    BY <2>7, FS_CardinalityType
  <2>12. QED
    BY <2>8, <2>9, <2>10, <2>11
<1>8. match \in [1..n -> 1..m]
  <2>1. match = [i \in 1..n |-> match[i]]
    BY <1>1
  <2>2. QED
    BY <1>2, <1>7, <2>1 DEF Partners
<1>9. match \in Injection(1..n, 1..m)
  BY <1>2, <1>7, <1>8 DEF Partners, Injection, IsInjective
<1>10. match \in Surjection(1..n, 1..m)
  <2>1. n = m
    BY DEF CanPair
  <2>2. QED
    BY <1>5, <1>9, <2>1, FS_Injection
<1>11. \A j \in 1..m : \E i \in 1..n : match[i] = j
  BY <1>10 DEF Surjection
<1>12. Missing(match) = {} /\ Surplus(match, m) = {}
  BY <1>4, <1>7, <1>11 DEF Missing, Surplus
<1>13. QED
  BY <1>12 DEF match
-----------------------------------------------------------------------------
(* The two rule matchers. *)

LEMMA LargestOfOne ==
  ASSUME NEW x \in Nat
  PROVE  Max({x}) = x /\ Min({x}) = x
BY DEF Max, Min

\* The largest of a set of numbers.
LEMMA LargestOf ==
  ASSUME NEW S, NEW m \in S, S \subseteq Nat, \A i \in S : i <= m
  PROVE  Max(S) = m
<1>1. m \in Nat /\ \A i \in S : i \in Nat /\ m >= i
  OBVIOUS
<1> DEFINE x == Max(S)
<1>2. x \in S /\ \A i \in S : x >= i
  BY <1>1 DEF Max
<1> HIDE DEF x
<1>3. x \in Nat /\ m >= x /\ x >= m
  BY <1>1, <1>2
<1>4. x = m
  BY <1>1, <1>3
<1>5. QED
  BY <1>4 DEF x

\* Numbers up to n have a largest one.
LEMMA LargestIn ==
  ASSUME NEW n \in Nat, NEW S, S \subseteq 1..n, S # {}
  PROVE  Max(S) \in S
<1> DEFINE T == {k \in Nat : \A Q : Q \subseteq 1..k /\ Q # {} => \E m \in Q : \A i \in Q : i <= m}
<1>1. 0 \in T
  OBVIOUS
<1>2. ASSUME NEW k \in Nat, k \in T PROVE k + 1 \in T
  <2> SUFFICES ASSUME NEW Q, Q \subseteq 1..(k + 1), Q # {} PROVE \E m \in Q : \A i \in Q : i <= m
    OBVIOUS
  <2>1. CASE k + 1 \in Q
    BY <2>1
  <2>2. CASE k + 1 \notin Q
    <3>1. Q \subseteq 1..k
      BY <2>2
    <3>2. QED
      BY <1>2, <3>1
  <2>3. QED
    BY <2>1, <2>2
<1>3. Nat \subseteq T
  <2> HIDE DEF T
  <2>1. QED
    BY <1>1, <1>2, SetInduction
<1>4. PICK m \in S : \A i \in S : i <= m
  BY <1>3
<1>5. S \subseteq Nat
  OBVIOUS
<1>6. QED
  BY <1>4, <1>5, LargestOf

\* The words that lead along a path are its keys.
LEMMA WordsAreKeys ==
  ASSUME NEW words \in Seq(STRING), NEW path, LeadsAlong(words, path)
  PROVE  /\ Len(words) <= Len(path)
         /\ \A n \in 1..Len(words) : path[n] = Key(words[n])
         /\ (Len(path) \in Nat /\ DOMAIN path = 1..Len(path)) =>
              \A n \in 1..Len(words) : words[n] \in KeysIn(path)
<1>1. Len(words) <= Len(path) /\ \A n \in 1..Len(words) : path[n] = Key(words[n])
  BY DEF LeadsAlong
<1>2. ASSUME Len(path) \in Nat, DOMAIN path = 1..Len(path), NEW n \in 1..Len(words)
      PROVE  words[n] \in KeysIn(path)
  <2>1. n \in DOMAIN path /\ path[n] = Key(words[n])
    BY <1>1, <1>2
  <2>2. IsKey(path[n]) /\ path[n].key = words[n]
    BY <2>1 DEF IsKey, Key
  <2>3. QED
    BY <2>1, <2>2 DEF KeysIn
<1>3. QED
  BY <1>1, <1>2

\* A plain rule that the compiled matcher finds along a path has the beginning of it for
\* its path, ...
LEMMA CompiledIsPlain ==
  ASSUME NEW Tokens, NEW words \in Seq(STRING), NEW q \in Seq(Tokens), NEW path \in Seq(Tokens),
         NEW keys, KeysIn(path) \subseteq keys, PlainlyWritten(words, q, keys),
         LeadsAlong(words, path)
  PROVE  Len(q) = Len(words) /\ Len(q) <= Len(path) /\ SubSeq(path, 1, Len(q)) = q
<1>1. /\ Len(words) \in Nat /\ Len(words) <= Len(path)
      /\ \A n \in 1..Len(words) : words[n] \in keys /\ path[n] = Key(words[n])
  BY WordsAreKeys
<1>2. SubSeq(words, 1, Len(words)) = words
  OBVIOUS
<1>a. Len(words) \in 0..Len(words)
  BY <1>1
<1>b. \A n \in 0..Len(words) : (\A i \in 1..n : words[i] \in keys) =>
        LeadsAlong(SubSeq(words, 1, n), q) /\ (n = Len(words) => Len(q) = n)
  BY DEF PlainlyWritten
<1>3. LeadsAlong(words, q) /\ Len(q) = Len(words)
  BY <1>1, <1>2, <1>a, <1>b
<1>4. \A n \in 1..Len(q) : q[n] = path[n]
  BY <1>1, <1>3, WordsAreKeys
<1>5. QED
  BY <1>1, <1>3, <1>4

\* ... and a plain rule that goes on from there has it for the beginning of its own.
LEMMA LongerIsBelow ==
  ASSUME NEW words \in Seq(STRING), NEW more \in Seq(STRING), NEW r, NEW path,
         Len(path) \in Nat, DOMAIN path = 1..Len(path),
         NEW keys, KeysIn(path) \subseteq keys, PlainlyWritten(more, r, keys),
         LeadsAlong(words, path), Len(more) > Len(words), SubSeq(more, 1, Len(words)) = words
  PROVE  LeadsAlong(words, r)
<1>1. Len(words) \in 0..Len(more)
  OBVIOUS
<1>2. \A n \in 1..Len(words) : more[n] = words[n]
  OBVIOUS
<1>3. \A n \in 1..Len(words) : more[n] \in keys
  BY <1>2, WordsAreKeys
<1>4. QED
  BY <1>1, <1>3 DEF PlainlyWritten

\* masker.rs:281, "Fast path": at a position that masking comes to, which is one that no
\* rule covers from above, the compiled matcher and the standard one find the same rule,
\* whatever the rules are, as long as no two have the same path and each is plain for the
\* keys of the position: where the words of its text are keys, they are its path.
THEOREM RuleMatchersAgree ==
  ASSUME NEW Tokens, NEW Rules, NEW rules \in Seq(Rules),
         \A i \in DOMAIN rules : rules[i].path \in Seq(Tokens) /\ rules[i].words \in Seq(STRING),
         \A i, j \in DOMAIN rules : rules[i].path = rules[j].path => i = j,
         NEW path \in Seq(Tokens), NEW keys, KeysIn(path) \subseteq keys,
         \A i \in DOMAIN rules : PlainlyWritten(rules[i].words, rules[i].path, keys),
         \A n \in 0..(Len(path) - 1) : StandardRule(rules, SubSeq(path, 1, n)) = 0
  PROVE  RuleFor(rules, path) = StandardRule(rules, path)
<1>1. DOMAIN rules = 1..Len(rules) /\ Len(rules) \in Nat
  OBVIOUS
<1> DEFINE Matching(q) == {i \in DOMAIN rules : SegmentsMatch(rules[i].path, q)}
           jit == JitMatches(rules, path)
<1>2. ASSUME NEW q, StandardRule(rules, q) = 0 PROVE Matching(q) = {}
  <2>1. Matching(q) # {} => Min(Matching(q)) \in Matching(q)
    <3> DEFINE S == Matching(q)
    <3>1. S \in SUBSET Nat
      BY <1>1
    <3> HIDE DEF S
    <3>2. S # {} => Min(S) \in S
      BY <3>1, SmallestExists
    <3>3. QED
      BY <3>2 DEF S
  <2>2. 0 \notin Matching(q)
    BY <1>1
  <2>3. StandardRule(rules, q) = IF Matching(q) = {} THEN 0 ELSE Min(Matching(q))
    BY DEF StandardRule
  <2> HIDE DEF Matching
  <2>4. QED
    BY <1>2, <2>1, <2>2, <2>3
<1>3. ASSUME NEW i \in jit PROVE i \in DOMAIN rules /\ rules[i].path = path
  <2> DEFINE q == rules[i].path
  <2>0. i \in DOMAIN rules /\ LeadsAlong(rules[i].words, path)
    BY DEF JitMatches, TrieLeaves
  <2>2. q \in Seq(Tokens) /\ rules[i].words \in Seq(STRING) /\ PlainlyWritten(rules[i].words, q, keys)
    BY <2>0
  <2> HIDE DEF q
  <2>1. i \in DOMAIN rules /\ Len(q) <= Len(path) /\ SubSeq(path, 1, Len(q)) = q
    BY <2>0, <2>2, CompiledIsPlain
  <2>3. ~(Len(q) < Len(path))
    <3> SUFFICES ASSUME Len(q) < Len(path) PROVE FALSE
      OBVIOUS
    <3>1. Len(q) \in 0..(Len(path) - 1)
      <4> DEFINE a == Len(q)
                 b == Len(path)
      <4>1. a \in Nat /\ b \in Nat /\ a < b
        BY <2>2
      <4> HIDE DEF a, b
      <4>2. a \in 0..(b - 1)
        BY <4>1
      <4>3. QED
        BY <4>2 DEF a, b
    <3>2. StandardRule(rules, q) = 0
      BY <2>1, <3>1
    <3>3. i \in Matching(q)
      BY <2>1, <2>2 DEF SegmentsMatch, q
    <3>4. QED
      BY <1>2, <3>2, <3>3
  <2>4. q = path
    <3>1. Len(q) = Len(path)
      BY <2>1, <2>2, <2>3
    <3>2. SubSeq(path, 1, Len(path)) = path
      OBVIOUS
    <3>3. QED
      BY <2>1, <3>1, <3>2
  <2>5. QED
    BY <2>0, <2>4 DEF q
<1>4. CASE path # <<>> /\ KeysOnly(path) /\ jit # {}
  <2>1. PICK i \in jit : TRUE
    BY <1>4
  <2>2. i \in DOMAIN rules /\ rules[i].path = path /\ i \in Nat
    BY <1>1, <1>3, <2>1
  <2>3. jit = {i}
    BY <1>3, <2>1, <2>2
  <2>4. ASSUME NEW k \in Matching(path) PROVE k = i
    <3>1. /\ k \in DOMAIN rules /\ rules[k].path \in Seq(Tokens)
          /\ SegmentsMatch(rules[k].path, path)
      OBVIOUS
    <3>2. \A n \in DOMAIN path : ~IsIndex(path[n])
      <4>1. \A n \in DOMAIN path : IsKey(path[n])
        BY <1>4 DEF KeysOnly
      <4>2. {"key"} # {"index"}
        OBVIOUS
      <4>3. QED
        BY <4>1, <4>2 DEF IsKey, IsIndex
    <3>3. \A n \in DOMAIN path : rules[k].path[n] = path[n]
      BY <3>1, <3>2 DEF SegmentsMatch
    <3>4. Len(rules[k].path) = Len(path)
      BY <3>1 DEF SegmentsMatch
    <3>5. rules[k].path = path
      <4> DEFINE q == rules[k].path
      <4>1. q \in Seq(Tokens) /\ Len(q) = Len(path) /\ \A n \in DOMAIN path : q[n] = path[n]
        BY <3>1, <3>3, <3>4
      <4> HIDE DEF q
      <4>2. DOMAIN q = DOMAIN path
        BY <4>1
      <4>3. q = path
        BY <4>1, <4>2
      <4>4. QED
        BY <4>3 DEF q
    <3>6. QED
      BY <2>2, <3>1, <3>5
  <2>5. i \in Matching(path)
    BY <2>2 DEF SegmentsMatch
  <2>6. Matching(path) = {i}
    BY <2>4, <2>5
  <2>7. StandardRule(rules, path) = Min({i})
    <3>1. StandardRule(rules, path) = IF Matching(path) = {} THEN 0 ELSE Min(Matching(path))
      BY DEF StandardRule
    <3> HIDE DEF Matching
    <3>2. QED
      BY <2>6, <3>1
  <2>8. RuleFor(rules, path) = Max({i})
    BY <1>4, <2>3 DEF RuleFor
  <2>9. QED
    BY <2>2, <2>7, <2>8, LargestOfOne
<1>5. CASE ~(path # <<>> /\ KeysOnly(path) /\ jit # {})
  BY <1>5 DEF RuleFor
<1>6. QED
  BY <1>4, <1>5

-----------------------------------------------------------------------------
(* The approval ledger. *)

OneEditor == \A p, q \in Working : p = q

\* What is owed once the change of p has been stored, or has been given up.
OwedAfter(p) == IF change[p][1] = "approve" THEN owed \cup {change[p][2]}
                                            ELSE owed \ {change[p][2]}

\* The editor at work has everything in its copy that will be owed when it is
\* stored; until it truncates the file, that is whole.
CopyCovers ==
  \A p \in Working : OwedAfter(p) \subseteq copy[p] /\ (pc[p] = "loaded" => file # Torn)

LedgerIInv == LedgerTypeOK /\ OneEditor /\ CopyCovers /\ NoSilentLoss

-----------------------------------------------------------------------------
\* A torn file is neither absent nor a ledger, and a ledger has the names it holds.
LEMMA FileForms ==
  /\ NoFile # Torn /\ NoFile.names = {}
  /\ \A s : Ledger(s) # Torn /\ Ledger(s).names = s
<1>1. NoFile.is # Torn.is
  BY DEF NoFile, Torn
<1>2. \A s : Ledger(s).is # Torn.is
  BY DEF Ledger, Torn
<1>3. QED
  BY <1>1, <1>2 DEF NoFile, Ledger

\* An editor begins when no other is at work.
LEMMA LoadsAlone ==
  ASSUME LedgerIInv, MaxEditors = 1, Cardinality(Working) < MaxEditors
  PROVE  Working = {}
<1>1. SUFFICES ASSUME NEW p \in Working PROVE FALSE
  OBVIOUS
<1>2. Working = {p}
  BY DEF LedgerIInv, OneEditor
<1>3. Cardinality({p}) = 1
  BY FS_Singleton
<1>4. QED
  BY <1>2, <1>3

LEMMA LedgerIInvInit == LedgerInit => LedgerIInv
<1> SUFFICES ASSUME LedgerInit PROVE LedgerIInv
  OBVIOUS
<1>1. Working = {}
  BY DEF LedgerInit, Working
<1>2. LedgerTypeOK
  BY DEF LedgerInit, LedgerTypeOK
<1>3. QED
  BY <1>1, <1>2 DEF LedgerInit, LedgerIInv, OneEditor, CopyCovers, NoSilentLoss

LEMMA LoadKeeps ==
  ASSUME LedgerIInv, MaxEditors = 1, NEW p \in Editors, NEW what \in {"approve", "consume"},
         NEW e \in Endpoints, Load(p, what, e)
  PROVE  LedgerIInv'
<1> USE DEF LedgerIInv
<1>1. Working = {} /\ file # Torn /\ owed \subseteq Loaded
  BY LoadsAlone DEF Load, Loads, NoSilentLoss
<1>2. Loaded \subseteq Endpoints
  BY FileForms, <1>1 DEF LedgerTypeOK, Loaded
<1>3. /\ pc' = [pc EXCEPT ![p] = "loaded"] /\ UNCHANGED <<file, owed>>
      /\ change' = [change EXCEPT ![p] = <<what, e>>]
      /\ copy' = [copy EXCEPT ![p] = IF what = "approve" THEN Loaded \cup {e} ELSE Loaded \ {e}]
  BY DEF Load
<1>4. Working' = {p}
  BY <1>1, <1>3 DEF Working, LedgerTypeOK
<1>5. LedgerTypeOK'
  BY <1>1, <1>2, <1>3 DEF LedgerTypeOK, Working
<1>6. CopyCovers'
  BY <1>1, <1>3, <1>4 DEF CopyCovers, OwedAfter, LedgerTypeOK
<1>7. QED
  BY <1>3, <1>4, <1>5, <1>6 DEF OneEditor, NoSilentLoss, Loaded

LEMMA TruncateKeeps ==
  ASSUME LedgerIInv, NEW p \in Editors, Truncate(p)
  PROVE  LedgerIInv'
<1> USE DEF LedgerIInv
<1>1. Working' = Working
  BY DEF Truncate, Working, LedgerTypeOK
<1>2. LedgerTypeOK'
  BY DEF Truncate, LedgerTypeOK
<1>3. \A q \in Working : q = p
  BY DEF OneEditor, Working, Truncate
<1>4. CopyCovers'
  BY <1>1, <1>3 DEF CopyCovers, OwedAfter, Truncate, LedgerTypeOK
<1>5. QED
  BY <1>1, <1>2, <1>4 DEF OneEditor, NoSilentLoss, Truncate

LEMMA StoreKeeps ==
  ASSUME LedgerIInv, NEW p \in Editors, Store(p)
  PROVE  LedgerIInv'
<1> USE DEF LedgerIInv
<1>1. p \in Working /\ Working' = {}
  BY DEF Store, Working, LedgerTypeOK, OneEditor
<1>2. owed' = OwedAfter(p) /\ file' = Ledger(copy[p])
  BY DEF Store, OwedAfter
<1>3. owed' \subseteq copy[p] /\ copy[p] \in SUBSET Endpoints
  BY <1>1, <1>2 DEF CopyCovers, LedgerTypeOK
<1>4. LedgerTypeOK'
  <2>1. \A q \in Editors : pc'[q] # "truncated"
    BY <1>1 DEF Working
  <2>2. file' \in {Ledger(s) : s \in SUBSET Endpoints} /\ owed' \subseteq Endpoints
    BY <1>2, <1>3
  <2>3. QED
    BY <2>1, <2>2 DEF LedgerTypeOK, Store
<1>5. NoSilentLoss'
  BY <1>2, <1>3, FileForms DEF NoSilentLoss, Loaded
<1>6. QED
  BY <1>1, <1>4, <1>5 DEF OneEditor, CopyCovers

LEMMA FailKeeps ==
  ASSUME LedgerIInv, NEW p \in Editors, Fail(p)
  PROVE  LedgerIInv'
<1> USE DEF LedgerIInv
<1>1. p \in Working /\ Working' = {}
  BY DEF Fail, Working, LedgerTypeOK, OneEditor
<1>2. owed' \subseteq owed /\ file' = file
  BY DEF Fail
<1>3. LedgerTypeOK'
  <2>1. \A q \in Editors : pc'[q] # "truncated"
    BY <1>1 DEF Working
  <2>2. QED
    BY <1>2, <2>1 DEF LedgerTypeOK, Fail
<1>4. QED
  BY <1>1, <1>2, <1>3 DEF OneEditor, CopyCovers, NoSilentLoss, Loaded

LEMMA RepairKeeps ==
  ASSUME LedgerIInv, Repair
  PROVE  LedgerIInv'
<1> USE DEF LedgerIInv
<1>1. Working = {} /\ Working' = {} /\ owed' = {} /\ file' = NoFile /\ UNCHANGED <<pc, copy, change>>
  BY DEF Repair, Working
<1>2. LedgerTypeOK'
  BY <1>1 DEF LedgerTypeOK, Working
<1>3. QED
  BY <1>1, <1>2 DEF OneEditor, CopyCovers, NoSilentLoss

LEMMA LedgerIInvStep ==
  ASSUME LedgerIInv, MaxEditors = 1, [LedgerNext]_ledgerVars
  PROVE  LedgerIInv'
<1>1. CASE UNCHANGED ledgerVars
  BY <1>1 DEF ledgerVars, LedgerIInv, LedgerTypeOK, OneEditor, CopyCovers, NoSilentLoss, Working,
              OwedAfter, Loaded
<1>2. CASE LedgerNext
  BY <1>2, LoadKeeps, TruncateKeeps, StoreKeeps, FailKeeps, RepairKeeps DEF LedgerNext
<1>3. QED
  BY <1>1, <1>2

\* One editor at a time: a ledger that can be read holds every approval that was given
\* and not consumed, whatever crashed or failed before (`save` truncates the file and
\* then writes it, so that a crash leaves a file that does not parse).
THEOREM LedgerNoSilentLoss ==
  ASSUME MaxEditors = 1
  PROVE  LedgerSpec => []NoSilentLoss
<1>1. LedgerIInv => NoSilentLoss
  BY DEF LedgerIInv
<1>2. QED
  BY <1>1, LedgerIInvInit, LedgerIInvStep, PTL DEF LedgerSpec

-----------------------------------------------------------------------------
(* What a body holds, and where. *)

\* The positions one level below some.
Lower(S) == UNION {Below(p) : p \in S}

\* The levels of a value, each from the one above it.
LEMMA LevelSteps ==
  ASSUME NEW v
  PROVE  /\ Levels(v)[0] = {Position(<<>>, v)}
         /\ \A n \in Nat : Levels(v)[n + 1] = Lower(Levels(v)[n])
<1> DEFINE first == {Position(<<>>, v)}
           Right(f, k) == f[0] = first /\ \A i \in 0..(k - 1) : f[i + 1] = Lower(f[i])
           T == {k \in Nat : \E f : Right(f, k)}
           U == {k \in Nat : \A f, g, m : (m \in Nat /\ k <= m /\ Right(f, k) /\ Right(g, m)) => f[k] = g[k]}
           level == [n \in Nat |-> (CHOOSE f : Right(f, n))[n]]
           Value(f, n) == IF n = 0 THEN first ELSE Lower(f[n - 1])
<1>1. 0 \in T
  <2>1. Right([k \in Nat |-> first], 0)
    BY Z3
  <2>2. QED
    BY <2>1
<1>2. ASSUME NEW k \in Nat, k \in T PROVE k + 1 \in T
  <2>1. PICK f : Right(f, k)
    BY <1>2
  <2> DEFINE g == [i \in Nat |-> IF i = k + 1 THEN Lower(f[k]) ELSE f[i]]
  <2>2. Right(g, k + 1)
    <3>1. g[0] = first
      BY <2>1
    <3>2. ASSUME NEW i \in 0..k PROVE g[i + 1] = Lower(g[i])
      <4>1. g[i] = f[i] /\ i + 1 \in Nat
        OBVIOUS
      <4>2. CASE i = k
        <5>1. g[i + 1] = Lower(f[k])
          BY <4>2
        <5>2. QED
          BY <4>1, <4>2, <5>1
      <4>3. CASE i # k
        <5>1. i \in 0..(k - 1)
          BY <4>3
        <5>2. f[i + 1] = Lower(f[i])
          BY <2>1, <5>1
        <5>3. g[i + 1] = f[i + 1]
          BY <4>3, <4>1
        <5>4. QED
          BY <4>1, <5>2, <5>3
      <4>4. QED
        BY <4>2, <4>3
    <3> HIDE DEF g, first
    <3>3. QED
      BY <3>1, <3>2
  <2> HIDE DEF Right, g
  <2>3. QED
    BY <2>2
<1>3. \A k \in Nat : \E f : Right(f, k)
  <2>1. Nat \subseteq T
    <3> HIDE DEF T
    <3>1. QED
      BY <1>1, <1>2, SetInduction
  <2>2. QED
    BY <2>1
<1>4. 0 \in U
  OBVIOUS
<1>5. ASSUME NEW k \in Nat, k \in U PROVE k + 1 \in U
  <2>1. ASSUME NEW f, NEW g, NEW m, m \in Nat, k + 1 <= m, Right(f, k + 1), Right(g, m)
        PROVE  f[k + 1] = g[k + 1]
    <3>1. Right(f, k) /\ k <= m /\ k \in 0..((k + 1) - 1) /\ k \in 0..(m - 1)
      BY <2>1
    <3>2. f[k] = g[k]
      <4> HIDE DEF Right
      <4>1. QED
        BY <1>5, <2>1, <3>1
    <3>3. f[k + 1] = Lower(f[k]) /\ g[k + 1] = Lower(g[k])
      BY <2>1, <3>1
    <3>4. QED
      BY <3>2, <3>3
  <2> HIDE DEF Right
  <2>2. QED
    BY <2>1
<1>6. Nat \subseteq U
  <2> HIDE DEF U
  <2>1. QED
    BY <1>4, <1>5, SetInduction
<1>7. \A n \in Nat : Right(CHOOSE f : Right(f, n), n)
  <2> HIDE DEF Right
  <2>1. QED
    BY <1>3
<1>8. level[0] = first
  BY <1>7
<1>9. ASSUME NEW n \in Nat PROVE level[n + 1] = Lower(level[n])
  <2> DEFINE f == CHOOSE h : Right(h, n)
             g == CHOOSE h : Right(h, n + 1)
  <2>1. Right(f, n) /\ Right(g, n + 1)
    <3> HIDE DEF Right
    <3>1. QED
      BY <1>7
  <2>2. level[n] = f[n] /\ level[n + 1] = g[n + 1]
    OBVIOUS
  <2> HIDE DEF f, g, level
  <2>3. f[n] = g[n]
    <3>1. Right(f, n) /\ n \in U /\ n + 1 \in Nat /\ n <= n + 1
      BY <1>6, <2>1
    <3> HIDE DEF Right
    <3>2. QED
      BY <2>1, <3>1
  <2>4. n \in 0..((n + 1) - 1)
    OBVIOUS
  <2>5. g[n + 1] = Lower(g[n])
    BY <2>1, <2>4
  <2>6. QED
    BY <2>2, <2>3, <2>5
<1>10. \A n \in Nat : level[n] = Value(level, n)
  <2> HIDE DEF level, first
  <2> SUFFICES ASSUME NEW n \in Nat PROVE level[n] = Value(level, n)
    OBVIOUS
  <2>1. CASE n = 0
    BY <1>8, <2>1
  <2>2. CASE n # 0
    <3>1. n - 1 \in Nat /\ (n - 1) + 1 = n
      BY <2>2
    <3>2. QED
      BY <1>9, <2>2, <3>1
  <2>3. QED
    BY <2>1, <2>2
<1>11. level = [n \in Nat |-> Value(level, n)]
  <2>1. level = [n \in Nat |-> level[n]]
    OBVIOUS
  <2> HIDE DEF level, Value
  <2>2. QED
    BY <1>10, <2>1
<1>12. Levels(v) = CHOOSE f : f = [n \in Nat |-> Value(f, n)]
  BY DEF Levels, Lower
<1>13. Levels(v) = [n \in Nat |-> Value(Levels(v), n)]
  <2> HIDE DEF level, Value
  <2>1. QED
    BY <1>11, <1>12
<1>14. \A n \in Nat : Levels(v)[n] = Value(Levels(v), n)
  <2> DEFINE L == Levels(v)
  <2> HIDE DEF Value, L
  <2>1. L = [n \in Nat |-> Value(L, n)]
    BY <1>13 DEF L
  <2>2. QED
    BY <2>1 DEF L
<1>15. Levels(v)[0] = first
  BY <1>14
<1>16. ASSUME NEW n \in Nat PROVE Levels(v)[n + 1] = Lower(Levels(v)[n])
  <2>1. n + 1 \in Nat /\ n + 1 # 0 /\ (n + 1) - 1 = n
    OBVIOUS
  <2>2. QED
    BY <1>14, <2>1
<1>17. QED
  BY <1>15, <1>16

\* Sequences, whatever they are of.
LEMMA JoinSequences ==
  ASSUME NEW R, NEW s \in Seq(R), NEW Q, NEW t \in Seq(Q), NEW x
  PROVE  /\ Append(s, x) \in Seq(R \cup {x}) /\ Len(Append(s, x)) = Len(s) + 1
         /\ s \o t \in Seq(R \cup Q) /\ Len(s \o t) = Len(s) + Len(t)
         /\ s \o Append(t, x) = Append(s \o t, x)
         /\ s \o <<>> = s /\ <<>> \o s = s
<1> DEFINE S == R \cup Q \cup {x}
<1>1. s \in Seq(S) /\ t \in Seq(S) /\ x \in S
  OBVIOUS
<1>2. s \in Seq(R \cup {x}) /\ s \in Seq(R \cup Q) /\ t \in Seq(R \cup Q)
  OBVIOUS
<1>3. Append(s, x) \in Seq(R \cup {x}) /\ Len(Append(s, x)) = Len(s) + 1
  BY <1>2
<1>4. s \o t \in Seq(R \cup Q) /\ Len(s \o t) = Len(s) + Len(t)
  BY <1>2
<1>5. s \o Append(t, x) = Append(s \o t, x)
  <2> HIDE DEF S
  <2>1. QED
    BY <1>1
<1>6. s \o <<>> = s /\ <<>> \o s = s
  OBVIOUS
<1>7. QED
  BY <1>3, <1>4, <1>5, <1>6

\* An item at the end of the second is at the end of both.
LEMMA AppendLast ==
  ASSUME NEW R, NEW s \in Seq(R), NEW Q, NEW t \in Seq(Q), NEW x
  PROVE  s \o Append(t, x) = Append(s \o t, x)
BY JoinSequences

\* A position at depth n.
IsPosition(p, n) ==
  /\ p = Position(p.path, p.value)
  /\ \E R : p.path \in Seq(R)
  /\ Len(p.path) = n

\* What a position is made of.
LEMMA Fields ==
  /\ \A path, v : Position(path, v).path = path /\ Position(path, v).value = v
BY DEF Position

\* At depth n there are positions whose paths have n segments.
LEMMA LevelPositions ==
  ASSUME NEW v
  PROVE  \A n \in Nat : \A p \in Levels(v)[n] : IsPosition(p, n)
<1> DEFINE T == {n \in Nat : \A p \in Levels(v)[n] : IsPosition(p, n)}
<1>1. 0 \in T
  <2>1. <<>> \in Seq({}) /\ Len(<<>>) = 0
    OBVIOUS
  <2>2. IsPosition(Position(<<>>, v), 0)
    BY <2>1, Fields DEF IsPosition
  <2>3. QED
    BY <2>2, LevelSteps
<1>2. ASSUME NEW n \in Nat, n \in T PROVE n + 1 \in T
  <2>1. ASSUME NEW p \in Levels(v)[n + 1] PROVE IsPosition(p, n + 1)
    <3>1. PICK q \in Levels(v)[n] : p \in Below(q)
      BY LevelSteps DEF Lower
    <3>2. PICK c \in Children(q.value) : p = Position(Append(q.path, c.segment), c.value)
      BY <3>1 DEF Below
    <3>3. IsPosition(q, n)
      BY <1>2
    <3>4. PICK R : q.path \in Seq(R)
      BY <3>3 DEF IsPosition
    <3>5. Append(q.path, c.segment) \in Seq(R \cup {c.segment}) /\ Len(Append(q.path, c.segment)) = n + 1
      BY <3>3, <3>4, JoinSequences DEF IsPosition
    <3>6. p.path = Append(q.path, c.segment) /\ p.value = c.value
      BY <3>2, Fields
    <3>7. QED
      BY <3>2, <3>5, <3>6 DEF IsPosition
  <2>2. QED
    BY <2>1
<1>3. Nat \subseteq T
  <2> HIDE DEF T
  <2>1. QED
    BY <1>1, <1>2, SetInduction
<1>4. QED
  BY <1>3

\* What lies below a position lies below what is above it.
LEMMA Compose ==
  ASSUME NEW v, NEW k \in Nat, NEW p \in Levels(v)[k]
  PROVE  \A n \in Nat : \A q \in Levels(p.value)[n] :
           Position(p.path \o q.path, q.value) \in Levels(v)[k + n]
<1> DEFINE T == {n \in Nat : \A q \in Levels(p.value)[n] :
                   Position(p.path \o q.path, q.value) \in Levels(v)[k + n]}
<1>0. PICK R : p.path \in Seq(R)
  BY LevelPositions DEF IsPosition
<1>1. p.path \in Seq(R) /\ p = Position(p.path, p.value)
  BY <1>0, LevelPositions DEF IsPosition
<1>2. 0 \in T
  <2>1. p.path \o <<>> = p.path
    BY <1>1
  <2>2. ASSUME NEW q \in Levels(p.value)[0]
        PROVE  Position(p.path \o q.path, q.value) \in Levels(v)[k + 0]
    <3>1. q.path = <<>> /\ q.value = p.value /\ k + 0 = k
      BY LevelSteps, Fields
    <3>2. QED
      BY <1>1, <2>1, <3>1
  <2>3. QED
    BY <2>2
<1>3. ASSUME NEW n \in Nat, n \in T PROVE n + 1 \in T
  <2>1. ASSUME NEW q \in Levels(p.value)[n + 1]
        PROVE  Position(p.path \o q.path, q.value) \in Levels(v)[k + (n + 1)]
    <3>1. PICK o \in Levels(p.value)[n] : q \in Below(o)
      BY LevelSteps DEF Lower
    <3>2. PICK c \in Children(o.value) : q = Position(Append(o.path, c.segment), c.value)
      BY <3>1 DEF Below
    <3>3. PICK Q : o.path \in Seq(Q)
      BY LevelPositions DEF IsPosition
    <3>4. p.path \o Append(o.path, c.segment) = Append(p.path \o o.path, c.segment)
      <4> DEFINE s == p.path
                 t == o.path
                 x == c.segment
      <4>1. s \in Seq(R) /\ t \in Seq(Q)
        BY <1>0, <3>3
      <4> HIDE DEF s, t, x
      <4>2. s \o Append(t, x) = Append(s \o t, x)
        BY <4>1, AppendLast
      <4>3. QED
        BY <4>2 DEF s, t, x
    <3> DEFINE b == Position(p.path \o o.path, o.value)
    <3>5. b \in Levels(v)[k + n]
      BY <1>3
    <3>6. Position(p.path \o q.path, q.value) \in Below(b)
      <4>1. b.path = p.path \o o.path /\ b.value = o.value
        BY Fields
      <4>2. q.path = Append(o.path, c.segment) /\ q.value = c.value
        BY <3>2, Fields
      <4> HIDE DEF b
      <4>3. Position(p.path \o q.path, q.value) = Position(Append(b.path, c.segment), c.value)
        BY <3>4, <4>1, <4>2
      <4>4. QED
        BY <4>1, <4>3 DEF Below
    <3>7. k + n \in Nat /\ (k + n) + 1 = k + (n + 1)
      OBVIOUS
    <3> HIDE DEF b
    <3>8. Levels(v)[(k + n) + 1] = Lower(Levels(v)[k + n])
      BY <3>7, LevelSteps
    <3>9. QED
      BY <3>5, <3>6, <3>7, <3>8 DEF Lower
  <2>2. QED
    BY <2>1
<1>4. Nat \subseteq T
  <2> HIDE DEF T
  <2>1. QED
    BY <1>2, <1>3, SetInduction
<1>5. QED
  BY <1>4

\* The positions of a value are itself and those of what it holds.
LEMMA FromChild ==
  ASSUME NEW v
  PROVE  \A n \in Nat : \A p \in Levels(v)[n + 1] :
           \E c \in Children(v) : \E q \in Levels(c.value)[n] :
             p = Position(<<c.segment>> \o q.path, q.value)
<1> DEFINE From(p, n) == \E c \in Children(v) : \E q \in Levels(c.value)[n] :
                           p = Position(<<c.segment>> \o q.path, q.value)
           T == {n \in Nat : \A p \in Levels(v)[n + 1] : From(p, n)}
<1>1. 0 \in T
  <2>1. ASSUME NEW p \in Levels(v)[0 + 1] PROVE From(p, 0)
    <3>1. p \in Below(Position(<<>>, v))
      BY LevelSteps DEF Lower
    <3>2. PICK c \in Children(v) : p = Position(Append(<<>>, c.segment), c.value)
      BY <3>1, Fields DEF Below
    <3>3. Append(<<>>, c.segment) = <<c.segment>> \o <<>>
      OBVIOUS
    <3>4. Position(<<>>, c.value) \in Levels(c.value)[0]
      BY LevelSteps
    <3>5. p = Position(<<c.segment>> \o <<>>, c.value)
      BY <3>2, <3>3
    <3>6. p = Position(<<c.segment>> \o Position(<<>>, c.value).path, Position(<<>>, c.value).value)
      BY <3>5, Fields
    <3>7. QED
      BY <3>4, <3>6
  <2>2. QED
    BY <2>1
<1>2. ASSUME NEW n \in Nat, n \in T PROVE n + 1 \in T
  <2>1. ASSUME NEW p \in Levels(v)[(n + 1) + 1] PROVE From(p, n + 1)
    <3>1. PICK o \in Levels(v)[n + 1] : p \in Below(o)
      BY LevelSteps, n + 1 \in Nat DEF Lower
    <3>2. PICK d \in Children(o.value) : p = Position(Append(o.path, d.segment), d.value)
      BY <3>1 DEF Below
    <3>12. PICK c \in Children(v) : \E q \in Levels(c.value)[n] :
             o = Position(<<c.segment>> \o q.path, q.value)
      BY <1>2
    <3>3. PICK q \in Levels(c.value)[n] : o = Position(<<c.segment>> \o q.path, q.value)
      BY <3>12
    <3>4. PICK Q : q.path \in Seq(Q)
      BY LevelPositions DEF IsPosition
    <3>5. <<c.segment>> \in Seq({c.segment})
      OBVIOUS
    <3>6. <<c.segment>> \o Append(q.path, d.segment) = Append(<<c.segment>> \o q.path, d.segment)
      BY <3>4, <3>5, AppendLast
    <3> DEFINE b == Position(Append(q.path, d.segment), d.value)
    <3>7. d \in Children(q.value)
      BY <3>2, <3>3, Fields
    <3>8. b \in Below(q)
      BY <3>7 DEF Below
    <3>9. b \in Levels(c.value)[n + 1]
      BY <3>8, LevelSteps DEF Lower
    <3>10. p = Position(<<c.segment>> \o b.path, b.value)
      BY <3>2, <3>3, <3>6, Fields
    <3> HIDE DEF b
    <3>11. QED
      BY <3>9, <3>10
  <2> HIDE DEF From
  <2>2. QED
    BY <2>1
<1>3. Nat \subseteq T
  <2> HIDE DEF T
  <2>1. QED
    BY <1>1, <1>2, SetInduction
<1>4. QED
  BY <1>3

\* A child is at depth 1.
LEMMA ChildIsBelow ==
  ASSUME NEW v, NEW c \in Children(v)
  PROVE  Position(<<c.segment>>, c.value) \in Levels(v)[1]
<1>1. Position(Append(<<>>, c.segment), c.value) \in Below(Position(<<>>, v))
  BY Fields DEF Below
<1>2. Levels(v)[0 + 1] = Lower(Levels(v)[0]) /\ Append(<<>>, c.segment) = <<c.segment>>
  BY LevelSteps
<1>3. QED
  BY <1>1, <1>2, LevelSteps DEF Lower

\* What a child holds, the value holds one level deeper.
LEMMA OfChild ==
  ASSUME NEW v, NEW c \in Children(v), NEW n \in Nat, NEW q \in Levels(c.value)[n]
  PROVE  Position(<<c.segment>> \o q.path, q.value) \in Levels(v)[n + 1]
<1>1. 1 + n = n + 1 /\ 1 \in Nat
  OBVIOUS
<1>2. QED
  BY <1>1, ChildIsBelow, Compose, Fields

\* Below an empty level there is nothing.
LEMMA EmptyStays ==
  ASSUME NEW v, NEW r \in Nat, Levels(v)[r] = {}
  PROVE  \A n \in Nat : n >= r => Levels(v)[n] = {}
<1> DEFINE T == {n \in Nat : Levels(v)[r + n] = {}}
<1>1. 0 \in T
  OBVIOUS
<1>2. ASSUME NEW n \in Nat, n \in T PROVE n + 1 \in T
  <2>1. r + n \in Nat /\ (r + n) + 1 = r + (n + 1)
    OBVIOUS
  <2>2. Levels(v)[(r + n) + 1] = Lower(Levels(v)[r + n])
    BY <2>1, LevelSteps
  <2>3. QED
    BY <1>2, <2>1, <2>2 DEF Lower
<1>3. Nat \subseteq T
  <2> HIDE DEF T
  <2>1. QED
    BY <1>1, <1>2, SetInduction
<1>4. ASSUME NEW n \in Nat, n >= r PROVE Levels(v)[n] = {}
  <2>1. n - r \in T /\ r + (n - r) = n
    BY <1>3, <1>4
  <2>2. QED
    BY <2>1
<1>5. QED
  BY <1>4

-----------------------------------------------------------------------------
\* A value whose parts are values, and that nests less than r levels.
Sound(v, r) ==
  /\ Levels(v)[r] = {}
  /\ \A n \in Nat : \A p \in Levels(v)[n] : IsNode(p.value)

\* The three kinds of segments, told apart.
LEMMA SegmentForms ==
  /\ \A k : Key(k).key = k /\ IsKey(Key(k)) /\ ~IsIndex(Key(k)) /\ Key(k) # AnyIndex
  /\ \A i : Index(i).index = i /\ IsIndex(Index(i)) /\ ~IsKey(Index(i)) /\ Index(i) # AnyIndex
  /\ \A k \in STRING : Key(k) \in Segment
  /\ \A i \in Nat : Index(i) \in Segment
  /\ AnyIndex \in Segment /\ ~IsKey(AnyIndex) /\ ~IsIndex(AnyIndex)
<1>1. \A k : DOMAIN Key(k) = {"key"} /\ Key(k).key = k
  BY DEF Key
<1>2. \A i : DOMAIN Index(i) = {"index"} /\ Index(i).index = i
  BY DEF Index
<1>3. DOMAIN AnyIndex = {"any"}
  BY DEF AnyIndex
<1>4. {"key"} # {"index"} /\ {"key"} # {"any"} /\ {"index"} # {"any"}
  OBVIOUS
<1>5. \A k \in STRING : Key(k) \in Segment
  BY DEF Segment, Key
<1>6. \A i \in Nat : Index(i) \in Segment
  BY DEF Segment, Index
<1>7. AnyIndex \in Segment
  BY DEF Segment
<1>8. QED
  BY <1>1, <1>2, <1>3, <1>4, <1>5, <1>6, <1>7 DEF IsKey, IsIndex

\* The kinds of values, and what each of them holds.
LEMMA NodeKinds ==
  ASSUME NEW v, IsNode(v)
  PROVE  /\ v.type = "object" => /\ v = Object(v.fields) /\ DOMAIN v.fields \subseteq STRING
                                 /\ v.fields = [k \in DOMAIN v.fields |-> v.fields[k]]
                                 /\ IsFiniteSet(DOMAIN v.fields)
                                 /\ Children(v) = {[segment |-> Key(k), value |-> v.fields[k]] : k \in DOMAIN v.fields}
         /\ v.type = "array" => /\ v = Array(v.items)
                                /\ v.items \in Seq({v.items[i] : i \in DOMAIN v.items})
                                /\ Len(v.items) \in Nat /\ DOMAIN v.items = 1..Len(v.items)
                                /\ Children(v) = {[segment |-> Index(i), value |-> v.items[i]] : i \in DOMAIN v.items}
         /\ v.type \notin {"object", "array"} => Children(v) = {}
<1>1. CASE v.type = "object"
  <2> DEFINE f == v.fields
             g == [k \in DOMAIN v.fields |-> v.fields[k]]
  <2>1. v = Object(g) /\ DOMAIN f \subseteq STRING /\ IsFiniteSet(DOMAIN f)
    BY <1>1 DEF IsNode
  <2>2. Object(g).fields = g
    BY DEF Object
  <2>3. f = g
    <3> HIDE DEF g
    <3>1. QED
      BY <2>1, <2>2
  <2>4. Children(v) = {[segment |-> Key(k), value |-> v.fields[k]] : k \in DOMAIN v.fields}
    BY <1>1 DEF Children
  <2>5. QED
    BY <1>1, <2>1, <2>3, <2>4
<1>2. CASE v.type = "array"
  <2>1. v = Array(v.items) /\ v.items \in Seq({v.items[i] : i \in DOMAIN v.items})
    BY <1>2 DEF IsNode
  <2>2. Len(v.items) \in Nat /\ DOMAIN v.items = 1..Len(v.items)
    <3> DEFINE s == v.items
               S == {v.items[i] : i \in DOMAIN v.items}
    <3>1. s \in Seq(S)
      BY <2>1
    <3> HIDE DEF s, S
    <3>2. Len(s) \in Nat /\ DOMAIN s = 1..Len(s)
      BY <3>1
    <3>3. QED
      BY <3>2 DEF s
  <2>3. Children(v) = {[segment |-> Index(i), value |-> v.items[i]] : i \in DOMAIN v.items}
    BY <1>2 DEF Children
  <2>4. QED
    BY <1>2, <2>1, <2>2, <2>3
<1>3. CASE v.type \notin {"object", "array"}
  BY <1>3 DEF Children
<1>4. QED
  BY <1>1, <1>2, <1>3

\* A child is a field of an object or an item of an array.
LEMMA ChildForms ==
  ASSUME NEW v, NEW c \in Children(v)
  PROVE  \/ v.type = "object" /\ \E k \in DOMAIN v.fields : c = [segment |-> Key(k), value |-> v.fields[k]]
         \/ v.type = "array" /\ \E i \in DOMAIN v.items : c = [segment |-> Index(i), value |-> v.items[i]]
BY DEF Children

\* A segment leads to a child.
LEMMA ChildSegments ==
  ASSUME NEW v, IsNode(v), NEW c \in Children(v)
  PROVE  c.segment \in Segment /\ c = [segment |-> c.segment, value |-> c.value]
<1>1. CASE v.type = "object"
  <2>1. PICK k \in DOMAIN v.fields : c = [segment |-> Key(k), value |-> v.fields[k]]
    BY <1>1, ChildForms
  <2>2. k \in STRING
    BY <1>1, NodeKinds
  <2>3. QED
    BY <2>1, <2>2, SegmentForms
<1>2. CASE v.type = "array"
  <2>1. PICK i \in DOMAIN v.items : c = [segment |-> Index(i), value |-> v.items[i]]
    BY <1>2, ChildForms
  <2>2. i \in Nat
    <3>1. DOMAIN v.items = 1..Len(v.items) /\ Len(v.items) \in Nat
      BY <1>2, NodeKinds
    <3>2. QED
      BY <3>1
  <2>3. QED
    BY <2>1, <2>2, SegmentForms
<1>3. QED
  BY <1>1, <1>2, NodeKinds

\* A segment leads to one child.
LEMMA ChildUnique ==
  ASSUME NEW v, IsNode(v), NEW c \in Children(v), NEW d \in Children(v), c.segment = d.segment
  PROVE  c = d
<1>1. CASE v.type = "object"
  <2>1. PICK k \in DOMAIN v.fields : c = [segment |-> Key(k), value |-> v.fields[k]]
    BY <1>1, ChildForms
  <2>2. PICK l \in DOMAIN v.fields : d = [segment |-> Key(l), value |-> v.fields[l]]
    BY <1>1, ChildForms
  <2>3. Key(k) = Key(l)
    BY <2>1, <2>2
  <2>4. k = l
    BY <2>3, SegmentForms
  <2>5. QED
    BY <2>1, <2>2, <2>4
<1>2. CASE v.type = "array"
  <2>1. PICK k \in DOMAIN v.items : c = [segment |-> Index(k), value |-> v.items[k]]
    BY <1>2, ChildForms
  <2>2. PICK l \in DOMAIN v.items : d = [segment |-> Index(l), value |-> v.items[l]]
    BY <1>2, ChildForms
  <2>3. Index(k) = Index(l)
    BY <2>1, <2>2
  <2>4. k = l
    BY <2>3, SegmentForms
  <2>5. QED
    BY <2>1, <2>2, <2>4
<1>3. QED
  BY <1>1, <1>2, NodeKinds

\* What lies at the levels of a sound value.
LEMMA SoundTyped ==
  ASSUME NEW v, NEW r \in Nat, Sound(v, r)
  PROVE  \A n \in Nat : \A p \in Levels(v)[n] :
           n < r /\ p.path \in Path /\ Len(p.path) = n /\ IsNode(p.value)
<1> DEFINE T == {n \in Nat : \A p \in Levels(v)[n] : p.path \in Path}
<1>1. 0 \in T
  <2>1. <<>> \in Path
    BY DEF Path
  <2>2. QED
    BY <2>1, LevelSteps, Fields
<1>2. ASSUME NEW n \in Nat, n \in T PROVE n + 1 \in T
  <2>1. ASSUME NEW p \in Levels(v)[n + 1] PROVE p.path \in Path
    <3>1. PICK q \in Levels(v)[n] : p \in Below(q)
      BY LevelSteps DEF Lower
    <3>2. PICK c \in Children(q.value) : p = Position(Append(q.path, c.segment), c.value)
      BY <3>1 DEF Below
    <3>3. q.path \in Seq(Segment) /\ c.segment \in Segment
      BY <1>2, ChildSegments DEF Sound, Path
    <3>4. Append(q.path, c.segment) \in Seq(Segment)
      BY <3>3
    <3>5. QED
      BY <3>2, <3>4, Fields DEF Path
  <2>2. QED
    BY <2>1
<1>3. Nat \subseteq T
  <2> HIDE DEF T
  <2>1. QED
    BY <1>1, <1>2, SetInduction
<1>4. \A n \in Nat : \A p \in Levels(v)[n] : n < r
  BY EmptyStays DEF Sound
<1>5. QED
  BY <1>3, <1>4, LevelPositions DEF Sound, IsPosition

\* The parts of a sound value are sound, and nest less the deeper they lie.
LEMMA SoundAt ==
  ASSUME NEW v, NEW r \in Nat, Sound(v, r), NEW n \in Nat, NEW p \in Levels(v)[n]
  PROVE  r - n \in Nat /\ r - n > 0 /\ Sound(p.value, r - n)
<1>1. n < r
  BY SoundTyped
<1>2. r - n \in Nat /\ n + (r - n) = r /\ r - n > 0
  BY <1>1
<1>3. Levels(p.value)[r - n] = {}
  <2>1. \A q \in Levels(p.value)[r - n] : Position(p.path \o q.path, q.value) \in Levels(v)[n + (r - n)]
    BY <1>2, Compose
  <2>2. QED
    BY <1>2, <2>1 DEF Sound
<1>4. ASSUME NEW m \in Nat, NEW q \in Levels(p.value)[m] PROVE IsNode(q.value)
  <2>1. Position(p.path \o q.path, q.value) \in Levels(v)[n + m] /\ n + m \in Nat
    BY Compose
  <2>2. IsNode(Position(p.path \o q.path, q.value).value)
    BY <2>1 DEF Sound
  <2>3. QED
    BY <2>2, Fields
<1>5. QED
  BY <1>2, <1>3, <1>4 DEF Sound

\* A sound value is a value.
LEMMA SoundNode ==
  ASSUME NEW v, NEW r, Sound(v, r)
  PROVE  IsNode(v)
<1>1. Position(<<>>, v) \in Levels(v)[0]
  BY LevelSteps
<1>2. QED
  BY <1>1, Fields DEF Sound

\* A child is sound and nests a level less.
LEMMA SoundChild ==
  ASSUME NEW v, NEW r \in Nat, Sound(v, r), NEW c \in Children(v)
  PROVE  r - 1 \in Nat /\ r - 1 > 0 /\ Sound(c.value, r - 1)
<1>1. Position(<<c.segment>>, c.value) \in Levels(v)[1]
  BY ChildIsBelow
<1>2. QED
  BY <1>1, SoundAt, Fields, 1 \in Nat

\* A value is sound when its children are.
LEMMA SoundParts ==
  ASSUME NEW v, IsNode(v), NEW r \in Nat, \A c \in Children(v) : Sound(c.value, r)
  PROVE  Sound(v, r + 1)
<1>1. Levels(v)[r + 1] = {}
  <2>1. \A p \in Levels(v)[r + 1] : \E c \in Children(v) : Levels(c.value)[r] # {}
    BY FromChild
  <2>2. QED
    BY <2>1 DEF Sound
<1>2. ASSUME NEW n \in Nat, NEW p \in Levels(v)[n] PROVE IsNode(p.value)
  <2>1. CASE n = 0
    BY <2>1, LevelSteps, Fields
  <2>2. CASE n # 0
    <3> DEFINE m == n - 1
    <3>1. m \in Nat /\ m + 1 = n
      BY <2>2
    <3> HIDE DEF m
    <3>2. PICK c \in Children(v) : \E q \in Levels(c.value)[m] : p = Position(<<c.segment>> \o q.path, q.value)
      BY <3>1, FromChild
    <3>3. PICK q \in Levels(c.value)[m] : p = Position(<<c.segment>> \o q.path, q.value)
      BY <3>2
    <3>4. IsNode(q.value)
      BY <3>1 DEF Sound
    <3>5. QED
      BY <3>3, <3>4, Fields
  <2>3. QED
    BY <2>1, <2>2
<1>3. QED
  BY <1>1, <1>2 DEF Sound

\* The positions of a body are those of its levels.
LEMMA BodyPositions ==
  ASSUME NEW v, IsBody(v)
  PROVE  /\ Sound(v, Nesting + 1)
         /\ \A n \in Nat : Levels(v)[n] \subseteq Positions(v)
         /\ \A p \in Positions(v) : \E n \in Nat : n <= Nesting /\ p \in Levels(v)[n]
         /\ v \in Values(v) /\ Position(<<>>, v) \in Positions(v)
<1>1. Nesting \in Nat /\ Nesting + 1 \in Nat
  BY NestingAssumption
<1>2. \A p \in Positions(v) : \E n \in Nat : n <= Nesting /\ p \in Levels(v)[n]
  BY <1>1 DEF Positions
<1>3. ASSUME NEW n \in Nat PROVE Levels(v)[n] \subseteq Positions(v)
  <2>1. CASE n <= Nesting
    BY <1>1, <2>1 DEF Positions
  <2>2. CASE n >= Nesting + 1
    BY <1>1, <2>2, EmptyStays DEF IsBody
  <2>3. QED
    BY <1>1, <2>1, <2>2
<1>4. Sound(v, Nesting + 1)
  BY <1>3 DEF Sound, IsBody, Values
<1>5. Position(<<>>, v) \in Positions(v)
  BY <1>3, LevelSteps
<1>6. v \in Values(v)
  BY <1>5, Fields DEF Values
<1>7. QED
  BY <1>2, <1>3, <1>4, <1>5, <1>6

\* A sound value that nests no deeper than a body may is a body.
LEMMA SoundBody ==
  ASSUME NEW v, NEW r \in Nat, r <= Nesting + 1, Sound(v, r)
  PROVE  IsBody(v)
<1>1. Nesting \in Nat /\ Nesting + 1 \in Nat
  BY NestingAssumption
<1>2. Levels(v)[Nesting + 1] = {}
  BY <1>1, EmptyStays DEF Sound
<1>3. \A x \in Values(v) : IsNode(x)
  BY <1>1 DEF Sound, Values, Positions
<1>4. QED
  BY <1>2, <1>3 DEF IsBody

\* What a body holds is a body, and the body holds what it holds.
LEMMA ValueOf ==
  ASSUME NEW v, IsBody(v), NEW x \in Values(v)
  PROVE  /\ IsNode(x) /\ IsBody(x) /\ Sound(x, Nesting + 1)
         /\ \A c \in Children(x) : c.value \in Values(v)
<1>1. Nesting \in Nat /\ Nesting + 1 \in Nat
  BY NestingAssumption
<1>2. PICK p \in Positions(v) : p.value = x
  BY DEF Values
<1>3. PICK n \in Nat : n <= Nesting /\ p \in Levels(v)[n]
  BY BodyPositions
<1>4. Sound(v, Nesting + 1)
  BY BodyPositions
<1> DEFINE r == (Nesting + 1) - n
<1>5. r \in Nat /\ Sound(x, r) /\ r <= Nesting + 1
  BY <1>1, <1>2, <1>3, <1>4, SoundAt
<1> HIDE DEF r
<1>6. IsBody(x)
  BY <1>5, SoundBody
<1>7. ASSUME NEW c \in Children(x) PROVE c.value \in Values(v)
  <2>1. Position(Append(p.path, c.segment), c.value) \in Below(p)
    BY <1>2 DEF Below
  <2>2. Position(Append(p.path, c.segment), c.value) \in Levels(v)[n + 1]
    BY <1>3, <2>1, LevelSteps DEF Lower
  <2>3. Position(Append(p.path, c.segment), c.value) \in Positions(v)
    BY <1>3, <2>2, BodyPositions
  <2>4. QED
    BY <2>3, Fields DEF Values
<1>8. QED
  BY <1>6, <1>7, BodyPositions, SoundNode

\* A path leads to one position.
LEMMA PathUnique ==
  ASSUME NEW v, NEW r \in Nat, Sound(v, r)
  PROVE  \A n \in Nat : \A p, q \in Levels(v)[n] : p.path = q.path => p = q
<1> DEFINE T == {n \in Nat : \A p, q \in Levels(v)[n] : p.path = q.path => p = q}
<1>1. 0 \in T
  BY LevelSteps
<1>2. ASSUME NEW n \in Nat, n \in T PROVE n + 1 \in T
  <2>1. ASSUME NEW p \in Levels(v)[n + 1], NEW q \in Levels(v)[n + 1], p.path = q.path PROVE p = q
    <3>0. \A z \in Levels(v)[n + 1] : \E u \in Levels(v)[n] : z \in Below(u)
      BY LevelSteps DEF Lower
    <3>1. PICK o \in Levels(v)[n] : p \in Below(o)
      BY <3>0
    <3>2. PICK u \in Levels(v)[n] : q \in Below(u)
      BY <3>0
    <3>3. PICK c \in Children(o.value) : p = Position(Append(o.path, c.segment), c.value)
      BY <3>1 DEF Below
    <3>4. PICK d \in Children(u.value) : q = Position(Append(u.path, d.segment), d.value)
      BY <3>2 DEF Below
    <3>5. o.path \in Seq(Segment) /\ u.path \in Seq(Segment) /\ Len(o.path) = n /\ Len(u.path) = n
      BY SoundTyped DEF Path
    <3>6. c.segment \in Segment /\ d.segment \in Segment
      BY SoundTyped, ChildSegments
    <3>7. Append(o.path, c.segment) = Append(u.path, d.segment)
      <4>1. p.path = Append(o.path, c.segment) /\ q.path = Append(u.path, d.segment)
        BY <3>3, <3>4, Fields
      <4>2. QED
        BY <2>1, <4>1
    <3>8. o.path = u.path /\ c.segment = d.segment
      <4> DEFINE s == o.path
                 t == u.path
                 x == c.segment
                 y == d.segment
      <4>1. s \in Seq(Segment) /\ t \in Seq(Segment) /\ x \in Segment /\ y \in Segment
            /\ Append(s, x) = Append(t, y)
        BY <3>5, <3>6, <3>7
      <4> HIDE DEF s, t, x, y
      <4>2. s = t /\ x = y
        BY <4>1
      <4>3. QED
        BY <4>2 DEF s, t, x, y
    <3>9. o = u
      BY <1>2, <3>8
    <3>10. c = d
      BY <3>8, <3>9, SoundTyped, ChildUnique
    <3>11. QED
      BY <3>3, <3>4, <3>9, <3>10
  <2>2. QED
    BY <2>1
<1>3. Nat \subseteq T
  <2> HIDE DEF T
  <2>1. QED
    BY <1>1, <1>2, SetInduction
<1>4. QED
  BY <1>3

-----------------------------------------------------------------------------
(* The calls of the diff engine, and the function that they define. *)

\* The normal form of a text is a text.
NfcOfTexts == \A k \in STRING : Nfc(k) \in STRING

\* The key under which the diff engine looks for a key.
NormalKey(k, options) == IF options.nfc THEN Nfc(k) ELSE k

\* differ.rs:154: the fields under their normal keys.
LEMMA NormalizedIs ==
  ASSUME NEW fields, NEW options
  PROVE  /\ DOMAIN Normalized(fields, options) = {NormalKey(k, options) : k \in DOMAIN fields}
         /\ \A k \in DOMAIN Normalized(fields, options) :
              \E l \in DOMAIN fields : /\ Normalized(fields, options)[k] = fields[l]
                                       /\ NormalKey(l, options) = k
<1>1. CASE ~options.nfc
  BY <1>1 DEF Normalized, NormalKey
<1>2. CASE options.nfc
  <2> DEFINE of(k) == CHOOSE x \in DOMAIN fields : Nfc(x) = k
  <2>1. Normalized(fields, options) = [k \in {Nfc(x) : x \in DOMAIN fields} |-> fields[of(k)]]
    BY <1>2 DEF Normalized
  <2>2. \A k \in {Nfc(x) : x \in DOMAIN fields} : of(k) \in DOMAIN fields /\ Nfc(of(k)) = k
    OBVIOUS
  <2> HIDE DEF of
  <2>3. QED
    BY <1>2, <2>1, <2>2 DEF NormalKey
<1>3. QED
  BY <1>1, <1>2

\* Each of them is a field of the object.
LEMMA NormalizedFrom ==
  \A fields, options : \A k \in DOMAIN Normalized(fields, options) :
    \E l \in DOMAIN fields : Normalized(fields, options)[k] = fields[l] /\ NormalKey(l, options) = k
BY NormalizedIs

\* A field of an object is a child.
LEMMA FieldOf ==
  ASSUME NEW x, IsNode(x), x.type = "object", NEW k \in DOMAIN x.fields
  PROVE  k \in STRING /\ [segment |-> Key(k), value |-> x.fields[k]] \in Children(x)
<1>1. k \in STRING
  BY NodeKinds
<1>2. [segment |-> Key(k), value |-> x.fields[k]] \in Children(x)
  BY DEF Children
<1>3. QED
  BY <1>1, <1>2

\* An item of an array is a child.
LEMMA ItemOf ==
  ASSUME NEW x, IsNode(x), x.type = "array"
  PROVE  /\ Len(x.items) \in Nat
         /\ DOMAIN x.items = 1..Len(x.items)
         /\ \A i \in 1..Len(x.items) : i \in Nat /\ [segment |-> Index(i), value |-> x.items[i]] \in Children(x)
<1>1. Len(x.items) \in Nat /\ DOMAIN x.items = 1..Len(x.items)
  BY NodeKinds
<1>2. \A i \in 1..Len(x.items) : i \in Nat
  BY <1>1
<1>3. \A i \in 1..Len(x.items) : [segment |-> Index(i), value |-> x.items[i]] \in Children(x)
  BY <1>1 DEF Children
<1>4. QED
  BY <1>1, <1>2, <1>3

\* What an object in a body holds is a part of the body.
LEMMA FieldsInside ==
  ASSUME NfcOfTexts, NEW v, IsBody(v), NEW x \in Values(v), x.type = "object", NEW options
  PROVE  \A k \in DOMAIN Normalized(x.fields, options) :
           k \in STRING /\ Normalized(x.fields, options)[k] \in Values(v)
<1>1. IsNode(x) /\ \A c \in Children(x) : c.value \in Values(v)
  BY ValueOf
<1>2. ASSUME NEW l \in DOMAIN x.fields
      PROVE  l \in STRING /\ x.fields[l] \in Values(v) /\ NormalKey(l, options) \in STRING
  <2> DEFINE c == [segment |-> Key(l), value |-> x.fields[l]]
  <2>1. l \in STRING /\ c \in Children(x) /\ c.value = x.fields[l]
    BY <1>1, FieldOf
  <2>2. QED
    BY <1>1, <2>1 DEF NormalKey, NfcOfTexts
<1>3. ASSUME NEW k \in DOMAIN Normalized(x.fields, options)
      PROVE  k \in STRING /\ Normalized(x.fields, options)[k] \in Values(v)
  <2> DEFINE fields == x.fields
  <2> HIDE DEF fields
  <2>3. k \in DOMAIN Normalized(fields, options)
    BY DEF fields
  <2>4. \E l \in DOMAIN fields :
           Normalized(fields, options)[k] = fields[l] /\ NormalKey(l, options) = k
    BY <2>3, NormalizedFrom
  <2>1. PICK l \in DOMAIN x.fields :
           Normalized(x.fields, options)[k] = x.fields[l] /\ NormalKey(l, options) = k
    BY <2>4 DEF fields
  <2>2. QED
    BY <1>2, <2>1
<1>4. QED
  BY <1>3

\* What an array in a body holds is a part of the body.
LEMMA ItemsInside ==
  ASSUME NEW v, IsBody(v), NEW x \in Values(v), x.type = "array"
  PROVE  /\ Len(x.items) \in Nat /\ DOMAIN x.items = 1..Len(x.items)
         /\ \A i \in 1..Len(x.items) : i \in Nat /\ x.items[i] \in Values(v)
<1>1. IsNode(x) /\ \A c \in Children(x) : c.value \in Values(v)
  BY ValueOf
<1>2. QED
  BY <1>1, ItemOf

\* A call on two parts of the bodies.
LEMMA CallIn ==
  ASSUME NEW e, NEW a, NEW x \in Values(e), NEW y \in Values(a), NEW path \in Path, NEW depth \in Nat
  PROVE  /\ Call(x, y, path, depth) \in Calls(e, a)
         /\ Call(x, y, path, depth).expected = x /\ Call(x, y, path, depth).actual = y
         /\ Call(x, y, path, depth).path = path /\ Call(x, y, path, depth).depth = depth
BY DEF Call, Calls

\* What a call is made of.
LEMMA CallTypes ==
  ASSUME NEW e, NEW a, NEW c \in Calls(e, a)
  PROVE  /\ c.expected \in Values(e) /\ c.actual \in Values(a) /\ c.path \in Path /\ c.depth \in Nat
         /\ c = Call(c.expected, c.actual, c.path, c.depth)
BY DEF Calls, Call

\* A path with one segment more is a path.
LEMMA LongerPath ==
  ASSUME NEW path \in Path, NEW s \in Segment
  PROVE  Append(path, s) \in Path /\ Len(Append(path, s)) = Len(path) + 1 /\ Len(path) \in Nat
BY DEF Path

\* The calls that a call makes are calls at the next depth.
LEMMA ObjectCalls ==
  ASSUME NfcOfTexts, NEW e, IsBody(e), NEW a, IsBody(a), NEW options, NEW c \in Calls(e, a),
         c.expected.type = "object", c.actual.type = "object",
         NEW k \in DOMAIN Normalized(c.expected.fields, options) \cap DOMAIN Normalized(c.actual.fields, options)
  PROVE  Call(Normalized(c.expected.fields, options)[k], Normalized(c.actual.fields, options)[k],
              Append(c.path, Key(k)), c.depth + 1) \in Calls(e, a)
<1>1. c.expected \in Values(e) /\ c.actual \in Values(a) /\ c.path \in Path /\ c.depth + 1 \in Nat
  BY CallTypes
<1>2. k \in STRING /\ Normalized(c.expected.fields, options)[k] \in Values(e)
  BY <1>1, FieldsInside
<1>3. Normalized(c.actual.fields, options)[k] \in Values(a)
  BY <1>1, FieldsInside
<1>4. Append(c.path, Key(k)) \in Path
  BY <1>1, <1>2, SegmentForms, LongerPath
<1>5. QED
  BY <1>1, <1>2, <1>3, <1>4, CallIn

\* The same of the items of two arrays.
LEMMA ArrayCalls ==
  ASSUME NEW e, IsBody(e), NEW a, IsBody(a), NEW c \in Calls(e, a),
         c.expected.type = "array", c.actual.type = "array",
         NEW i \in 1..Len(c.expected.items), NEW j \in 1..Len(c.actual.items)
  PROVE  /\ Call(c.expected.items[i], c.actual.items[j], c.path, c.depth + 1) \in Calls(e, a)
         /\ Call(c.expected.items[i], c.actual.items[j], Append(c.path, Index(i)), c.depth + 1) \in Calls(e, a)
<1>1. c.expected \in Values(e) /\ c.actual \in Values(a) /\ c.path \in Path /\ c.depth + 1 \in Nat
  BY CallTypes
<1>2. i \in Nat /\ c.expected.items[i] \in Values(e)
  BY <1>1, ItemsInside
<1>3. c.actual.items[j] \in Values(a)
  BY <1>1, ItemsInside
<1>4. Append(c.path, Index(i)) \in Path
  BY <1>1, <1>2, SegmentForms, LongerPath
<1>5. QED
  BY <1>1, <1>2, <1>3, <1>4, CallIn

\* What a call finds depends on the calls at the next depth.
LEMMA DiffDepends ==
  ASSUME NfcOfTexts, NEW e, IsBody(e), NEW a, IsBody(a), NEW options, options.maxDepth \in Nat,
         NEW c \in Calls(e, a), NEW f, NEW g, \A d \in Calls(e, a) : d.depth = c.depth + 1 => f[d] = g[d]
  PROVE  DiffCall(f, c, options) = DiffCall(g, c, options)
<1>0. \A x, y, path : Call(x, y, path, c.depth + 1).depth = c.depth + 1
  BY DEF Call
<1>1. ASSUME c.expected.type = "object", c.actual.type = "object"
      PROVE  DiffObjects(f, c, options) = DiffObjects(g, c, options)
  <2> DEFINE old == Normalized(c.expected.fields, options)
             new == Normalized(c.actual.fields, options)
             At(k) == Append(c.path, Key(k))
             Inner(h, k) == h[Call(old[k], new[k], At(k), c.depth + 1)]
  <2>1. ASSUME NEW k \in DOMAIN old \cap DOMAIN new PROVE Inner(f, k) = Inner(g, k)
    BY <1>0, <1>1, ObjectCalls
  <2>2. UNION {Inner(f, k) : k \in DOMAIN old \cap DOMAIN new}
          = UNION {Inner(g, k) : k \in DOMAIN old \cap DOMAIN new}
    <3> HIDE DEF Inner, old, new
    <3>1. QED
      BY <2>1
  <2>3. QED
    BY <2>2 DEF DiffObjects
<1>2. ASSUME c.expected.type = "array", c.actual.type = "array"
      PROVE  DiffAsSet(f, c) = DiffAsSet(g, c)
  <2> DEFINE n == Len(c.expected.items)
             m == Len(c.actual.items)
             Inner(h, q) == h[Call(c.expected.items[q[1]], c.actual.items[q[2]], c.path, c.depth + 1)]
             fits(h) == {q \in (1..n) \X (1..m) : Inner(h, q) = {}}
  <2>1. ASSUME NEW q \in (1..n) \X (1..m) PROVE Inner(f, q) = Inner(g, q)
    <3>1. q[1] \in 1..n /\ q[2] \in 1..m
      BY <2>1
    <3>2. QED
      BY <1>0, <1>2, <3>1, ArrayCalls
  <2>2. fits(f) = fits(g)
    <3> HIDE DEF Inner, n, m
    <3>1. QED
      BY <2>1
  <2>3. QED
    BY <2>2 DEF DiffAsSet
<1>3. ASSUME c.expected.type = "array", c.actual.type = "array"
      PROVE  DiffOrdered(f, c) = DiffOrdered(g, c)
  <2> DEFINE n == Len(c.expected.items)
             m == Len(c.actual.items)
             Inner(h, i) == h[Call(c.expected.items[i], c.actual.items[i], Append(c.path, Index(i)), c.depth + 1)]
             both == 1..(IF n < m THEN n ELSE m)
  <2>0. n \in Nat /\ m \in Nat
    BY <1>3, CallTypes, ItemsInside
  <2>1. ASSUME NEW i \in both PROVE Inner(f, i) = Inner(g, i)
    <3>1. i \in 1..n /\ i \in 1..m
      BY <2>0, <2>1
    <3>2. QED
      BY <1>0, <1>3, <3>1, ArrayCalls
  <2>2. UNION {Inner(f, i) : i \in both} = UNION {Inner(g, i) : i \in both}
    <3> HIDE DEF Inner, both
    <3>1. QED
      BY <2>1
  <2>3. QED
    BY <2>2 DEF DiffOrdered
<1>4. CASE c.depth > options.maxDepth
  BY <1>4 DEF DiffCall
<1>5. CASE ~(c.depth > options.maxDepth) /\ c.depth <= options.maxDepth /\ c.expected.type # c.actual.type
  BY <1>5 DEF DiffCall
<1>6. CASE /\ ~(c.depth > options.maxDepth)
           /\ ~(c.depth <= options.maxDepth /\ c.expected.type # c.actual.type)
  <2>1. c.expected.type = c.actual.type
    BY <1>6, CallTypes
  <2>2. QED
    BY <1>1, <1>2, <1>3, <1>6, <2>1 DEF DiffCall
<1>7. QED
  BY <1>4, <1>5, <1>6

\* Diff is the function that its recursion defines.
LEMMA DiffIs ==
  ASSUME NfcOfTexts, NEW e, IsBody(e), NEW a, IsBody(a), NEW options, options.maxDepth \in Nat
  PROVE  \A c \in Calls(e, a) : Diff(e, a, options)[c] = DiffCall(Diff(e, a, options), c, options)
<1> DEFINE max == options.maxDepth
           Right(g, r) == \A c \in Calls(e, a) : c.depth + r > max => g[c] = DiffCall(g, c, options)
           T == {r \in Nat : \E g : Right(g, r)}
<1>1. 0 \in T
  <2> DEFINE g == [c \in Calls(e, a) |-> DiffCall({}, c, options)]
  <2>1. ASSUME NEW c \in Calls(e, a), c.depth + 0 > max PROVE g[c] = DiffCall(g, c, options)
    <3>1. c.depth > options.maxDepth
      BY <2>1, CallTypes
    <3> HIDE DEF g
    <3>2. DiffCall(g, c, options) = DiffCall({}, c, options)
      BY <3>1 DEF DiffCall
    <3> USE DEF g
    <3>3. QED
      BY <3>2
  <2>2. Right(g, 0)
    BY <2>1
  <2> HIDE DEF g, Right
  <2>3. QED
    BY <2>2
<1>2. ASSUME NEW r \in Nat, r \in T PROVE r + 1 \in T
  <2>1. PICK g : Right(g, r)
    <3> HIDE DEF Right
    <3>1. QED
      BY <1>2
  <2> DEFINE h == [c \in Calls(e, a) |-> IF c.depth + r > max THEN g[c] ELSE DiffCall(g, c, options)]
  <2>2. ASSUME NEW c \in Calls(e, a), c.depth + (r + 1) > max PROVE h[c] = DiffCall(h, c, options)
    <3>1. \A d \in Calls(e, a) : d.depth = c.depth + 1 => h[d] = g[d]
      BY <2>2, CallTypes
    <3>2. DiffCall(h, c, options) = DiffCall(g, c, options)
      <4> HIDE DEF h
      <4>1. QED
        BY <3>1, DiffDepends
    <3>3. h[c] = DiffCall(g, c, options)
      BY <2>1
    <3>4. QED
      BY <3>2, <3>3
  <2>3. Right(h, r + 1)
    <3> HIDE DEF h
    <3>1. QED
      BY <2>2
  <2> HIDE DEF h, Right
  <2>4. QED
    BY <2>3
<1>3. max + 1 \in T
  <2>1. Nat \subseteq T
    <3> HIDE DEF T
    <3>1. QED
      BY <1>1, <1>2, SetInduction
  <2> HIDE DEF T
  <2>2. QED
    BY <2>1
<1>4. PICK g : Right(g, max + 1)
  <2> HIDE DEF Right
  <2>1. QED
    BY <1>3
<1> DEFINE f == [c \in Calls(e, a) |-> g[c]]
<1>5. \A c \in Calls(e, a) : f[c] = DiffCall(f, c, options)
  <2> SUFFICES ASSUME NEW c \in Calls(e, a) PROVE f[c] = DiffCall(f, c, options)
    OBVIOUS
  <2>1. c.depth + (max + 1) > max
    BY CallTypes
  <2>2. g[c] = DiffCall(g, c, options)
    BY <1>4, <2>1
  <2>3. \A d \in Calls(e, a) : d.depth = c.depth + 1 => f[d] = g[d]
    OBVIOUS
  <2>4. f[c] = g[c]
    OBVIOUS
  <2> HIDE DEF f
  <2>5. DiffCall(f, c, options) = DiffCall(g, c, options)
    BY <2>3, DiffDepends
  <2>6. QED
    BY <2>2, <2>4, <2>5
<1>6. f = [c \in Calls(e, a) |-> DiffCall(f, c, options)]
  <2>1. f = [c \in Calls(e, a) |-> f[c]]
    OBVIOUS
  <2> HIDE DEF f
  <2>2. QED
    BY <1>5, <2>1
<1>7. Diff(e, a, options) = CHOOSE h : h = [c \in Calls(e, a) |-> DiffCall(h, c, options)]
  BY DEF Diff
<1>8. Diff(e, a, options) = [c \in Calls(e, a) |-> DiffCall(Diff(e, a, options), c, options)]
  <2> HIDE DEF f
  <2>1. QED
    BY <1>6, <1>7
<1>9. QED
  <2> DEFINE D == Diff(e, a, options)
  <2> HIDE DEF D
  <2>1. D = [c \in Calls(e, a) |-> DiffCall(D, c, options)]
    BY <1>8 DEF D
  <2>2. \A c \in Calls(e, a) : D[c] = DiffCall(D, c, options)
    BY <2>1
  <2>3. QED
    BY <2>2 DEF D

-----------------------------------------------------------------------------
(* The commands: what they have in hand, and the matcher of the rules. *)

\* What a command has in hand is what it made of a body of the endpoint, with its settings.
EngineIInv ==
  /\ settings \in Settings /\ recorded \in Bodies
  /\ phase \in {"recorded", "tested", "blasted"} => stored = MaskValue(recorded, settings)
  /\ phase = "tested" => /\ answered \in Bodies
                         /\ report = CompareJsonAst(stored, Actual, settings)
  /\ phase = "blasted" => /\ answered \in Bodies
                          /\ report = Calculate(CompareJsonAst(stored, MaskValue(answered, Undepthed),
                                                               DefaultOptions), Consumers)
  /\ phase = "learned" => /\ answered \in Bodies
                          /\ report = UnstablePaths({recorded, answered}, Undepthed)
  /\ phase = "shadowed" => /\ answered \in Bodies
                           /\ report = {x \in {"drift"} : StructurallyDrifted(recorded, answered)}
  /\ phase = "fuzzed" => answered \in Payloads /\ report = GenerateMutations(answered)

\* The invariant holds at first, ...
LEMMA EngineIInvInit == EngineInit => EngineIInv
BY DEF EngineInit, EngineIInv

\* ... and every command keeps it.
LEMMA EngineIInvStep == EngineIInv /\ [EngineNext]_engineVars => EngineIInv'
<1> SUFFICES ASSUME EngineIInv, [EngineNext]_engineVars PROVE EngineIInv'
  OBVIOUS
<1>1. CASE Record
  BY <1>1 DEF EngineIInv, Record
<1>2. ASSUME NEW body \in Bodies, Test(body) PROVE EngineIInv'
  <2>1. Actual' = MaskValue(body, settings)
    BY <1>2 DEF Test, Actual
  <2>2. QED
    BY <1>2, <2>1 DEF EngineIInv, Test
<1>3. ASSUME NEW body \in Bodies, HandleBlastRadius(body) PROVE EngineIInv'
  <2>1. Undepthed' = Undepthed
    BY <1>3 DEF HandleBlastRadius, Undepthed
  <2>2. QED
    BY <1>3, <2>1 DEF EngineIInv, HandleBlastRadius
<1>4. ASSUME NEW body \in Bodies, Learn(body) PROVE EngineIInv'
  <2>1. Undepthed' = Undepthed
    BY <1>4 DEF Learn, Undepthed
  <2>2. QED
    BY <1>4, <2>1 DEF EngineIInv, Learn
<1>5. ASSUME NEW body \in Bodies, Shadow(body) PROVE EngineIInv'
  BY <1>5 DEF EngineIInv, Shadow
<1>6. ASSUME NEW payload \in Payloads, Fuzz(payload) PROVE EngineIInv'
  BY <1>6 DEF EngineIInv, Fuzz
<1>7. CASE UNCHANGED engineVars
  BY <1>7 DEF EngineIInv, engineVars, Actual, Undepthed
<1>8. QED
  BY <1>1, <1>2, <1>3, <1>4, <1>5, <1>6, <1>7 DEF EngineNext

\* The path of a position of a body.
LEMMA BodyPaths ==
  ASSUME NEW v, IsBody(v), NEW p \in Positions(v)
  PROVE  /\ p.path \in Path /\ Len(p.path) \in Nat /\ Len(p.path) <= Nesting
         /\ p \in Levels(v)[Len(p.path)] /\ p = Position(p.path, p.value) /\ p.value \in Values(v)
<1>1. PICK n \in Nat : n <= Nesting /\ p \in Levels(v)[n]
  BY BodyPositions
<1>2. Nesting + 1 \in Nat /\ Sound(v, Nesting + 1)
  BY NestingAssumption, BodyPositions
<1>3. p.path \in Path /\ Len(p.path) = n
  BY <1>1, <1>2, SoundTyped
<1>4. p = Position(p.path, p.value)
  BY <1>1, LevelPositions DEF IsPosition
<1>5. QED
  BY <1>1, <1>3, <1>4 DEF Values

\* The keys of a position are keys of the body.
LEMMA KeysOfPosition ==
  ASSUME NEW v, NEW p \in Positions(v)
  PROVE  KeysIn(p.path) \subseteq KeysOf(v)
BY DEF KeysOf

\* masker.rs:281, "Fast path": where rule paths are distinct and no key of the body reads
\* like a bracket of a rule, the compiled matcher gives the rule that the standard matching
\* gives at every position that masking comes to.
THEOREM EngineJitAgrees == EngineSpec => []JitAgrees
<1>1. EngineIInv => JitAgrees
  <2> SUFFICES ASSUME EngineIInv,
                      \A i, j \in DOMAIN settings.rules :
                        settings.rules[i].path = settings.rules[j].path => i = j,
                      PlainRules(KeysOf(recorded)),
                      NEW p \in Seen(recorded)
               PROVE  RuleFor(settings.rules, p.path) = StandardRule(settings.rules, p.path)
    BY DEF JitAgrees, DistinctRules
  <2> DEFINE rules == settings.rules
             path == p.path
  <2>1. IsSettings(settings) /\ IsBody(recorded)
    BY EngineAssumption DEF EngineIInv
  <2>2. /\ rules \in Seq({rules[i] : i \in DOMAIN rules})
        /\ \A i \in DOMAIN rules : rules[i].path \in Seq(Segment) /\ rules[i].words \in Seq(STRING)
    BY <2>1 DEF IsSettings, Path
  <2>3. p \in Positions(recorded) /\ \A n \in 0..(Len(path) - 1) : StandardRule(rules, SubSeq(path, 1, n)) = 0
    BY DEF Seen, Ruled
  <2>4. path \in Seq(Segment)
    BY <2>1, <2>3, BodyPaths DEF Path
  <2>5. \A i, j \in DOMAIN rules : rules[i].path = rules[j].path => i = j
    OBVIOUS
  <2>a. /\ KeysIn(path) \subseteq KeysOf(recorded)
        /\ \A i \in DOMAIN rules : PlainlyWritten(rules[i].words, rules[i].path, KeysOf(recorded))
    BY <2>3, KeysOfPosition DEF PlainRules
  <2> HIDE DEF rules, path
  <2>6. RuleFor(rules, path) = StandardRule(rules, path)
    BY <2>2, <2>3, <2>4, <2>5, <2>a, RuleMatchersAgree
  <2>7. QED
    BY <2>6 DEF rules, path
<1>2. QED
  BY <1>1, EngineIInvInit, EngineIInvStep, PTL DEF EngineSpec

-----------------------------------------------------------------------------
(* The calls of the masking: a masked body is a body. *)

\* The calls of the masking.
LEMMA MaskingIn ==
  ASSUME NEW v, NEW x \in Values(v), NEW path \in Path, NEW parent \in {"$"} \cup STRING, NEW depth \in Nat
  PROVE  /\ MaskingOf(x, path, parent, depth) \in Maskings(v)
         /\ MaskingOf(x, path, parent, depth).value = x /\ MaskingOf(x, path, parent, depth).path = path
         /\ MaskingOf(x, path, parent, depth).parent = parent /\ MaskingOf(x, path, parent, depth).depth = depth
BY DEF MaskingOf, Maskings

\* What a call of the masking is made of.
LEMMA MaskingTypes ==
  ASSUME NEW v, NEW c \in Maskings(v)
  PROVE  /\ c.value \in Values(v) /\ c.path \in Path /\ c.parent \in {"$"} \cup STRING /\ c.depth \in Nat
         /\ c = MaskingOf(c.value, c.path, c.parent, c.depth)
BY DEF Maskings, MaskingOf

\* The call on a field of an object.
LEMMA FieldMasking ==
  ASSUME NEW v, IsBody(v), NEW c \in Maskings(v), c.value.type = "object", NEW k \in DOMAIN c.value.fields
  PROVE  /\ k \in STRING /\ c.value.fields[k] \in Values(v)
         /\ MaskingOf(c.value.fields[k], Append(c.path, Key(k)), k, c.depth + 1) \in Maskings(v)
<1>1. c.value \in Values(v) /\ c.path \in Path /\ c.depth + 1 \in Nat
  BY MaskingTypes
<1>2. IsNode(c.value) /\ \A d \in Children(c.value) : d.value \in Values(v)
  BY <1>1, ValueOf
<1>3. k \in STRING /\ [segment |-> Key(k), value |-> c.value.fields[k]] \in Children(c.value)
  BY <1>2, FieldOf
<1>4. c.value.fields[k] \in Values(v)
  BY <1>2, <1>3
<1>5. Append(c.path, Key(k)) \in Path
  BY <1>1, <1>3, SegmentForms, LongerPath
<1>6. ASSUME NEW x \in Values(v), NEW path \in Path, NEW depth \in Nat
      PROVE  MaskingOf(x, path, k, depth) \in Maskings(v)
  BY <1>3, MaskingIn
<1>7. QED
  BY <1>1, <1>3, <1>4, <1>5, <1>6

\* The call on an item of an array.
LEMMA ItemMasking ==
  ASSUME NEW v, IsBody(v), NEW c \in Maskings(v), c.value.type = "array", NEW i \in DOMAIN c.value.items
  PROVE  /\ i \in Nat /\ c.value.items[i] \in Values(v)
         /\ MaskingOf(c.value.items[i], Append(c.path, Index(i)), c.parent, c.depth + 1) \in Maskings(v)
<1>1. c.value \in Values(v) /\ c.path \in Path /\ c.depth + 1 \in Nat /\ c.parent \in {"$"} \cup STRING
  BY MaskingTypes
<1>2. i \in Nat /\ c.value.items[i] \in Values(v)
  BY <1>1, ItemsInside
<1>3. Append(c.path, Index(i)) \in Path
  BY <1>1, <1>2, SegmentForms, LongerPath
<1>4. ASSUME NEW x \in Values(v), NEW path \in Path, NEW parent \in {"$"} \cup STRING, NEW depth \in Nat
      PROVE  MaskingOf(x, path, parent, depth) \in Maskings(v)
  BY MaskingIn
<1>5. QED
  BY <1>1, <1>2, <1>3, <1>4

\* What a call makes depends on the calls at the next depth.
LEMMA MaskDepends ==
  ASSUME NEW v, IsBody(v), NEW masking, NEW c \in Maskings(v), NEW f, NEW g,
         \A d \in Maskings(v) : d.depth = c.depth + 1 => f[d] = g[d]
  PROVE  MaskCall(f, c, masking) = MaskCall(g, c, masking)
<1>0. \A x, path, parent : MaskingOf(x, path, parent, c.depth + 1).depth = c.depth + 1
  BY DEF MaskingOf
<1>1. ASSUME c.value.type = "object" PROVE MaskFields(f, c) = MaskFields(g, c)
  <2> DEFINE Of(h, k) == h[MaskingOf(c.value.fields[k], Append(c.path, Key(k)), k, c.depth + 1)]
  <2>1. \A k \in DOMAIN c.value.fields : Of(f, k) = Of(g, k)
    BY <1>0, <1>1, FieldMasking
  <2>2. [k \in DOMAIN c.value.fields |-> Of(f, k)] = [k \in DOMAIN c.value.fields |-> Of(g, k)]
    <3> HIDE DEF Of
    <3>1. QED
      BY <2>1
  <2>3. QED
    BY <2>2 DEF MaskFields
<1>2. ASSUME c.value.type = "array" PROVE MaskItems(f, c) = MaskItems(g, c)
  <2> DEFINE Of(h, i) == h[MaskingOf(c.value.items[i], Append(c.path, Index(i)), c.parent, c.depth + 1)]
  <2>1. \A i \in DOMAIN c.value.items : Of(f, i) = Of(g, i)
    BY <1>0, <1>2, ItemMasking
  <2>2. [i \in DOMAIN c.value.items |-> Of(f, i)] = [i \in DOMAIN c.value.items |-> Of(g, i)]
    <3> HIDE DEF Of
    <3>1. QED
      BY <2>1
  <2>3. QED
    BY <2>2 DEF MaskItems
<1>3. CASE c.value.type = "object"
  BY <1>1, <1>3 DEF MaskCall
<1>4. CASE c.value.type = "array"
  BY <1>2, <1>4 DEF MaskCall
<1>5. CASE c.value.type # "object" /\ c.value.type # "array"
  BY <1>5 DEF MaskCall
<1>6. QED
  BY <1>3, <1>4, <1>5

\* Mask is the function that its recursion defines.
LEMMA MaskIs ==
  ASSUME NEW v, IsBody(v), NEW masking, masking.maxDepth \in Nat
  PROVE  \A c \in Maskings(v) : Mask(v, masking)[c] = MaskCall(Mask(v, masking), c, masking)
<1> DEFINE max == masking.maxDepth
           Right(g, r) == \A c \in Maskings(v) : c.depth + r > max => g[c] = MaskCall(g, c, masking)
           T == {r \in Nat : \E g : Right(g, r)}
<1>1. 0 \in T
  <2> DEFINE g == [c \in Maskings(v) |-> MaskCall({}, c, masking)]
  <2>1. ASSUME NEW c \in Maskings(v), c.depth + 0 > max PROVE g[c] = MaskCall(g, c, masking)
    <3>1. c.depth > masking.maxDepth
      BY <2>1, MaskingTypes
    <3> HIDE DEF g
    <3>2. MaskCall(g, c, masking) = MaskCall({}, c, masking)
      BY <3>1 DEF MaskCall
    <3> USE DEF g
    <3>3. QED
      BY <3>2
  <2>2. Right(g, 0)
    BY <2>1
  <2> HIDE DEF g, Right
  <2>3. QED
    BY <2>2
<1>2. ASSUME NEW r \in Nat, r \in T PROVE r + 1 \in T
  <2>1. PICK g : Right(g, r)
    <3> HIDE DEF Right
    <3>1. QED
      BY <1>2
  <2> DEFINE h == [c \in Maskings(v) |-> IF c.depth + r > max THEN g[c] ELSE MaskCall(g, c, masking)]
  <2>2. ASSUME NEW c \in Maskings(v), c.depth + (r + 1) > max PROVE h[c] = MaskCall(h, c, masking)
    <3>1. \A d \in Maskings(v) : d.depth = c.depth + 1 => h[d] = g[d]
      BY <2>2, MaskingTypes
    <3>2. MaskCall(h, c, masking) = MaskCall(g, c, masking)
      <4> HIDE DEF h
      <4>1. QED
        BY <3>1, MaskDepends
    <3>3. h[c] = MaskCall(g, c, masking)
      BY <2>1
    <3>4. QED
      BY <3>2, <3>3
  <2>3. Right(h, r + 1)
    <3> HIDE DEF h
    <3>1. QED
      BY <2>2
  <2> HIDE DEF h, Right
  <2>4. QED
    BY <2>3
<1>3. max + 1 \in T
  <2>1. Nat \subseteq T
    <3> HIDE DEF T
    <3>1. QED
      BY <1>1, <1>2, SetInduction
  <2> HIDE DEF T
  <2>2. QED
    BY <2>1
<1>4. PICK g : Right(g, max + 1)
  <2> HIDE DEF Right
  <2>1. QED
    BY <1>3
<1> DEFINE f == [c \in Maskings(v) |-> g[c]]
<1>5. \A c \in Maskings(v) : f[c] = MaskCall(f, c, masking)
  <2> SUFFICES ASSUME NEW c \in Maskings(v) PROVE f[c] = MaskCall(f, c, masking)
    OBVIOUS
  <2>1. c.depth + (max + 1) > max
    BY MaskingTypes
  <2>2. g[c] = MaskCall(g, c, masking)
    BY <1>4, <2>1
  <2>3. \A d \in Maskings(v) : d.depth = c.depth + 1 => f[d] = g[d]
    OBVIOUS
  <2>4. f[c] = g[c]
    OBVIOUS
  <2> HIDE DEF f
  <2>5. MaskCall(f, c, masking) = MaskCall(g, c, masking)
    BY <2>3, MaskDepends
  <2>6. QED
    BY <2>2, <2>4, <2>5
<1>6. f = [c \in Maskings(v) |-> MaskCall(f, c, masking)]
  <2>1. f = [c \in Maskings(v) |-> f[c]]
    OBVIOUS
  <2> HIDE DEF f
  <2>2. QED
    BY <1>5, <2>1
<1>7. Mask(v, masking) = CHOOSE h : h = [c \in Maskings(v) |-> MaskCall(h, c, masking)]
  BY DEF Mask
<1>8. Mask(v, masking) = [c \in Maskings(v) |-> MaskCall(Mask(v, masking), c, masking)]
  <2> HIDE DEF f
  <2>1. QED
    BY <1>6, <1>7
<1>9. QED
  <2> DEFINE M == Mask(v, masking)
  <2> HIDE DEF M
  <2>1. M = [c \in Maskings(v) |-> MaskCall(M, c, masking)]
    BY <1>8 DEF M
  <2>2. \A c \in Maskings(v) : M[c] = MaskCall(M, c, masking)
    BY <2>1
  <2>3. QED
    BY <2>2 DEF M

-----------------------------------------------------------------------------
(* What masking makes of a body is a body. *)

\* A text holds nothing.
LEMMA TextSound ==
  ASSUME NEW s, NEW r \in Nat, r > 0
  PROVE  Sound(Text(s), r)
<1> DEFINE v == Text(s)
<1>1. v.type = "string" /\ v = Text(v.str)
  BY DEF Text
<1>2. IsNode(v)
  BY <1>1 DEF IsNode
<1>3. Children(v) = {}
  BY <1>1 DEF Children
<1>4. \A c \in Children(v) : Sound(c.value, r - 1)
  BY <1>3
<1> HIDE DEF v
<1>5. r - 1 \in Nat /\ (r - 1) + 1 = r
  OBVIOUS
<1>6. Sound(v, r)
  BY <1>2, <1>4, <1>5, SoundParts
<1>7. QED
  BY <1>6 DEF v

\* masker.rs:313: a rule leaves the value or puts a text in its place, ...
LEMMA ApplySound ==
  ASSUME NEW v, NEW r \in Nat, Sound(v, r), NEW rule
  PROVE  Sound(Apply(rule, v), r)
<1>1. r > 0
  <2>1. Levels(v)[0] # {}
    BY LevelSteps
  <2>2. QED
    BY <2>1 DEF Sound
<1>2. QED
  BY <1>1, TextSound DEF Apply

\* ... and so do the heuristics.
LEMMA LeafSound ==
  ASSUME NEW v, NEW r \in Nat, Sound(v, r), NEW parent, NEW masking
  PROVE  Sound(MaskLeaf(v, parent, masking), r)
<1>1. r > 0
  <2>1. Levels(v)[0] # {}
    BY LevelSteps
  <2>2. QED
    BY <2>1 DEF Sound
<1>2. QED
  BY <1>1, TextSound DEF MaskLeaf

\* An object of given fields, ...
LEMMA ObjectOf ==
  ASSUME NEW f, DOMAIN f \subseteq STRING, IsFiniteSet(DOMAIN f), f = [k \in DOMAIN f |-> f[k]]
  PROVE  /\ Object(f).type = "object" /\ Object(f).fields = f /\ IsNode(Object(f))
         /\ Children(Object(f)) = {[segment |-> Key(k), value |-> f[k]] : k \in DOMAIN f}
<1> DEFINE v == Object(f)
<1>1. v.type = "object" /\ v.fields = f
  BY DEF Object
<1>2. v = Object([k \in DOMAIN v.fields |-> v.fields[k]]) /\ DOMAIN v.fields \subseteq STRING
     /\ IsFiniteSet(DOMAIN v.fields)
  BY <1>1
<1> HIDE DEF v
<1>3. IsNode(v)
  BY <1>1, <1>2 DEF IsNode
<1>4. Children(v) = {[segment |-> Key(k), value |-> f[k]] : k \in DOMAIN f}
  BY <1>1 DEF Children
<1>5. QED
  BY <1>1, <1>3, <1>4 DEF v

\* ... and an array of given items.
LEMMA ArrayOf ==
  ASSUME NEW s, s \in Seq({s[i] : i \in DOMAIN s})
  PROVE  /\ Array(s).type = "array" /\ Array(s).items = s /\ IsNode(Array(s))
         /\ Children(Array(s)) = {[segment |-> Index(i), value |-> s[i]] : i \in DOMAIN s}
<1> DEFINE v == Array(s)
<1>1. v.type = "array" /\ v.items = s
  BY DEF Array
<1>2. v = Array(v.items) /\ v.items \in Seq({v.items[i] : i \in DOMAIN v.items})
  BY <1>1
<1> HIDE DEF v
<1>3. IsNode(v)
  BY <1>1, <1>2 DEF IsNode
<1>4. Children(v) = {[segment |-> Index(i), value |-> s[i]] : i \in DOMAIN s}
  BY <1>1 DEF Children
<1>5. QED
  BY <1>1, <1>3, <1>4 DEF v

\* masker.rs:161: masking makes sound values of sound values.
LEMMA MaskSound ==
  ASSUME NEW v, IsBody(v), NEW masking, masking.maxDepth \in Nat
  PROVE  \A r \in Nat : \A c \in Maskings(v) : Sound(c.value, r) => Sound(Mask(v, masking)[c], r)
<1> DEFINE M == Mask(v, masking)
           T == {r \in Nat : \A c \in Maskings(v) : Sound(c.value, r) => Sound(M[c], r)}
<1>0. \A c \in Maskings(v) : M[c] = MaskCall(M, c, masking)
  BY MaskIs
<1>1. 0 \in T
  BY LevelSteps DEF Sound
<1> HIDE DEF M
<1>2. ASSUME NEW r \in Nat, r \in T PROVE r + 1 \in T
  <2>1. ASSUME NEW c \in Maskings(v), Sound(c.value, r + 1) PROVE Sound(M[c], r + 1)
    <3>1. IsNode(c.value) /\ r + 1 \in Nat /\ r + 1 > 0
      BY <2>1, SoundNode
    <3>2. \A d \in Children(c.value) : Sound(d.value, r)
      <4>1. (r + 1) - 1 = r
        OBVIOUS
      <4>2. QED
        BY <2>1, <3>1, <4>1, SoundChild
    <3>3. CASE M[c] = TooDeep
      BY <3>1, <3>3, TextSound DEF TooDeep
    <3>4. CASE \E rule : M[c] = Apply(rule, c.value)
      BY <2>1, <3>1, <3>4, ApplySound
    <3>5. CASE M[c] = Redacted
      BY <3>1, <3>5, TextSound DEF Redacted
    <3>6. CASE M[c] = MaskLeaf(c.value, c.parent, masking)
      BY <2>1, <3>1, <3>6, LeafSound
    <3>7. CASE c.value.type = "object" /\ M[c] = Object(MaskFields(M, c))
      <4> DEFINE f == MaskFields(M, c)
      <4>1. DOMAIN f = DOMAIN c.value.fields /\ f = [k \in DOMAIN f |-> f[k]]
        BY DEF MaskFields
      <4>2. DOMAIN f \subseteq STRING /\ IsFiniteSet(DOMAIN f)
        <5>1. IsFiniteSet(DOMAIN c.value.fields)
          BY <3>1, <3>7, NodeKinds
        <5>2. QED
          BY <3>7, <4>1, <5>1, FieldMasking
      <4>3. ASSUME NEW k \in DOMAIN c.value.fields PROVE Sound(f[k], r)
        <5> DEFINE d == MaskingOf(c.value.fields[k], Append(c.path, Key(k)), k, c.depth + 1)
        <5>1. d \in Maskings(v) /\ d.value = c.value.fields[k]
          BY <3>7, FieldMasking DEF MaskingOf
        <5>2. Sound(d.value, r)
          BY <3>1, <3>2, <3>7, <5>1, FieldOf
        <5>3. f[k] = M[d]
          BY DEF MaskFields
        <5> HIDE DEF d, f
        <5>4. QED
          BY <1>2, <5>1, <5>2, <5>3
      <4> HIDE DEF f
      <4>4. IsNode(Object(f)) /\ Children(Object(f)) = {[segment |-> Key(k), value |-> f[k]] : k \in DOMAIN f}
        BY <4>1, <4>2, ObjectOf
      <4>5. \A d \in Children(Object(f)) : Sound(d.value, r)
        BY <4>1, <4>3, <4>4
      <4>6. Sound(Object(f), r + 1)
        BY <4>4, <4>5, SoundParts
      <4>7. QED
        BY <3>7, <4>6 DEF f
    <3>8. CASE c.value.type = "array" /\ M[c] = Array(MaskItems(M, c))
      <4> DEFINE f == MaskItems(M, c)
      <4>0. DOMAIN c.value.items = 1..Len(c.value.items) /\ Len(c.value.items) \in Nat
        BY <3>1, <3>8, ItemOf
      <4>1. DOMAIN f = DOMAIN c.value.items /\ f = [i \in 1..Len(c.value.items) |-> f[i]]
        BY <4>0 DEF MaskItems
      <4>2. f \in Seq({f[i] : i \in DOMAIN f})
        <5> DEFINE n == Len(c.value.items)
                   S == {f[i] : i \in DOMAIN f}
        <5>1. DOMAIN f = 1..n /\ n \in Nat /\ f = [i \in 1..n |-> f[i]]
          BY <4>0, <4>1
        <5> HIDE DEF f, n
        <5>2. \A i \in 1..n : f[i] \in S
          BY <5>1
        <5> HIDE DEF S
        <5>3. f \in [1..n -> S]
          BY <5>1, <5>2
        <5>4. f \in Seq(S)
          BY <5>1, <5>3
        <5>5. QED
          BY <5>4 DEF S
      <4>3. ASSUME NEW i \in DOMAIN c.value.items PROVE Sound(f[i], r)
        <5> DEFINE d == MaskingOf(c.value.items[i], Append(c.path, Index(i)), c.parent, c.depth + 1)
        <5>1. d \in Maskings(v) /\ d.value = c.value.items[i]
          BY <3>8, ItemMasking DEF MaskingOf
        <5>2. Sound(d.value, r)
          BY <3>1, <3>2, <3>8, <4>0, <5>1, ItemOf
        <5>3. f[i] = M[d]
          BY DEF MaskItems
        <5> HIDE DEF d, f
        <5>4. QED
          BY <1>2, <5>1, <5>2, <5>3
      <4> HIDE DEF f
      <4>4. IsNode(Array(f)) /\ Children(Array(f)) = {[segment |-> Index(i), value |-> f[i]] : i \in DOMAIN f}
        BY <4>2, ArrayOf
      <4>5. \A d \in Children(Array(f)) : Sound(d.value, r)
        <5> SUFFICES ASSUME NEW d \in Children(Array(f)) PROVE Sound(d.value, r)
          OBVIOUS
        <5>1. PICK i \in DOMAIN f : d = [segment |-> Index(i), value |-> f[i]]
          BY <4>4
        <5>2. d.value = f[i] /\ i \in DOMAIN c.value.items
          BY <4>1, <5>1
        <5>3. QED
          BY <4>3, <5>2
      <4>6. Sound(Array(f), r + 1)
        BY <4>4, <4>5, SoundParts
      <4>7. QED
        BY <3>8, <4>6 DEF f
    <3>9. QED
      BY <1>0, <3>3, <3>4, <3>5, <3>6, <3>7, <3>8 DEF MaskCall
  <2>2. QED
    BY <2>1
<1>3. Nat \subseteq T
  <2> HIDE DEF T
  <2>1. QED
    BY <1>1, <1>2, SetInduction
<1>4. QED
  BY <1>3 DEF M

\* A masked body is a body.
LEMMA MaskedBody ==
  ASSUME NEW v, IsBody(v), NEW masking, masking.maxDepth \in Nat
  PROVE  IsBody(MaskValue(v, masking))
<1> DEFINE c == MaskingOf(v, <<>>, "$", 0)
<1>1. v \in Values(v) /\ Sound(v, Nesting + 1) /\ Nesting + 1 \in Nat
  BY BodyPositions, NestingAssumption
<1>2. <<>> \in Path
  BY DEF Path
<1>3. c \in Maskings(v)
  <2>1. ASSUME NEW path \in Path, NEW parent \in {"$"} \cup STRING PROVE MaskingOf(v, path, parent, 0) \in Maskings(v)
    BY <1>1 DEF MaskingOf, Maskings
  <2>2. QED
    BY <1>2, <2>1
<1>7. c.value = v
  BY DEF MaskingOf
<1> HIDE DEF c
<1>4. Sound(Mask(v, masking)[c], Nesting + 1)
  BY <1>1, <1>3, <1>7, MaskSound
<1>5. IsBody(Mask(v, masking)[c])
  BY <1>1, <1>4, SoundBody
<1>6. QED
  BY <1>5 DEF MaskValue, c

-----------------------------------------------------------------------------
(* No difference is found exactly in bodies that are the same. *)

\* The normalised fields of an object are children of it.
LEMMA FieldsBelow ==
  ASSUME NfcOfTexts, NEW x, IsNode(x), x.type = "object", NEW options
  PROVE  \A k \in DOMAIN Normalized(x.fields, options) :
           /\ k \in STRING
           /\ \E c \in Children(x) : c.value = Normalized(x.fields, options)[k]
<1> DEFINE fields == x.fields
<1> SUFFICES ASSUME NEW k \in DOMAIN Normalized(fields, options)
             PROVE  k \in STRING /\ \E c \in Children(x) : c.value = Normalized(fields, options)[k]
  OBVIOUS
<1> HIDE DEF fields
<1>1. \E l \in DOMAIN fields : Normalized(fields, options)[k] = fields[l] /\ NormalKey(l, options) = k
  BY NormalizedFrom
<1>2. PICK l \in DOMAIN fields : Normalized(fields, options)[k] = fields[l] /\ NormalKey(l, options) = k
  BY <1>1
<1> DEFINE c == [segment |-> Key(l), value |-> fields[l]]
<1>3. l \in STRING /\ c \in Children(x) /\ c.value = fields[l]
  BY FieldOf DEF fields
<1>4. k \in STRING
  BY <1>2, <1>3 DEF NormalKey, NfcOfTexts
<1> HIDE DEF c
<1>5. QED
  BY <1>2, <1>3, <1>4

\* The items of an array are children of it.
LEMMA ItemsBelow ==
  ASSUME NEW x, IsNode(x), x.type = "array"
  PROVE  /\ Len(x.items) \in Nat /\ DOMAIN x.items = 1..Len(x.items)
         /\ \A i \in 1..Len(x.items) : i \in Nat /\ \E c \in Children(x) : c.value = x.items[i]
<1>1. /\ Len(x.items) \in Nat /\ DOMAIN x.items = 1..Len(x.items)
      /\ \A i \in 1..Len(x.items) : i \in Nat /\ [segment |-> Index(i), value |-> x.items[i]] \in Children(x)
  BY ItemOf
<1>2. ASSUME NEW i \in 1..Len(x.items) PROVE \E c \in Children(x) : c.value = x.items[i]
  <2> DEFINE c == [segment |-> Index(i), value |-> x.items[i]]
  <2>1. c \in Children(x) /\ c.value = x.items[i]
    BY <1>1
  <2> HIDE DEF c
  <2>2. QED
    BY <2>1
<1>3. QED
  BY <1>1, <1>2

\* A pair of parts of the bodies.
LEMMA PairIn ==
  ASSUME NEW e, NEW a, NEW x \in Values(e), NEW y \in Values(a), NEW path \in Path
  PROVE  /\ Pair(x, y, path) \in Pairs(e, a)
         /\ Pair(x, y, path).expected = x /\ Pair(x, y, path).actual = y /\ Pair(x, y, path).path = path
BY DEF Pair, Pairs

\* What a pair is made of.
LEMMA PairTypes ==
  ASSUME NEW e, NEW a, NEW q \in Pairs(e, a)
  PROVE  /\ q.expected \in Values(e) /\ q.actual \in Values(a) /\ q.path \in Path
         /\ q = Pair(q.expected, q.actual, q.path)
BY DEF Pair, Pairs

\* Whether two values are the same depends on the values that they hold.
LEMMA SameDepends ==
  ASSUME NfcOfTexts, NEW e, IsBody(e), NEW a, IsBody(a), NEW x \in Values(e), NEW y \in Values(a),
         NEW path \in Path, NEW f, NEW g,
         \A u \in Values(e), w \in Values(a), t \in Path :
           (\E c \in Children(x) : c.value = u) => f[Pair(u, w, t)] = g[Pair(u, w, t)]
  PROVE  SameParts(f, x, y, path) = SameParts(g, x, y, path)
<1>0. IsNode(x) /\ \A c \in Children(x) : c.value \in Values(e)
  BY ValueOf
<1>1. CASE x.type = "object" /\ y.type = "object"
  <2> DEFINE old == Normalized(x.fields, settings)
             new == Normalized(y.fields, settings)
             At(k) == Append(path, Key(k))
  <2>1. ASSUME NEW k \in DOMAIN old, DOMAIN old = DOMAIN new
        PROVE  f[Pair(old[k], new[k], At(k))] = g[Pair(old[k], new[k], At(k))]
    <3>1. k \in STRING /\ (\E c \in Children(x) : c.value = old[k]) /\ new[k] \in Values(a)
      BY <1>0, <1>1, <2>1, FieldsBelow, FieldsInside
    <3>2. old[k] \in Values(e)
      BY <1>0, <3>1
    <3>3. At(k) \in Path
      BY <3>1, SegmentForms, LongerPath
    <3> HIDE DEF old, new, At
    <3>4. QED
      BY <3>1, <3>2, <3>3
  <2> HIDE DEF old, new, At
  <2>2. DOMAIN old = DOMAIN new =>
          ((\A k \in DOMAIN old : f[Pair(old[k], new[k], At(k))])
             <=> (\A k \in DOMAIN old : g[Pair(old[k], new[k], At(k))]))
    BY <2>1
  <2>3. \A h : SameParts(h, x, y, path) =
          (DOMAIN old = DOMAIN new /\ \A k \in DOMAIN old : h[Pair(old[k], new[k], At(k))])
    BY <1>1 DEF SameParts, old, new, At
  <2>4. QED
    BY <2>2, <2>3
<1>2. CASE x.type = "array" /\ y.type = "array"
  <2> DEFINE n == Len(x.items)
             m == Len(y.items)
             fits(h) == {q \in (1..n) \X (1..m) : h[Pair(x.items[q[1]], y.items[q[2]], path)]}
             At(i) == Append(path, Index(i))
  <2>1. /\ n \in Nat /\ m \in Nat /\ DOMAIN x.items = 1..n /\ DOMAIN y.items = 1..m
        /\ \A i \in 1..n : /\ i \in Nat /\ x.items[i] \in Values(e)
                           /\ \E c \in Children(x) : c.value = x.items[i]
        /\ \A j \in 1..m : y.items[j] \in Values(a)
    BY <1>0, <1>2, ItemsBelow, ItemsInside
  <2>2. ASSUME NEW i \in 1..n, NEW j \in 1..m, NEW t \in Path
        PROVE  f[Pair(x.items[i], y.items[j], t)] = g[Pair(x.items[i], y.items[j], t)]
    BY <2>1
  <2>3. fits(f) = fits(g)
    <3>1. ASSUME NEW q \in (1..n) \X (1..m)
          PROVE  f[Pair(x.items[q[1]], y.items[q[2]], path)] = g[Pair(x.items[q[1]], y.items[q[2]], path)]
      <4>1. q[1] \in 1..n /\ q[2] \in 1..m
        OBVIOUS
      <4>2. QED
        BY <2>2, <4>1
    <3> HIDE DEF n, m
    <3>2. QED
      BY <3>1
  <2>4. ASSUME NEW i \in 1..n, n = m
        PROVE  f[Pair(x.items[i], y.items[i], At(i))] = g[Pair(x.items[i], y.items[i], At(i))]
    <3>1. At(i) \in Path
      BY <2>1, SegmentForms, LongerPath
    <3>2. QED
      BY <2>2, <2>4, <3>1
  <2>5. \A h : SameParts(h, x, y, path) =
          (n = m /\ IF path \in settings.setPaths THEN CanPair(fits(h), n, m)
                    ELSE \A i \in 1..n : h[Pair(x.items[i], y.items[i], At(i))])
    BY <1>2, <2>1 DEF SameParts
  <2> HIDE DEF n, m, fits, At
  <2>6. n = m => ((\A i \in 1..n : f[Pair(x.items[i], y.items[i], At(i))])
                    <=> (\A i \in 1..n : g[Pair(x.items[i], y.items[i], At(i))]))
    BY <2>4
  <2>7. QED
    BY <2>3, <2>5, <2>6
<1>3. CASE x.type # y.type
  BY <1>3 DEF SameParts
<1>4. CASE x.type = y.type /\ x.type # "object" /\ x.type # "array"
  BY <1>4 DEF SameParts
<1>5. QED
  BY <1>1, <1>2, <1>3, <1>4

\* A child nests less.
LEMMA ChildLower ==
  ASSUME NEW x, NEW r \in Nat, Levels(x)[r + 1] = {}, NEW c \in Children(x)
  PROVE  Levels(c.value)[r] = {}
<1> SUFFICES ASSUME NEW q \in Levels(c.value)[r] PROVE FALSE
  OBVIOUS
<1>1. Position(<<c.segment>> \o q.path, q.value) \in Levels(x)[r + 1]
  BY OfChild
<1>2. QED
  BY <1>1

\* Sameness is the function that its recursion defines.
LEMMA SameIs ==
  ASSUME NfcOfTexts, NEW e, IsBody(e), NEW a, IsBody(a)
  PROVE  \A q \in Pairs(e, a) :
           Sameness(e, a)[q] = SameParts(Sameness(e, a), q.expected, q.actual, q.path)
<1> DEFINE Of(g, q) == SameParts(g, q.expected, q.actual, q.path)
           Low(q, r) == Levels(q.expected)[r] = {}
           Right(g, r) == \A q \in Pairs(e, a) : Low(q, r) => g[q] = Of(g, q)
           T == {r \in Nat : \E g : Right(g, r)}
<1>0. ASSUME NEW q \in Pairs(e, a), NEW r \in Nat, Low(q, r + 1), NEW f, NEW g,
             \A d \in Pairs(e, a) : Low(d, r) => f[d] = g[d]
      PROVE  Of(f, q) = Of(g, q)
  <2> DEFINE x == q.expected
             y == q.actual
             path == q.path
  <2>1. x \in Values(e) /\ y \in Values(a) /\ path \in Path
    BY PairTypes
  <2>2. Levels(x)[r + 1] = {}
    BY <1>0
  <2> HIDE DEF x, y, path
  <2>3. ASSUME NEW u \in Values(e), NEW w \in Values(a), NEW t \in Path, NEW c \in Children(x), c.value = u
        PROVE  f[Pair(u, w, t)] = g[Pair(u, w, t)]
    <3>1. Levels(u)[r] = {}
      BY <2>2, <2>3, ChildLower
    <3>2. Pair(u, w, t) \in Pairs(e, a) /\ Pair(u, w, t).expected = u
      BY PairIn
    <3>3. QED
      BY <1>0, <3>1, <3>2
  <2>5. \A u \in Values(e), w \in Values(a), t \in Path :
           (\E c \in Children(x) : c.value = u) => f[Pair(u, w, t)] = g[Pair(u, w, t)]
    BY <2>3
  <2>4. SameParts(f, x, y, path) = SameParts(g, x, y, path)
    BY <2>1, <2>5, SameDepends
  <2>6. QED
    BY <2>4 DEF x, y, path
<1>1. 0 \in T
  <2>1. Right({}, 0)
    BY LevelSteps
  <2> HIDE DEF Right
  <2>2. QED
    BY <2>1
<1>2. ASSUME NEW r \in Nat, r \in T PROVE r + 1 \in T
  <2>1. PICK g : Right(g, r)
    <3> HIDE DEF Right
    <3>1. QED
      BY <1>2
  <2> DEFINE h == [q \in Pairs(e, a) |-> IF Low(q, r) THEN g[q] ELSE Of(g, q)]
  <2>2. ASSUME NEW q \in Pairs(e, a), Low(q, r + 1) PROVE h[q] = Of(h, q)
    <3>1. \A d \in Pairs(e, a) : Low(d, r) => h[d] = g[d]
      OBVIOUS
    <3>3. h[q] = Of(g, q)
      BY <2>1
    <3> HIDE DEF h, Low, Of
    <3>2. Of(h, q) = Of(g, q)
      BY <1>0, <2>2, <3>1
    <3>4. QED
      BY <3>2, <3>3
  <2>3. Right(h, r + 1)
    <3> HIDE DEF h, Low, Of
    <3>1. QED
      BY <2>2
  <2> HIDE DEF h, Right
  <2>4. QED
    BY <2>3
<1>3. \A r \in Nat : \E g : Right(g, r)
  <2>1. Nat \subseteq T
    <3> HIDE DEF T
    <3>1. QED
      BY <1>1, <1>2, SetInduction
  <2> HIDE DEF Right
  <2>2. QED
    BY <2>1
<1>4. Nesting + 1 \in Nat /\ (Nesting + 1) + 1 \in Nat
  BY NestingAssumption
<1>5. PICK g : Right(g, (Nesting + 1) + 1)
  <2> HIDE DEF Right
  <2>1. QED
    BY <1>3, <1>4
<1>6. ASSUME NEW q \in Pairs(e, a) PROVE Low(q, Nesting + 1) /\ Low(q, (Nesting + 1) + 1)
  <2>1. Sound(q.expected, Nesting + 1)
    BY PairTypes, ValueOf
  <2>2. Levels(q.expected)[Nesting + 1] = {}
    BY <2>1 DEF Sound
  <2>3. QED
    BY <1>4, <2>2, EmptyStays
<1> DEFINE f == [q \in Pairs(e, a) |-> g[q]]
<1>7. ASSUME NEW q \in Pairs(e, a) PROVE f[q] = Of(f, q)
  <2>1. g[q] = Of(g, q)
    BY <1>5, <1>6
  <2>2. \A d \in Pairs(e, a) : Low(d, Nesting + 1) => f[d] = g[d]
    OBVIOUS
  <2>3. f[q] = g[q]
    OBVIOUS
  <2> HIDE DEF f, Low, Of
  <2>4. Of(f, q) = Of(g, q)
    BY <1>0, <1>4, <1>6, <2>2
  <2>5. QED
    BY <2>1, <2>3, <2>4
<1>8. f = [q \in Pairs(e, a) |-> Of(f, q)]
  <2>1. f = [q \in Pairs(e, a) |-> f[q]]
    OBVIOUS
  <2> HIDE DEF f, Of
  <2>2. QED
    BY <1>7, <2>1
<1>9. Sameness(e, a) = CHOOSE h : h = [q \in Pairs(e, a) |-> Of(h, q)]
  BY DEF Sameness
<1>10. Sameness(e, a) = [q \in Pairs(e, a) |-> Of(Sameness(e, a), q)]
  <2> HIDE DEF f, Of
  <2>1. QED
    BY <1>8, <1>9
<1>11. QED
  <2> DEFINE S == Sameness(e, a)
  <2> HIDE DEF S, Of
  <2>1. S = [q \in Pairs(e, a) |-> Of(S, q)]
    BY <1>10 DEF S
  <2>2. \A q \in Pairs(e, a) : S[q] = Of(S, q)
    BY <2>1
  <2>3. QED
    BY <2>2 DEF S, Of

\* When a call finds no difference.
SilentParts(diff, c, options) ==
  /\ c.depth <= options.maxDepth /\ c.expected.type = c.actual.type
  /\ c.expected.type = "object" =>
       LET old == Normalized(c.expected.fields, options)
           new == Normalized(c.actual.fields, options)
       IN  /\ DOMAIN old = DOMAIN new
           /\ \A k \in DOMAIN old :
                diff[Call(old[k], new[k], Append(c.path, Key(k)), c.depth + 1)] = {}
  /\ c.expected.type = "array" /\ c.path \in options.setPaths =>
       LET n == Len(c.expected.items)
           m == Len(c.actual.items)
           fits == {q \in (1..n) \X (1..m) :
                      diff[Call(c.expected.items[q[1]], c.actual.items[q[2]], c.path, c.depth + 1)] = {}}
       IN  Missing(Match(fits, n, m)) = {} /\ Surplus(Match(fits, n, m), m) = {}
  /\ c.expected.type = "array" /\ c.path \notin options.setPaths =>
       /\ Len(c.expected.items) = Len(c.actual.items)
       /\ \A i \in 1..Len(c.expected.items) :
            diff[Call(c.expected.items[i], c.actual.items[i], Append(c.path, Index(i)), c.depth + 1)] = {}
  /\ c.expected.type = "number" => Close(c.expected, c.actual, options)
  /\ c.expected.type \notin {"object", "array", "number"} => c.expected = c.actual

\* differ.rs:129: a call finds nothing exactly when its parts are silent, ...
LEMMA SilentCall ==
  ASSUME NEW diff, NEW c, NEW options, c.depth \in Nat, options.maxDepth \in Nat,
         IsNode(c.expected), IsNode(c.actual)
  PROVE  DiffCall(diff, c, options) = {} <=> SilentParts(diff, c, options)
<1>0. \A x : {x} # {}
  OBVIOUS
<1>1. CASE c.depth > options.maxDepth
  BY <1>0, <1>1 DEF DiffCall, SilentParts
<1>2. CASE c.depth <= options.maxDepth /\ c.expected.type # c.actual.type
  BY <1>0, <1>2 DEF DiffCall, SilentParts
<1>3. CASE c.depth <= options.maxDepth /\ c.expected.type = c.actual.type
  <2>1. CASE c.expected.type = "object"
    <3> DEFINE old == Normalized(c.expected.fields, options)
               new == Normalized(c.actual.fields, options)
               At(k) == Append(c.path, Key(k))
               removed == {Difference("removed", At(k), old[k], Nothing) : k \in DOMAIN old \ DOMAIN new}
               added == {Difference("added", At(k), Nothing, new[k]) : k \in DOMAIN new \ DOMAIN old}
               inner == UNION {diff[Call(old[k], new[k], At(k), c.depth + 1)] : k \in DOMAIN old \cap DOMAIN new}
    <3>1. DiffCall(diff, c, options) = removed \cup added \cup inner
      BY <1>3, <2>1 DEF DiffCall, DiffObjects
    <3>2. SilentParts(diff, c, options) <=>
            /\ DOMAIN old = DOMAIN new
            /\ \A k \in DOMAIN old : diff[Call(old[k], new[k], At(k), c.depth + 1)] = {}
      BY <1>3, <2>1 DEF SilentParts
    <3>3. removed = {} <=> DOMAIN old \subseteq DOMAIN new
      <4> HIDE DEF old, new, At
      <4>1. QED
        OBVIOUS
    <3>4. added = {} <=> DOMAIN new \subseteq DOMAIN old
      <4> HIDE DEF old, new, At
      <4>1. QED
        OBVIOUS
    <3>5. inner = {} <=> \A k \in DOMAIN old \cap DOMAIN new : diff[Call(old[k], new[k], At(k), c.depth + 1)] = {}
      <4> HIDE DEF old, new, At
      <4>1. QED
        OBVIOUS
    <3> HIDE DEF removed, added, inner, old, new, At
    <3>6. DiffCall(diff, c, options) = {} <=> removed = {} /\ added = {} /\ inner = {}
      BY <3>1
    <3>7. QED
      BY <3>2, <3>3, <3>4, <3>5, <3>6
  <2>2. CASE c.expected.type = "array" /\ c.path \in options.setPaths
    <3> DEFINE n == Len(c.expected.items)
               m == Len(c.actual.items)
               fits == {q \in (1..n) \X (1..m) :
                          diff[Call(c.expected.items[q[1]], c.actual.items[q[2]], c.path, c.depth + 1)] = {}}
               match == Match(fits, n, m)
               At == Append(c.path, AnyIndex)
    <3>1. DiffCall(diff, c, options) =
            {Difference("removed", At, c.expected.items[i], Nothing) : i \in Missing(match)}
              \cup {Difference("added", At, Nothing, c.actual.items[j]) : j \in Surplus(match, m)}
      <4>1. DiffCall(diff, c, options) = DiffAsSet(diff, c)
        BY <1>3, <2>2 DEF DiffCall
      <4>2. QED
        BY <4>1 DEF DiffAsSet
    <3>2. SilentParts(diff, c, options) <=> Missing(match) = {} /\ Surplus(match, m) = {}
      BY <1>3, <2>2 DEF SilentParts
    <3> HIDE DEF match, At, m
    <3>3. DiffCall(diff, c, options) = {} <=> Missing(match) = {} /\ Surplus(match, m) = {}
      BY <3>1
    <3>4. QED
      BY <3>2, <3>3
  <2>3. CASE c.expected.type = "array" /\ c.path \notin options.setPaths
    <3> DEFINE n == Len(c.expected.items)
               m == Len(c.actual.items)
               At(i) == Append(c.path, Index(i))
               Of(i) == diff[Call(c.expected.items[i], c.actual.items[i], At(i), c.depth + 1)]
               length == IF n # m THEN {Difference("length", c.path, c.expected, c.actual)} ELSE {}
               added == {Difference("added", At(i), Nothing, c.actual.items[i]) : i \in (n + 1)..m}
               inner == UNION {Of(i) : i \in 1..(IF n < m THEN n ELSE m)}
    <3>0. n \in Nat /\ m \in Nat
      BY <1>3, <2>3, ItemOf
    <3>1. DiffCall(diff, c, options) = length \cup added \cup inner
      <4>1. DiffCall(diff, c, options) = DiffOrdered(diff, c)
        BY <1>3, <2>3 DEF DiffCall
      <4>2. DiffOrdered(diff, c) = length \cup added \cup inner
        BY DEF DiffOrdered
      <4> HIDE DEF length, inner, added
      <4>3. QED
        BY <4>1, <4>2
    <3>2. SilentParts(diff, c, options) <=> n = m /\ \A i \in 1..n : Of(i) = {}
      BY <1>3, <2>3 DEF SilentParts
    <3> HIDE DEF n, m, At, Of
    <3>3. length = {} <=> n = m
      OBVIOUS
    <3>4. n = m => added = {}
      <4>1. n = m => (n + 1)..m = {}
        BY <3>0
      <4>2. QED
        BY <4>1
    <3>5. n = m => (inner = {} <=> \A i \in 1..n : Of(i) = {})
      OBVIOUS
    <3> HIDE DEF length, inner, added
    <3>6. DiffCall(diff, c, options) = {} <=> length = {} /\ inner = {} /\ added = {}
      BY <3>1
    <3>7. QED
      BY <3>2, <3>3, <3>4, <3>5, <3>6
  <2>4. CASE c.expected.type = "number"
    BY <1>0, <1>3, <2>4 DEF DiffCall, SilentParts
  <2>5. CASE c.expected.type \notin {"object", "array", "number"}
    BY <1>0, <1>3, <2>5 DEF DiffCall, SilentParts
  <2>6. QED
    BY <2>1, <2>2, <2>3, <2>4, <2>5
<1>4. QED
  BY <1>1, <1>2, <1>3

\* ... with the differences that the calls do find.
LEMMA SilentIs ==
  ASSUME NfcOfTexts, NEW e, IsBody(e), NEW a, IsBody(a), NEW options, options.maxDepth \in Nat,
         NEW c \in Calls(e, a)
  PROVE  Diff(e, a, options)[c] = {} <=> SilentParts(Diff(e, a, options), c, options)
<1> DEFINE D == Diff(e, a, options)
<1>1. D[c] = DiffCall(D, c, options)
  BY DiffIs
<1>2. c.depth \in Nat /\ IsNode(c.expected) /\ IsNode(c.actual)
  BY CallTypes, ValueOf
<1> HIDE DEF D
<1>3. DiffCall(D, c, options) = {} <=> SilentParts(D, c, options)
  BY <1>2, SilentCall
<1>4. QED
  BY <1>1, <1>3 DEF D

\* Numbers within the tolerance.
LEMMA CloseIs ==
  ASSUME NEW x \in Int, NEW y \in Int, NEW options, options.epsilon \in Nat
  PROVE  Close(Number(x), Number(y), options) <=> x - y \in (-options.epsilon)..options.epsilon
<1> DEFINE t == options.epsilon
<1>1. Number(x).num = x /\ Number(y).num = y
  BY DEF Number
<1>2. Close(Number(x), Number(y), options) <=> (IF x < y THEN y - x ELSE x - y) <= t
  BY <1>1 DEF Close
<1> HIDE DEF t
<1>3. t \in Nat
  BY DEF t
<1>4. (IF x < y THEN y - x ELSE x - y) <= t <=> x - y \in (-t)..t
  BY <1>3
<1>5. QED
  BY <1>2, <1>4 DEF t

\* A value that is a number.
LEMMA NumberNode ==
  ASSUME NEW x, IsNode(x), x.type = "number"
  PROVE  x = Number(x.num) /\ x.num \in Int
BY DEF IsNode

\* A wider relation pairs what a narrower one does.
LEMMA PairMore ==
  ASSUME NEW n \in Nat, NEW m \in Nat, NEW A, NEW B, CanPair(A, n, m),
         \A i \in 1..n, j \in 1..m : <<i, j>> \in A => <<i, j>> \in B
  PROVE  CanPair(B, n, m)
BY DEF CanPair

\* differ.rs:129: what no difference is found in is the same.
LEMMA SilentSame ==
  ASSUME NfcOfTexts, NEW e, IsBody(e), NEW a, IsBody(a), IsSettings(settings)
  PROVE  \A r \in Nat : \A c \in Calls(e, a) :
           Levels(c.expected)[r] = {} /\ Diff(e, a, settings)[c] = {}
             => Sameness(e, a)[Pair(c.expected, c.actual, c.path)]
<1> DEFINE D == Diff(e, a, settings)
           S == Sameness(e, a)
           T == {r \in Nat : \A c \in Calls(e, a) :
                   Levels(c.expected)[r] = {} /\ D[c] = {} => S[Pair(c.expected, c.actual, c.path)]}
<1>0. settings.maxDepth \in Nat /\ settings.epsilon \in Nat
  BY DEF IsSettings
<1>1. \A c \in Calls(e, a) : D[c] = {} <=> SilentParts(D, c, settings)
  BY <1>0, SilentIs
<1>2. \A q \in Pairs(e, a) : S[q] = SameParts(S, q.expected, q.actual, q.path)
  BY SameIs
<1> HIDE DEF D, S
<1>3. 0 \in T
  BY LevelSteps
<1>4. ASSUME NEW r \in Nat, r \in T PROVE r + 1 \in T
  <2>1. ASSUME NEW c \in Calls(e, a), Levels(c.expected)[r + 1] = {}, D[c] = {}
        PROVE  S[Pair(c.expected, c.actual, c.path)]
    <3> DEFINE x == c.expected
               y == c.actual
               path == c.path
               d == c.depth + 1
    <3>1. x \in Values(e) /\ y \in Values(a) /\ path \in Path /\ d \in Nat
      BY CallTypes
    <3>2. IsNode(x) /\ IsNode(y) /\ \A u \in Children(x) : u.value \in Values(e) /\ Levels(u.value)[r] = {}
      BY <2>1, <3>1, ValueOf, ChildLower
    <3>3. SilentParts(D, c, settings)
      BY <1>1, <2>1
    <3>4. S[Pair(x, y, path)] = SameParts(S, x, y, path)
      BY <1>2, <3>1, PairIn
    <3>5. ASSUME NEW u \in Children(x), NEW w \in Values(a), NEW t \in Path, D[Call(u.value, w, t, d)] = {}
          PROVE  S[Pair(u.value, w, t)]
      <4>1. /\ Call(u.value, w, t, d) \in Calls(e, a) /\ Call(u.value, w, t, d).expected = u.value
            /\ Call(u.value, w, t, d).actual = w /\ Call(u.value, w, t, d).path = t
        BY <3>1, <3>2, CallIn
      <4> HIDE DEF x, y, path, d
      <4>2. QED
        BY <1>4, <3>2, <3>5, <4>1
    <3>6. x.type = y.type
      BY <3>3 DEF SilentParts
    <3>7. CASE x.type = "object"
      <4> DEFINE old == Normalized(x.fields, settings)
                 new == Normalized(y.fields, settings)
                 At(k) == Append(path, Key(k))
      <4>1. DOMAIN old = DOMAIN new /\ \A k \in DOMAIN old : D[Call(old[k], new[k], At(k), d)] = {}
        BY <3>3, <3>7 DEF SilentParts
      <4>2. ASSUME NEW k \in DOMAIN old PROVE S[Pair(old[k], new[k], At(k))]
        <5>1. k \in STRING /\ (\E u \in Children(x) : u.value = old[k])
          BY <3>2, <3>7, FieldsBelow
        <5>2. new[k] \in Values(a)
          BY <3>1, <3>6, <3>7, <4>1, FieldsInside
        <5>3. At(k) \in Path
          BY <3>1, <5>1, SegmentForms, LongerPath
        <5> HIDE DEF x, y, path, d, old, new, At
        <5>4. QED
          BY <3>5, <4>1, <5>1, <5>2, <5>3
      <4>3. SameParts(S, x, y, path)
        BY <3>6, <3>7, <4>1, <4>2 DEF SameParts
      <4>4. QED
        BY <3>4, <4>3
    <3>8. CASE x.type = "array"
      <4> DEFINE n == Len(x.items)
                 m == Len(y.items)
                 At(i) == Append(path, Index(i))
      <4>1. /\ n \in Nat /\ m \in Nat /\ DOMAIN x.items = 1..n /\ DOMAIN y.items = 1..m
            /\ \A i \in 1..n : i \in Nat /\ \E u \in Children(x) : u.value = x.items[i]
            /\ \A j \in 1..m : y.items[j] \in Values(a)
        BY <3>1, <3>2, <3>6, <3>8, ItemsBelow, ItemsInside
      <4>2. ASSUME NEW i \in 1..n, NEW j \in 1..m, NEW t \in Path, D[Call(x.items[i], y.items[j], t, d)] = {}
            PROVE  S[Pair(x.items[i], y.items[j], t)]
        <5>1. PICK u \in Children(x) : u.value = x.items[i]
          BY <4>1
        <5> HIDE DEF x, y, path, d, n, m
        <5>2. QED
          BY <3>5, <4>1, <4>2, <5>1
      <4>3. CASE path \in settings.setPaths
        <5> DEFINE fits == {q \in (1..n) \X (1..m) : D[Call(x.items[q[1]], y.items[q[2]], path, d)] = {}}
                   same == {q \in (1..n) \X (1..m) : S[Pair(x.items[q[1]], y.items[q[2]], path)]}
        <5>1. Missing(Match(fits, n, m)) = {} /\ Surplus(Match(fits, n, m), m) = {}
          BY <3>3, <3>8, <4>3 DEF SilentParts
        <5>2. CanPair(fits, n, m)
          <6> HIDE DEF fits, n, m
          <6>1. QED
            BY <4>1, <5>1, NoSetDifferencePairs
        <5>3. fits \subseteq same
          <6> SUFFICES ASSUME NEW q \in (1..n) \X (1..m), D[Call(x.items[q[1]], y.items[q[2]], path, d)] = {}
                       PROVE  S[Pair(x.items[q[1]], y.items[q[2]], path)]
            OBVIOUS
          <6>1. q[1] \in 1..n /\ q[2] \in 1..m
            OBVIOUS
          <6> HIDE DEF x, y, path, d, n, m
          <6>2. QED
            BY <3>1, <4>2, <6>1
        <5>4. CanPair(same, n, m)
          <6> HIDE DEF fits, same, n, m
          <6>1. QED
            BY <4>1, <5>2, <5>3, PairMore
        <5>5. n = m
          BY <5>2 DEF CanPair
        <5>6. SameParts(S, x, y, path)
          BY <3>6, <3>8, <4>1, <4>3, <5>4, <5>5 DEF SameParts
        <5>7. QED
          BY <3>4, <5>6
      <4>4. CASE path \notin settings.setPaths
        <5>1. n = m /\ \A i \in 1..n : D[Call(x.items[i], y.items[i], At(i), d)] = {}
          BY <3>3, <3>8, <4>4 DEF SilentParts
        <5>2. ASSUME NEW i \in 1..n PROVE S[Pair(x.items[i], y.items[i], At(i))]
          <6>1. At(i) \in Path
            BY <3>1, <4>1, SegmentForms, LongerPath
          <6> HIDE DEF x, y, path, d, n, m, At
          <6>2. QED
            BY <4>2, <5>1, <6>1
        <5>3. SameParts(S, x, y, path)
          BY <3>6, <3>8, <4>1, <4>4, <5>1, <5>2 DEF SameParts
        <5>4. QED
          BY <3>4, <5>3
      <4>5. QED
        BY <4>3, <4>4
    <3>9. CASE x.type = "number"
      <4>1. x = Number(x.num) /\ y = Number(y.num) /\ x.num \in Int /\ y.num \in Int
        BY <3>2, <3>6, <3>9, NumberNode
      <4>2. Close(x, y, settings)
        BY <3>3, <3>9 DEF SilentParts
      <4>3. x.num - y.num \in (-settings.epsilon)..settings.epsilon
        <5> DEFINE i == x.num
                   j == y.num
        <5>1. Close(Number(i), Number(j), settings) /\ i \in Int /\ j \in Int
          BY <4>1, <4>2
        <5> HIDE DEF i, j
        <5>2. i - j \in (-settings.epsilon)..settings.epsilon
          BY <1>0, <5>1, CloseIs
        <5>3. QED
          BY <5>2 DEF i, j
      <4>4. SameParts(S, x, y, path)
        BY <3>6, <3>9, <4>3 DEF SameParts
      <4>5. QED
        BY <3>4, <4>4
    <3>10. CASE x.type \notin {"object", "array", "number"}
      <4>1. x = y
        BY <3>3, <3>10 DEF SilentParts
      <4>2. SameParts(S, x, y, path)
        BY <3>6, <3>10, <4>1 DEF SameParts
      <4>3. QED
        BY <3>4, <4>2
    <3>11. QED
      BY <3>7, <3>8, <3>9, <3>10
  <2>2. QED
    BY <2>1
<1>5. Nat \subseteq T
  <2> HIDE DEF T
  <2>1. QED
    BY <1>3, <1>4, SetInduction
<1>6. QED
  BY <1>5 DEF D, S

\* Where the last leads, the others lead by way of one another.
Bridged(A, B, C, D, n) ==
  \A i, j, h, g \in 1..n : <<i, j>> \in C /\ <<h, j>> \in A /\ <<h, g>> \in B => <<i, g>> \in D

\* Three ways to pair give a fourth.
LEMMA PairAcross ==
  ASSUME NEW n \in Nat, NEW A, NEW B, NEW C, NEW D,
         CanPair(A, n, n), CanPair(B, n, n), CanPair(C, n, n), Bridged(A, B, C, D, n)
  PROVE  CanPair(D, n, n)
<1>1. \A i, j, h, g \in 1..n : <<i, j>> \in C /\ <<h, j>> \in A /\ <<h, g>> \in B => <<i, g>> \in D
  BY DEF Bridged
<1>2. PICK a \in [1..n -> 1..n] :
        /\ \A i, j \in 1..n : a[i] = a[j] => i = j
        /\ \A i \in 1..n : <<i, a[i]>> \in A
  BY DEF CanPair
<1>3. PICK b \in [1..n -> 1..n] :
        /\ \A i, j \in 1..n : b[i] = b[j] => i = j
        /\ \A i \in 1..n : <<i, b[i]>> \in B
  BY DEF CanPair
<1>4. PICK c \in [1..n -> 1..n] :
        /\ \A i, j \in 1..n : c[i] = c[j] => i = j
        /\ \A i \in 1..n : <<i, c[i]>> \in C
  BY DEF CanPair
<1>5. \A j \in 1..n : \E i \in 1..n : a[i] = j
  <2>1. a \in Injection(1..n, 1..n)
    BY <1>2 DEF Injection, IsInjective
  <2>2. IsFiniteSet(1..n) /\ Cardinality(1..n) = n
    BY FS_Interval
  <2>3. a \in Surjection(1..n, 1..n)
    BY <2>1, <2>2, FS_Injection
  <2>4. QED
    BY <2>3 DEF Surjection
<1> DEFINE back(j) == CHOOSE i \in 1..n : a[i] = j
           d == [i \in 1..n |-> b[back(c[i])]]
<1>6. \A j \in 1..n : back(j) \in 1..n /\ a[back(j)] = j
  BY <1>5
<1> HIDE DEF back
<1>7. d \in [1..n -> 1..n]
  BY <1>3, <1>4, <1>6
<1>8. ASSUME NEW i \in 1..n, NEW j \in 1..n, d[i] = d[j] PROVE i = j
  <2>1. back(c[i]) = back(c[j])
    BY <1>3, <1>4, <1>6, <1>8
  <2>2. c[i] = c[j]
    BY <1>4, <1>6, <2>1
  <2>3. QED
    BY <1>4, <2>2
<1>9. ASSUME NEW i \in 1..n PROVE <<i, d[i]>> \in D
  <2>1. c[i] \in 1..n /\ back(c[i]) \in 1..n /\ d[i] = b[back(c[i])] /\ d[i] \in 1..n
    BY <1>4, <1>6, <1>7
  <2>2. <<i, c[i]>> \in C /\ <<back(c[i]), c[i]>> \in A /\ <<back(c[i]), d[i]>> \in B
    BY <1>2, <1>3, <1>4, <1>6, <2>1
  <2> HIDE DEF d
  <2>3. QED
    BY <1>1, <2>1, <2>2
<1> HIDE DEF d
<1>10. QED
  BY <1>7, <1>8, <1>9 DEF CanPair

\* Where numbers must be equal, two values that are the same as a third one are the same
\* as all that it is the same as.
LEMMA SameAcross ==
  ASSUME NfcOfTexts, NEW e, IsBody(e), NEW a, IsBody(a), settings.epsilon = 0
  PROVE  \A r \in Nat : \A x \in Values(e), z \in Values(e), y \in Values(a), w \in Values(a), path \in Path :
           /\ Levels(x)[r] = {}
           /\ Sameness(e, a)[Pair(x, y, path)]
           /\ Sameness(e, a)[Pair(x, w, path)]
           /\ Sameness(e, a)[Pair(z, y, path)]
           => Sameness(e, a)[Pair(z, w, path)]
<1> DEFINE S == Sameness(e, a)
           Across(x, z, y, w, path) ==
             S[Pair(x, y, path)] /\ S[Pair(x, w, path)] /\ S[Pair(z, y, path)] => S[Pair(z, w, path)]
           T == {r \in Nat : \A x \in Values(e), z \in Values(e), y \in Values(a), w \in Values(a), path \in Path :
                   Levels(x)[r] = {} => Across(x, z, y, w, path)}
<1>1. ASSUME NEW x \in Values(e), NEW y \in Values(a), NEW path \in Path
      PROVE  S[Pair(x, y, path)] = SameParts(S, x, y, path)
  <2>1. \A q \in Pairs(e, a) : S[q] = SameParts(S, q.expected, q.actual, q.path)
    BY SameIs
  <2> HIDE DEF S
  <2>2. QED
    BY <2>1, PairIn
<1> HIDE DEF S
<1>2. 0 \in T
  BY LevelSteps
<1>3. ASSUME NEW r \in Nat, r \in T PROVE r + 1 \in T
  <2>1. ASSUME NEW x \in Values(e), NEW z \in Values(e), NEW y \in Values(a), NEW w \in Values(a), NEW path \in Path,
               Levels(x)[r + 1] = {},
               S[Pair(x, y, path)], S[Pair(x, w, path)], S[Pair(z, y, path)]
        PROVE  S[Pair(z, w, path)]
    <3>1. SameParts(S, x, y, path) /\ SameParts(S, x, w, path) /\ SameParts(S, z, y, path)
      BY <1>1, <2>1
    <3>2. x.type = y.type /\ x.type = w.type /\ z.type = y.type
      BY <3>1 DEF SameParts
    <3>3. /\ IsNode(x) /\ IsNode(y) /\ IsNode(z) /\ IsNode(w)
          /\ \A u \in Children(x) : u.value \in Values(e) /\ Levels(u.value)[r] = {}
      BY <2>1, ValueOf, ChildLower
    <3>4. ASSUME NEW u \in Children(x), NEW u1 \in Values(e), NEW u2 \in Values(a), NEW u3 \in Values(a), NEW t \in Path
          PROVE  Across(u.value, u1, u2, u3, t)
      <4>1. Levels(u.value)[r] = {} /\ u.value \in Values(e)
        BY <3>3
      <4> HIDE DEF Across
      <4>2. QED
        BY <1>3, <4>1
    <3>5. SameParts(S, z, w, path)
      <4>1. CASE x.type = "object"
        <5> DEFINE xs == Normalized(x.fields, settings)
                   ys == Normalized(y.fields, settings)
                   zs == Normalized(z.fields, settings)
                   ws == Normalized(w.fields, settings)
                   At(k) == Append(path, Key(k))
        <5>1. /\ DOMAIN xs = DOMAIN ys /\ DOMAIN xs = DOMAIN ws /\ DOMAIN zs = DOMAIN ys
              /\ \A k \in DOMAIN xs : S[Pair(xs[k], ys[k], At(k))] /\ S[Pair(xs[k], ws[k], At(k))]
              /\ \A k \in DOMAIN zs : S[Pair(zs[k], ys[k], At(k))]
          BY <3>1, <3>2, <4>1 DEF SameParts
        <5>2. ASSUME NEW k \in DOMAIN zs PROVE S[Pair(zs[k], ws[k], At(k))]
          <6>5. \A l \in DOMAIN xs : l \in STRING /\ \E u \in Children(x) : u.value = xs[l]
            BY <3>3, <4>1, FieldsBelow
          <6>1. k \in STRING /\ \E u \in Children(x) : u.value = xs[k]
            <7> HIDE DEF xs, ys, zs, ws
            <7>1. QED
              BY <5>1, <6>5
          <6>2. zs[k] \in Values(e) /\ ys[k] \in Values(a) /\ ws[k] \in Values(a)
            BY <3>2, <4>1, <5>1, FieldsInside
          <6>3. At(k) \in Path
            BY <6>1, SegmentForms, LongerPath
          <6> HIDE DEF xs, ys, zs, ws, At
          <6>4. QED
            BY <3>4, <5>1, <6>1, <6>2, <6>3
        <5>3. QED
          BY <3>2, <4>1, <5>1, <5>2 DEF SameParts
      <4>2. CASE x.type = "array"
        <5> DEFINE n == Len(x.items)
                   At(i) == Append(path, Index(i))
        <5>1. /\ n \in Nat /\ DOMAIN x.items = 1..n /\ DOMAIN y.items = 1..n /\ DOMAIN z.items = 1..n /\ DOMAIN w.items = 1..n
              /\ Len(y.items) = n /\ Len(z.items) = n /\ Len(w.items) = n
          BY <3>1, <3>2, <3>3, <4>2, ItemOf DEF SameParts
        <5>2. \A i \in 1..n : /\ i \in Nat /\ \E u \in Children(x) : u.value = x.items[i]
          BY <3>3, <4>2, ItemsBelow
        <5>3. \A i \in 1..n : z.items[i] \in Values(e) /\ y.items[i] \in Values(a) /\ w.items[i] \in Values(a)
          BY <3>2, <4>2, <5>1, ItemsInside
        <5>4. ASSUME NEW i \in 1..n, NEW j \in 1..n, NEW h \in 1..n, NEW g \in 1..n, NEW t \in Path,
                     S[Pair(x.items[h], y.items[j], t)], S[Pair(x.items[h], w.items[g], t)],
                     S[Pair(z.items[i], y.items[j], t)]
              PROVE  S[Pair(z.items[i], w.items[g], t)]
          <6>1. PICK u \in Children(x) : u.value = x.items[h]
            BY <5>2
          <6> HIDE DEF n
          <6>2. QED
            BY <3>4, <5>3, <5>4, <6>1
        <5>5. CASE path \in settings.setPaths
          <6> DEFINE fits(p, q) == {i \in (1..n) \X (1..n) : S[Pair(p.items[i[1]], q.items[i[2]], path)]}
          <6>1. CanPair(fits(x, y), n, n) /\ CanPair(fits(x, w), n, n) /\ CanPair(fits(z, y), n, n)
            BY <3>1, <3>2, <4>2, <5>1, <5>5 DEF SameParts
          <6>2. ASSUME NEW i \in 1..n, NEW j \in 1..n, NEW h \in 1..n, NEW g \in 1..n,
                       <<i, j>> \in fits(z, y), <<h, j>> \in fits(x, y), <<h, g>> \in fits(x, w)
                PROVE  <<i, g>> \in fits(z, w)
            <7>1. /\ S[Pair(z.items[i], y.items[j], path)] /\ S[Pair(x.items[h], y.items[j], path)]
                  /\ S[Pair(x.items[h], w.items[g], path)]
              BY <6>2
            <7>2. S[Pair(z.items[i], w.items[g], path)]
              BY <5>4, <7>1
            <7>3. QED
              BY <7>2
          <6> HIDE DEF fits
          <6> DEFINE A == fits(x, y)
                     B == fits(x, w)
                     C == fits(z, y)
                     D == fits(z, w)
          <6>3. CanPair(D, n, n)
            <7>1. CanPair(A, n, n) /\ CanPair(B, n, n) /\ CanPair(C, n, n)
              BY <6>1
            <7>2. Bridged(A, B, C, D, n)
              <8> HIDE DEF n
              <8>1. QED
                BY <6>2 DEF Bridged
            <7>3. n \in Nat
              BY <5>1
            <7> HIDE DEF A, B, C, D, n
            <7>4. QED
              BY <7>1, <7>2, <7>3, PairAcross
          <6>4. QED
            BY <3>2, <4>2, <5>1, <5>5, <6>3 DEF SameParts, fits
        <5>6. CASE path \notin settings.setPaths
          <6>1. \A i \in 1..n : /\ S[Pair(x.items[i], y.items[i], At(i))] /\ S[Pair(x.items[i], w.items[i], At(i))]
                                /\ S[Pair(z.items[i], y.items[i], At(i))]
            BY <3>1, <3>2, <4>2, <5>1, <5>6 DEF SameParts
          <6>2. ASSUME NEW i \in 1..n PROVE S[Pair(z.items[i], w.items[i], At(i))]
            <7>1. At(i) \in Path
              BY <5>2, SegmentForms, LongerPath
            <7> HIDE DEF n, At
            <7>2. QED
              BY <5>4, <6>1, <7>1
          <6>3. QED
            BY <3>2, <4>2, <5>1, <5>6, <6>2 DEF SameParts
        <5>7. QED
          BY <5>5, <5>6
      <4>3. CASE x.type = "number"
        <5>1. /\ x.num \in Int /\ y.num \in Int /\ z.num \in Int /\ w.num \in Int
          BY <3>2, <3>3, <4>3, NumberNode
        <5>2. \A i \in Int : i \in (-settings.epsilon)..settings.epsilon <=> i = 0
          OBVIOUS
        <5>3. x.num - y.num = 0 /\ x.num - w.num = 0 /\ z.num - y.num = 0
          BY <3>1, <3>2, <4>3, <5>1, <5>2 DEF SameParts
        <5>4. z.num - w.num = 0
          BY <5>1, <5>3
        <5>5. z.num - w.num \in (-settings.epsilon)..settings.epsilon
          BY <5>2, <5>4
        <5>6. QED
          BY <3>2, <4>3, <5>5 DEF SameParts
      <4>4. CASE x.type \notin {"object", "array", "number"}
        BY <3>1, <3>2, <4>4 DEF SameParts
      <4>5. QED
        BY <4>1, <4>2, <4>3, <4>4
    <3>6. QED
      BY <1>1, <3>5
  <2>2. QED
    BY <2>1
<1>4. Nat \subseteq T
  <2> HIDE DEF T
  <2>1. QED
    BY <1>2, <1>3, SetInduction
<1>5. QED
  BY <1>4 DEF S

\* Unless sets are matched under a tolerance, nothing is found in what is the same, down to
\* the largest depth.
LEMMA SameSilent ==
  ASSUME NfcOfTexts, NEW e, IsBody(e), NEW a, IsBody(a), IsSettings(settings),
         settings.epsilon = 0 \/ settings.setPaths = {}
  PROVE  \A r \in Nat : \A c \in Calls(e, a) :
           /\ Levels(c.expected)[r] = {} /\ c.depth + r <= settings.maxDepth + 1
           /\ Sameness(e, a)[Pair(c.expected, c.actual, c.path)]
           => Diff(e, a, settings)[c] = {}
<1> DEFINE D == Diff(e, a, settings)
           S == Sameness(e, a)
           max == settings.maxDepth
           T == {r \in Nat : \A c \in Calls(e, a) :
                   /\ Levels(c.expected)[r] = {} /\ c.depth + r <= max + 1
                   /\ S[Pair(c.expected, c.actual, c.path)]
                   => D[c] = {}}
<1>0. max \in Nat /\ settings.epsilon \in Nat
  BY DEF IsSettings
<1>1. \A c \in Calls(e, a) : D[c] = {} <=> SilentParts(D, c, settings)
  BY <1>0, SilentIs
<1>2. \A q \in Pairs(e, a) : S[q] = SameParts(S, q.expected, q.actual, q.path)
  BY SameIs
<1>9. \A r \in Nat : \A c \in Calls(e, a) :
        Levels(c.expected)[r] = {} /\ D[c] = {} => S[Pair(c.expected, c.actual, c.path)]
  BY SilentSame
<1>10. settings.epsilon = 0 =>
         \A r \in Nat : \A x \in Values(e), z \in Values(e), y \in Values(a), w \in Values(a), path \in Path :
           Levels(x)[r] = {} /\ S[Pair(x, y, path)] /\ S[Pair(x, w, path)] /\ S[Pair(z, y, path)]
             => S[Pair(z, w, path)]
  BY SameAcross
<1> HIDE DEF D, S
<1>3. 0 \in T
  BY LevelSteps
<1>4. ASSUME NEW r \in Nat, r \in T PROVE r + 1 \in T
  <2>1. ASSUME NEW c \in Calls(e, a), Levels(c.expected)[r + 1] = {}, c.depth + (r + 1) <= max + 1,
               S[Pair(c.expected, c.actual, c.path)]
        PROVE  D[c] = {}
    <3> DEFINE x == c.expected
               y == c.actual
               path == c.path
               d == c.depth + 1
    <3>1. x \in Values(e) /\ y \in Values(a) /\ path \in Path /\ d \in Nat /\ c.depth \in Nat
      BY CallTypes
    <3>2. IsNode(x) /\ IsNode(y) /\ \A u \in Children(x) : u.value \in Values(e) /\ Levels(u.value)[r] = {}
      BY <2>1, <3>1, ValueOf, ChildLower
    <3>3. SameParts(S, x, y, path)
      <4>1. S[Pair(x, y, path)] = SameParts(S, x, y, path)
        BY <1>2, <3>1, PairIn
      <4>2. QED
        BY <2>1, <4>1
    <3>4. c.depth <= max /\ d + r <= max + 1
      BY <1>0, <2>1, <3>1
    <3>5. ASSUME NEW u \in Children(x), NEW w \in Values(a), NEW t \in Path, S[Pair(u.value, w, t)]
          PROVE  D[Call(u.value, w, t, d)] = {}
      <4>1. /\ Call(u.value, w, t, d) \in Calls(e, a) /\ Call(u.value, w, t, d).expected = u.value
            /\ Call(u.value, w, t, d).actual = w /\ Call(u.value, w, t, d).path = t
            /\ Call(u.value, w, t, d).depth = d
        BY <3>1, <3>2, CallIn
      <4> HIDE DEF x, y, path, d, max
      <4>2. QED
        BY <1>4, <3>2, <3>4, <3>5, <4>1
    <3>6. x.type = y.type
      BY <3>3 DEF SameParts
    <3>7. CASE x.type = "object"
      <4> DEFINE old == Normalized(x.fields, settings)
                 new == Normalized(y.fields, settings)
                 At(k) == Append(path, Key(k))
      <4>1. DOMAIN old = DOMAIN new /\ \A k \in DOMAIN old : S[Pair(old[k], new[k], At(k))]
        BY <3>3, <3>7 DEF SameParts
      <4>2. ASSUME NEW k \in DOMAIN old PROVE D[Call(old[k], new[k], At(k), d)] = {}
        <5>1. k \in STRING /\ (\E u \in Children(x) : u.value = old[k])
          BY <3>2, <3>7, FieldsBelow
        <5>2. new[k] \in Values(a)
          BY <3>1, <3>6, <3>7, <4>1, FieldsInside
        <5>3. At(k) \in Path
          BY <3>1, <5>1, SegmentForms, LongerPath
        <5> HIDE DEF x, y, path, d, old, new, At
        <5>4. QED
          BY <3>5, <4>1, <5>1, <5>2, <5>3
      <4>3. SilentParts(D, c, settings)
        BY <3>4, <3>6, <3>7, <4>1, <4>2 DEF SilentParts
      <4>4. QED
        BY <1>1, <4>3
    <3>8. CASE x.type = "array"
      <4> DEFINE n == Len(x.items)
                 m == Len(y.items)
                 At(i) == Append(path, Index(i))
      <4>1. /\ n \in Nat /\ m \in Nat /\ DOMAIN x.items = 1..n /\ DOMAIN y.items = 1..m
            /\ \A i \in 1..n : /\ i \in Nat /\ x.items[i] \in Values(e)
                               /\ \E u \in Children(x) : u.value = x.items[i]
            /\ \A j \in 1..m : y.items[j] \in Values(a)
        BY <3>1, <3>2, <3>6, <3>8, ItemsBelow, ItemsInside
      <4>2. ASSUME NEW i \in 1..n, NEW j \in 1..m, NEW t \in Path, S[Pair(x.items[i], y.items[j], t)]
            PROVE  D[Call(x.items[i], y.items[j], t, d)] = {}
        <5>1. PICK u \in Children(x) : u.value = x.items[i]
          BY <4>1
        <5> HIDE DEF x, y, path, d, n, m
        <5>2. QED
          BY <3>5, <4>1, <4>2, <5>1
      <4>3. CASE path \in settings.setPaths
        <5> DEFINE fits == {q \in (1..n) \X (1..m) : D[Call(x.items[q[1]], y.items[q[2]], path, d)] = {}}
                   same == {q \in (1..n) \X (1..m) : S[Pair(x.items[q[1]], y.items[q[2]], path)]}
        <5>1. CanPair(same, n, m)
          BY <3>3, <3>6, <3>8, <4>1, <4>3 DEF SameParts
        <5>2. fits = same
          <6>1. ASSUME NEW q \in (1..n) \X (1..m)
                PROVE  D[Call(x.items[q[1]], y.items[q[2]], path, d)] = {}
                         <=> S[Pair(x.items[q[1]], y.items[q[2]], path)]
            <7>1. q[1] \in 1..n /\ q[2] \in 1..m
              OBVIOUS
            <7> DEFINE u == x.items[q[1]]
                       w == y.items[q[2]]
            <7>2. u \in Values(e) /\ w \in Values(a)
              BY <4>1, <7>1
            <7>3. ASSUME D[Call(u, w, path, d)] = {} PROVE S[Pair(u, w, path)]
              <8>1. Levels(u)[r] = {}
                BY <3>2, <4>1, <7>1
              <8>2. /\ Call(u, w, path, d) \in Calls(e, a) /\ Call(u, w, path, d).expected = u
                    /\ Call(u, w, path, d).actual = w /\ Call(u, w, path, d).path = path
                BY <3>1, <7>2, CallIn
              <8> HIDE DEF u, w, x, y, path, d
              <8>3. QED
                BY <1>9, <7>3, <8>1, <8>2
            <7>4. ASSUME S[Pair(u, w, path)] PROVE D[Call(u, w, path, d)] = {}
              <8> HIDE DEF x, y, path, d, n, m
              <8>1. QED
                BY <3>1, <4>2, <7>1, <7>4
            <7>5. QED
              BY <7>3, <7>4
          <6> HIDE DEF x, y, path, d, n, m
          <6>2. QED
            BY <6>1
        <5>3. Interchangeable(same)
          <6>1. ASSUME NEW q \in same, NEW p \in same, NEW s \in same, q[2] = p[2], p[1] = s[1]
                PROVE  <<q[1], s[2]>> \in same
            <7> DEFINE X == x.items[p[1]]
                       Z == x.items[q[1]]
                       Y == y.items[p[2]]
                       W == y.items[s[2]]
            <7>1. /\ p[1] \in 1..n /\ p[2] \in 1..m /\ q[1] \in 1..n /\ s[2] \in 1..m
                  /\ S[Pair(X, Y, path)] /\ S[Pair(Z, Y, path)] /\ S[Pair(X, W, path)]
              BY <6>1
            <7>2. X \in Values(e) /\ Z \in Values(e) /\ Y \in Values(a) /\ W \in Values(a) /\ Levels(X)[r] = {}
              BY <3>2, <4>1, <7>1
            <7>3. settings.epsilon = 0
              BY <4>3
            <7>4. S[Pair(Z, W, path)]
              <8> HIDE DEF X, Y, Z, W, path
              <8>1. QED
                BY <1>10, <3>1, <7>1, <7>2, <7>3
            <7>5. QED
              BY <7>1, <7>4
          <6> HIDE DEF same
          <6>2. QED
            BY <6>1 DEF Interchangeable
        <5>4. Missing(Match(fits, n, m)) = {} /\ Surplus(Match(fits, n, m), m) = {}
          <6>1. same \in SUBSET ((1..n) \X (1..m))
            OBVIOUS
          <6> HIDE DEF fits, same, n, m
          <6>2. QED
            BY <4>1, <5>1, <5>2, <5>3, <6>1, PairsNoSetDifference
        <5>5. SilentParts(D, c, settings)
          BY <3>4, <3>6, <3>8, <4>3, <5>4 DEF SilentParts
        <5>6. QED
          BY <1>1, <5>5
      <4>4. CASE path \notin settings.setPaths
        <5>1. n = m /\ \A i \in 1..n : S[Pair(x.items[i], y.items[i], At(i))]
          BY <3>3, <3>6, <3>8, <4>1, <4>4 DEF SameParts
        <5>2. ASSUME NEW i \in 1..n PROVE D[Call(x.items[i], y.items[i], At(i), d)] = {}
          <6>1. At(i) \in Path
            BY <3>1, <4>1, SegmentForms, LongerPath
          <6> HIDE DEF x, y, path, d, n, m, At
          <6>2. QED
            BY <4>2, <5>1, <6>1
        <5>3. SilentParts(D, c, settings)
          BY <3>4, <3>6, <3>8, <4>4, <5>1, <5>2 DEF SilentParts
        <5>4. QED
          BY <1>1, <5>3
      <4>5. QED
        BY <4>3, <4>4
    <3>9. CASE x.type = "number"
      <4>1. x = Number(x.num) /\ y = Number(y.num) /\ x.num \in Int /\ y.num \in Int
        BY <3>2, <3>6, <3>9, NumberNode
      <4>2. x.num - y.num \in (-settings.epsilon)..settings.epsilon
        BY <3>3, <3>9 DEF SameParts
      <4>3. Close(x, y, settings)
        <5> DEFINE i == x.num
                   j == y.num
        <5>1. i \in Int /\ j \in Int /\ i - j \in (-settings.epsilon)..settings.epsilon
              /\ x = Number(i) /\ y = Number(j)
          BY <4>1, <4>2
        <5> HIDE DEF i, j
        <5>2. Close(Number(i), Number(j), settings)
          BY <1>0, <5>1, CloseIs
        <5>3. QED
          BY <5>1, <5>2
      <4>4. SilentParts(D, c, settings)
        BY <3>4, <3>6, <3>9, <4>3 DEF SilentParts
      <4>5. QED
        BY <1>1, <4>4
    <3>10. CASE x.type \notin {"object", "array", "number"}
      <4>1. x = y
        BY <3>3, <3>10 DEF SameParts
      <4>2. SilentParts(D, c, settings)
        BY <3>4, <3>6, <3>10, <4>1 DEF SilentParts
      <4>3. QED
        BY <1>1, <4>2
    <3>11. QED
      BY <3>7, <3>8, <3>9, <3>10
  <2>2. QED
    BY <2>1
<1>5. Nat \subseteq T
  <2> HIDE DEF T
  <2>1. QED
    BY <1>3, <1>4, SetInduction
<1>6. QED
  BY <1>5 DEF D, S

\* A value is the same as itself.
LEMMA SameReflexive ==
  ASSUME NfcOfTexts, NEW e, IsBody(e), settings.epsilon \in Nat
  PROVE  \A r \in Nat : \A x \in Values(e), path \in Path :
           Levels(x)[r] = {} => Sameness(e, e)[Pair(x, x, path)]
<1> DEFINE S == Sameness(e, e)
           T == {r \in Nat : \A x \in Values(e), path \in Path : Levels(x)[r] = {} => S[Pair(x, x, path)]}
<1>1. ASSUME NEW x \in Values(e), NEW y \in Values(e), NEW path \in Path
      PROVE  S[Pair(x, y, path)] = SameParts(S, x, y, path)
  <2>1. \A q \in Pairs(e, e) : S[q] = SameParts(S, q.expected, q.actual, q.path)
    BY SameIs
  <2> HIDE DEF S
  <2>2. QED
    BY <2>1, PairIn
<1> HIDE DEF S
<1>2. 0 \in T
  BY LevelSteps
<1>3. ASSUME NEW r \in Nat, r \in T PROVE r + 1 \in T
  <2>1. ASSUME NEW x \in Values(e), NEW path \in Path, Levels(x)[r + 1] = {}
        PROVE  S[Pair(x, x, path)]
    <3>1. IsNode(x) /\ \A u \in Children(x) : u.value \in Values(e) /\ Levels(u.value)[r] = {}
      BY <2>1, ValueOf, ChildLower
    <3>2. ASSUME NEW u, \E c \in Children(x) : c.value = u, NEW t \in Path PROVE S[Pair(u, u, t)]
      BY <1>3, <3>1, <3>2
    <3>3. SameParts(S, x, x, path)
      <4>1. CASE x.type = "object"
        <5> DEFINE xs == Normalized(x.fields, settings)
        <5>1. ASSUME NEW k \in DOMAIN xs PROVE S[Pair(xs[k], xs[k], Append(path, Key(k)))]
          <6>1. k \in STRING /\ \E u \in Children(x) : u.value = xs[k]
            BY <3>1, <4>1, FieldsBelow
          <6>2. Append(path, Key(k)) \in Path
            BY <6>1, SegmentForms, LongerPath
          <6> HIDE DEF xs
          <6>3. QED
            BY <3>2, <6>1, <6>2
        <5>2. QED
          BY <4>1, <5>1 DEF SameParts
      <4>2. CASE x.type = "array"
        <5> DEFINE n == Len(x.items)
        <5>1. /\ n \in Nat /\ DOMAIN x.items = 1..n
              /\ \A i \in 1..n : i \in Nat /\ \E u \in Children(x) : u.value = x.items[i]
          BY <3>1, <4>2, ItemsBelow
        <5>2. \A i \in 1..n, t \in Path : S[Pair(x.items[i], x.items[i], t)]
          <6> HIDE DEF n
          <6>1. QED
            BY <3>2, <5>1
        <5>3. CASE path \in settings.setPaths
          <6> DEFINE same == {q \in (1..n) \X (1..n) : S[Pair(x.items[q[1]], x.items[q[2]], path)]}
                     pairing == [i \in 1..n |-> i]
          <6>1. pairing \in [1..n -> 1..n] /\ \A i, k \in 1..n : pairing[i] = pairing[k] => i = k
            OBVIOUS
          <6>2. \A i \in 1..n : <<i, pairing[i]>> \in same
            BY <5>2
          <6>3. CanPair(same, n, n)
            <7> HIDE DEF pairing, same, n
            <7>1. QED
              BY <6>1, <6>2 DEF CanPair
          <6>4. QED
            BY <4>2, <5>1, <5>3, <6>3 DEF SameParts
        <5>4. CASE path \notin settings.setPaths
          <6>1. \A i \in 1..n : Append(path, Index(i)) \in Path
            BY <5>1, SegmentForms, LongerPath
          <6>2. \A i \in 1..n : S[Pair(x.items[i], x.items[i], Append(path, Index(i)))]
            BY <5>2, <6>1
          <6>3. QED
            BY <4>2, <5>1, <5>4, <6>2 DEF SameParts
        <5>5. QED
          BY <5>3, <5>4
      <4>3. CASE x.type = "number"
        <5>1. x.num \in Int
          BY <3>1, <4>3, NumberNode
        <5>2. x.num - x.num \in (-settings.epsilon)..settings.epsilon
          BY <5>1
        <5>3. QED
          BY <4>3, <5>2 DEF SameParts
      <4>4. CASE x.type \notin {"object", "array", "number"}
        BY <4>4 DEF SameParts
      <4>5. QED
        BY <4>1, <4>2, <4>3, <4>4
    <3>4. QED
      BY <1>1, <3>3
  <2>2. QED
    BY <2>1
<1>4. Nat \subseteq T
  <2> HIDE DEF T
  <2>1. QED
    BY <1>2, <1>3, SetInduction
<1>5. QED
  BY <1>4 DEF S

\* A body that is shallow has nothing below the largest depth.
LEMMA ShallowLevels ==
  ASSUME NEW v, IsBody(v), NEW max \in Nat, \A p \in Positions(v) : Len(p.path) <= max
  PROVE  Levels(v)[max + 1] = {}
<1> SUFFICES ASSUME NEW p \in Levels(v)[max + 1] PROVE FALSE
  OBVIOUS
<1>1. max + 1 \in Nat /\ p \in Positions(v)
  BY BodyPositions
<1>2. Len(p.path) = max + 1
  BY <1>1, LevelPositions DEF IsPosition
<1>3. QED
  BY <1>1, <1>2

\* The first call.
LEMMA RootCall ==
  ASSUME NEW e, IsBody(e), NEW a, IsBody(a)
  PROVE  /\ <<>> \in Path /\ e \in Values(e) /\ a \in Values(a)
         /\ Call(e, a, <<>>, 0) \in Calls(e, a)
         /\ Call(e, a, <<>>, 0).expected = e /\ Call(e, a, <<>>, 0).actual = a
         /\ Call(e, a, <<>>, 0).path = <<>> /\ Call(e, a, <<>>, 0).depth = 0
<1>1. <<>> \in Path
  BY DEF Path
<1>2. e \in Values(e) /\ a \in Values(a)
  BY BodyPositions
<1>3. QED
  BY <1>1, <1>2, CallIn

\* differ.rs:93: no difference is found exactly in bodies that agree.
LEMMA NoDifference ==
  ASSUME NfcOfTexts, EngineIInv
  PROVE  NoDifferenceIffSame
<1> SUFFICES ASSUME Tested PROVE NoDifferenceIffSame
  BY DEF NoDifferenceIffSame
<1> DEFINE e == stored
           a == Actual
           root == Call(e, a, <<>>, 0)
           max == settings.maxDepth
<1>1. /\ IsSettings(settings) /\ max \in Nat /\ settings.epsilon \in Nat
      /\ IsBody(e) /\ IsBody(a) /\ report = CompareJsonAst(e, a, settings)
  <2>1. /\ settings \in Settings /\ recorded \in Bodies /\ answered \in Bodies
        /\ stored = MaskValue(recorded, settings) /\ Actual = MaskValue(answered, settings)
        /\ report = CompareJsonAst(stored, Actual, settings)
    BY DEF EngineIInv, Tested, Actual
  <2>2. IsSettings(settings) /\ IsBody(recorded) /\ IsBody(answered)
    BY <2>1, EngineAssumption
  <2>3. settings.maxDepth \in Nat /\ settings.epsilon \in Nat
    BY <2>2 DEF IsSettings
  <2>4. IsBody(stored) /\ IsBody(Actual)
    BY <2>1, <2>2, <2>3, MaskedBody
  <2>5. QED
    BY <2>1, <2>2, <2>3, <2>4
<1>2. report = IF e = a THEN {} ELSE Diff(e, a, settings)[root]
  BY <1>1 DEF CompareJsonAst
<1> HIDE DEF e, a
<1>3. /\ <<>> \in Path /\ e \in Values(e) /\ a \in Values(a)
      /\ root \in Calls(e, a) /\ root.expected = e /\ root.actual = a
      /\ root.path = <<>> /\ root.depth = 0
  BY <1>1, RootCall
<1>4. Nesting + 1 \in Nat /\ Levels(e)[Nesting + 1] = {}
  BY <1>1, NestingAssumption DEF IsBody
<1> HIDE DEF root, max
<1>5. report = {} => Sameness(e, a)[Pair(e, a, <<>>)]
  <2>1. CASE e = a
    <3>1. Sameness(e, e)[Pair(e, e, <<>>)]
      BY <1>1, <1>3, <1>4, SameReflexive
    <3>2. QED
      BY <2>1, <3>1
  <2>2. CASE e # a /\ Diff(e, a, settings)[root] = {}
    BY <1>1, <1>3, <1>4, <2>2, SilentSame
  <2>3. QED
    BY <1>2, <2>1, <2>2
<1>6. ASSUME Sameness(e, a)[Pair(e, a, <<>>)], settings.epsilon = 0 \/ settings.setPaths = {},
             \A p \in Positions(e) : Len(p.path) <= max
      PROVE  report = {}
  <2>1. Levels(e)[max + 1] = {} /\ max + 1 \in Nat
    <3>1. max \in Nat /\ IsBody(e)
      BY <1>1
    <3>2. Levels(e)[max + 1] = {}
      BY <1>6, <3>1, ShallowLevels
    <3>3. QED
      BY <3>1, <3>2
  <2>2. root.depth + (max + 1) <= settings.maxDepth + 1
    BY <1>1, <1>3 DEF max
  <2>3. Diff(e, a, settings)[root] = {}
    BY <1>1, <1>3, <1>6, <2>1, <2>2, SameSilent
  <2>4. QED
    BY <1>2, <2>3
<1>7. QED
  BY <1>5, <1>6 DEF NoDifferenceIffSame, Same, Shallow, e, a, max

\* differ.rs:129: a test finds no difference only in bodies that agree, and, unless sets are
\* matched under a tolerance or a position lies too deep, it finds none in all of those,
\* whatever the bodies and the settings are.
THEOREM EngineNoDifferenceIffSame ==
  ASSUME NfcOfTexts
  PROVE  EngineSpec => []NoDifferenceIffSame
<1>1. EngineIInv => NoDifferenceIffSame
  BY NoDifference
<1>2. QED
  BY <1>1, EngineIInvInit, EngineIInvStep, PTL DEF EngineSpec

-----------------------------------------------------------------------------
(* What is found is a difference. *)

\* The normal form of a segment.
NormalSegment(s) == IF IsKey(s) /\ settings.nfc THEN Key(Nfc(s.key)) ELSE s

\* What a body holds where the normal path leads.
Held(v, path) == {p.value : p \in {q \in Positions(v) : NormalPath(q.path) = path}}

\* A difference is what it says it is.
Real(d, e, a) ==
  /\ d.kind \in {"modified", "type", "length"} =>
       d.old \in Held(e, d.path) /\ d.new \in Held(a, d.path) /\ ~Same(d.old, d.new, d.path)
  /\ d.kind = "removed" /\ ~(AnyIndex \in {d.path[i] : i \in DOMAIN d.path}) =>
       d.old \in Held(e, d.path) /\ (Apart(a) => Held(a, d.path) = {})
  /\ d.kind = "added" /\ ~(AnyIndex \in {d.path[i] : i \in DOMAIN d.path}) =>
       d.new \in Held(a, d.path) /\ (Apart(e) => Held(e, d.path) = {})

\* The normal form of a longer path.
LEMMA NormalAppend ==
  ASSUME NEW path \in Path, NEW s \in Segment
  PROVE  NormalPath(Append(path, s)) = Append(NormalPath(path), NormalSegment(s))
<1> DEFINE n == Len(path)
           N(x) == NormalSegment(x)
           long == Append(path, s)
           short == NormalPath(path)
<1>1. n \in Nat /\ path \in Seq(Segment) /\ long \in Seq(Segment) /\ Len(long) = n + 1
  BY DEF Path
<1>2. short = [i \in 1..n |-> N(path[i])]
  BY <1>1 DEF NormalPath, NormalSegment
<1>3. NormalPath(long) = [i \in 1..(n + 1) |-> N(long[i])]
  BY <1>1 DEF NormalPath, NormalSegment
<1>4. \A i \in 1..n : long[i] = path[i]
  BY <1>1
<1>5. long[n + 1] = s
  BY <1>1
<1> DEFINE R == {N(path[i]) : i \in 1..n}
<1> HIDE DEF N, long, short, R
<1>6. short \in Seq(R) /\ Len(short) = n
  <2>1. \A i \in 1..n : N(path[i]) \in R
    BY DEF R
  <2>2. short \in [1..n -> R]
    BY <1>2, <2>1
  <2>3. QED
    BY <1>1, <1>2, <2>2
<1>7. Append(short, N(s)) = [i \in 1..(n + 1) |-> IF i = n + 1 THEN N(s) ELSE short[i]]
  <2> DEFINE x == N(s)
             Q == R \cup {x}
             ap == Append(short, x)
  <2>1. short \in Seq(Q) /\ x \in Q
    BY <1>6
  <2> HIDE DEF n, x, Q
  <2>2. ap \in Seq(Q) /\ Len(ap) = n + 1 /\ ap[n + 1] = x /\ \A i \in 1..n : ap[i] = short[i]
    BY <1>6, <2>1
  <2> HIDE DEF ap
  <2>3. n \in Nat /\ ap = [i \in 1..(n + 1) |-> ap[i]]
    BY <1>1, <2>2 DEF n
  <2>4. \A i \in 1..(n + 1) : i = n + 1 \/ (i # n + 1 /\ i \in 1..n)
    BY <2>3
  <2>5. \A i \in 1..(n + 1) : ap[i] = IF i = n + 1 THEN x ELSE short[i]
    BY <2>2, <2>4
  <2>6. ap = [i \in 1..(n + 1) |-> IF i = n + 1 THEN x ELSE short[i]]
    BY <2>3, <2>5
  <2>7. QED
    BY <2>6 DEF ap, x
<1>8. \A i \in 1..(n + 1) : N(long[i]) = IF i = n + 1 THEN N(s) ELSE short[i]
  <2>1. \A i \in 1..(n + 1) : i = n + 1 \/ (i # n + 1 /\ i \in 1..n)
    BY <1>1
  <2> HIDE DEF n
  <2>2. QED
    BY <1>2, <1>4, <1>5, <2>1
<1>9. NormalPath(long) = Append(short, N(s))
  BY <1>3, <1>7, <1>8
<1>10. QED
  BY <1>9 DEF long, short, N

\* The normal forms of paths and of their segments.
LEMMA NormalTyped ==
  ASSUME NfcOfTexts
  PROVE  /\ NormalPath(<<>>) = <<>>
         /\ \A s \in Segment : NormalSegment(s) \in Segment
         /\ \A path \in Path : NormalPath(path) \in Path /\ Len(NormalPath(path)) = Len(path)
         /\ \A k \in STRING : NormalSegment(Key(k)) = Key(NormalKey(k, settings))
         /\ \A i \in Nat : NormalSegment(Index(i)) = Index(i)
<1>1. NormalPath(<<>>) = <<>>
  BY DEF NormalPath
<1>2. ASSUME NEW s \in Segment PROVE NormalSegment(s) \in Segment
  <2>1. ASSUME IsKey(s) PROVE s.key \in STRING
    <3>1. CASE s \in [key : STRING]
      BY <3>1
    <3>2. CASE s \in [index : Nat]
      BY <2>1, <3>2 DEF IsKey
    <3>3. CASE s = AnyIndex
      BY <2>1, <3>3, SegmentForms
    <3>4. QED
      BY <3>1, <3>2, <3>3 DEF Segment
  <2>2. QED
    BY <2>1, SegmentForms DEF NormalSegment, NfcOfTexts
<1>3. ASSUME NEW path \in Path PROVE NormalPath(path) \in Path /\ Len(NormalPath(path)) = Len(path)
  <2>1. Len(path) \in Nat /\ DOMAIN path = 1..Len(path) /\ \A i \in DOMAIN path : path[i] \in Segment
    BY DEF Path
  <2>2. NormalPath(path) = [i \in 1..Len(path) |-> NormalSegment(path[i])]
    BY <2>1 DEF NormalPath, NormalSegment
  <2>3. NormalPath(path) \in [1..Len(path) -> Segment]
    BY <1>2, <2>1, <2>2
  <2>4. QED
    BY <2>1, <2>2, <2>3 DEF Path
<1>4. \A k \in STRING : NormalSegment(Key(k)) = Key(NormalKey(k, settings))
  BY SegmentForms DEF NormalSegment, NormalKey
<1>5. \A i \in Nat : NormalSegment(Index(i)) = Index(i)
  BY SegmentForms DEF NormalSegment
<1>6. QED
  BY <1>1, <1>2, <1>3, <1>4, <1>5

\* What a held value holds is held one segment further.
LEMMA HeldBelow ==
  ASSUME NEW v, IsBody(v), NEW path, NEW x \in Held(v, path), NEW c \in Children(x)
  PROVE  c.value \in Held(v, Append(path, NormalSegment(c.segment)))
<1>1. PICK p \in Positions(v) : NormalPath(p.path) = path /\ p.value = x
  BY DEF Held
<1> DEFINE o == Position(Append(p.path, c.segment), c.value)
<1>2. PICK n \in Nat : p \in Levels(v)[n]
  BY BodyPositions
<1>3. o \in Levels(v)[n + 1]
  BY <1>1, <1>2, LevelSteps DEF Lower, Below
<1>4. o \in Positions(v) /\ o.path = Append(p.path, c.segment) /\ o.value = c.value
  <2>1. o.path = Append(p.path, c.segment) /\ o.value = c.value
    BY Fields
  <2> HIDE DEF o
  <2>2. n + 1 \in Nat /\ Levels(v)[n + 1] \subseteq Positions(v)
    BY BodyPositions
  <2>3. QED
    BY <1>3, <2>1, <2>2
<1>5. p.path \in Path /\ x \in Values(v)
  BY <1>1, BodyPaths
<1>6. c.segment \in Segment
  BY <1>5, ValueOf, ChildSegments
<1>7. NormalPath(o.path) = Append(path, NormalSegment(c.segment))
  <2>1. NormalPath(Append(p.path, c.segment)) = Append(NormalPath(p.path), NormalSegment(c.segment))
    BY <1>5, <1>6, NormalAppend
  <2>2. QED
    BY <1>1, <1>4, <2>1
<1> HIDE DEF o
<1>8. QED
  BY <1>4, <1>7 DEF Held

\* Where positions are apart, nothing else is held below.
LEMMA HeldAbove ==
  ASSUME NfcOfTexts, NEW v, IsBody(v), Apart(v), NEW path \in Path, NEW x \in Held(v, path), NEW s \in Segment,
         NEW w \in Held(v, Append(path, s))
  PROVE  \E c \in Children(x) : c.value = w /\ NormalSegment(c.segment) = s
<1>1. PICK p \in Positions(v) : NormalPath(p.path) = path /\ p.value = x
  BY DEF Held
<1>2. PICK q \in Positions(v) : NormalPath(q.path) = Append(path, s) /\ q.value = w
  BY DEF Held
<1>3. p.path \in Path /\ q.path \in Path /\ Len(q.path) \in Nat /\ q \in Levels(v)[Len(q.path)]
  BY BodyPaths
<1>4. Len(q.path) = Len(path) + 1 /\ Len(path) \in Nat
  <2> DEFINE t == q.path
  <2>1. t \in Path /\ NormalPath(t) = Append(path, s)
    BY <1>2, <1>3
  <2> HIDE DEF t
  <2>2. Len(t) = Len(Append(path, s))
    BY <2>1, NormalTyped
  <2>3. Len(t) = Len(path) + 1 /\ Len(path) \in Nat
    BY <2>2, LongerPath
  <2>4. QED
    BY <2>3 DEF t
<1>5. PICK o \in Levels(v)[Len(path)] : q \in Below(o)
  BY <1>3, <1>4, LevelSteps DEF Lower
<1>6. PICK c \in Children(o.value) : q = Position(Append(o.path, c.segment), c.value)
  BY <1>5 DEF Below
<1>7. o \in Positions(v) /\ o.path \in Path /\ o.value \in Values(v)
  BY <1>4, <1>5, BodyPositions, BodyPaths
<1>8. c.segment \in Segment
  BY <1>7, ValueOf, ChildSegments
<1>9. NormalPath(o.path) = path /\ NormalSegment(c.segment) = s
  <2> DEFINE t == NormalPath(o.path)
             u == NormalSegment(c.segment)
  <2>1. t \in Path /\ u \in Segment
    BY <1>7, <1>8, NormalTyped
  <2>2. NormalPath(Append(o.path, c.segment)) = Append(t, u)
    BY <1>7, <1>8, NormalAppend
  <2>3. q.path = Append(o.path, c.segment)
    BY <1>6, Fields
  <2>4. Append(t, u) = Append(path, s)
    BY <1>2, <2>2, <2>3
  <2> HIDE DEF t, u
  <2>5. t = path /\ u = s
    BY <2>1, <2>4 DEF Path
  <2>6. QED
    BY <2>5 DEF t, u
<1>10. o = p
  BY <1>1, <1>7, <1>9 DEF Apart
<1>11. QED
  BY <1>1, <1>2, <1>6, <1>9, <1>10, Fields

\* What is held is a part of the body.
LEMMA HeldValue ==
  ASSUME NEW v, IsBody(v), NEW path, NEW x \in Held(v, path)
  PROVE  x \in Values(v) /\ IsNode(x)
<1>1. x \in Values(v)
  BY DEF Held, Values
<1>2. QED
  BY <1>1, ValueOf

\* The fields of a held object are held under their normal keys, and no others are.
LEMMA FieldHeld ==
  ASSUME NfcOfTexts, NEW v, IsBody(v), NEW path, NEW x \in Held(v, path), x.type = "object",
         NEW k \in DOMAIN Normalized(x.fields, settings)
  PROVE  k \in STRING /\ Normalized(x.fields, settings)[k] \in Held(v, Append(path, Key(k)))
<1> DEFINE fields == x.fields
<1> HIDE DEF fields
<1>1. \E l \in DOMAIN fields : Normalized(fields, settings)[k] = fields[l] /\ NormalKey(l, settings) = k
  BY NormalizedFrom DEF fields
<1>2. PICK l \in DOMAIN fields : Normalized(fields, settings)[k] = fields[l] /\ NormalKey(l, settings) = k
  BY <1>1
<1> DEFINE c == [segment |-> Key(l), value |-> fields[l]]
<1>3. l \in STRING /\ c \in Children(x) /\ c.value = fields[l] /\ c.segment = Key(l)
  BY HeldValue, FieldOf DEF fields
<1>4. k \in STRING /\ NormalSegment(Key(l)) = Key(k)
  <2>1. NormalSegment(Key(l)) = Key(NormalKey(l, settings))
    BY <1>3, NormalTyped
  <2>2. QED
    BY <1>2, <1>3, <2>1 DEF NormalKey, NfcOfTexts
<1> HIDE DEF c
<1>5. c.value \in Held(v, Append(path, NormalSegment(c.segment)))
  BY <1>3, HeldBelow
<1>6. QED
  BY <1>2, <1>3, <1>4, <1>5 DEF fields

\* Where positions are apart, nothing is held under another key.
LEMMA FieldGone ==
  ASSUME NfcOfTexts, NEW v, IsBody(v), Apart(v), NEW path \in Path, NEW x \in Held(v, path), x.type = "object",
         NEW k \in STRING, k \notin DOMAIN Normalized(x.fields, settings)
  PROVE  Held(v, Append(path, Key(k))) = {}
<1> SUFFICES ASSUME NEW w \in Held(v, Append(path, Key(k))) PROVE FALSE
  OBVIOUS
<1>1. Key(k) \in Segment
  BY SegmentForms
<1>2. \E c \in Children(x) : c.value = w /\ NormalSegment(c.segment) = Key(k)
  BY <1>1, HeldAbove
<1>3. PICK c \in Children(x) : NormalSegment(c.segment) = Key(k)
  BY <1>2
<1>4. PICK l \in DOMAIN x.fields : c = [segment |-> Key(l), value |-> x.fields[l]]
  BY ChildForms
<1>5. l \in STRING /\ c.segment = Key(l)
  BY <1>4, HeldValue, FieldOf
<1>6. Key(NormalKey(l, settings)) = Key(k)
  BY <1>3, <1>5, NormalTyped
<1>7. NormalKey(l, settings) = k
  <2> DEFINE j == NormalKey(l, settings)
  <2>1. Key(j) = Key(k)
    BY <1>6
  <2> HIDE DEF j
  <2>2. j = k
    BY <2>1, SegmentForms
  <2>3. QED
    BY <2>2 DEF j
<1>8. DOMAIN Normalized(x.fields, settings) = {NormalKey(h, settings) : h \in DOMAIN x.fields}
  BY NormalizedIs
<1>9. QED
  BY <1>7, <1>8

\* The items of a held array are held under their indices, ...
LEMMA ItemHeld ==
  ASSUME NfcOfTexts, NEW v, IsBody(v), NEW path, NEW x \in Held(v, path), x.type = "array",
         NEW i \in 1..Len(x.items)
  PROVE  i \in Nat /\ x.items[i] \in Held(v, Append(path, Index(i)))
<1> DEFINE c == [segment |-> Index(i), value |-> x.items[i]]
<1>1. i \in Nat /\ c \in Children(x) /\ c.segment = Index(i) /\ c.value = x.items[i]
  BY HeldValue, ItemOf
<1>2. NormalSegment(Index(i)) = Index(i)
  BY <1>1, NormalTyped
<1> HIDE DEF c
<1>3. c.value \in Held(v, Append(path, NormalSegment(c.segment)))
  BY <1>1, HeldBelow
<1>4. QED
  BY <1>1, <1>2, <1>3

\* ... and where positions are apart, nothing is held under another.
LEMMA ItemGone ==
  ASSUME NfcOfTexts, NEW v, IsBody(v), Apart(v), NEW path \in Path, NEW x \in Held(v, path), x.type = "array",
         NEW i \in Nat, i \notin 1..Len(x.items)
  PROVE  Held(v, Append(path, Index(i))) = {}
<1> SUFFICES ASSUME NEW w \in Held(v, Append(path, Index(i))) PROVE FALSE
  OBVIOUS
<1>1. Index(i) \in Segment
  BY SegmentForms
<1>2. \E c \in Children(x) : c.value = w /\ NormalSegment(c.segment) = Index(i)
  BY <1>1, HeldAbove
<1>3. PICK c \in Children(x) : NormalSegment(c.segment) = Index(i)
  BY <1>2
<1>4. PICK j \in DOMAIN x.items : c = [segment |-> Index(j), value |-> x.items[j]]
  BY ChildForms
<1>5. DOMAIN x.items = 1..Len(x.items) /\ j \in Nat /\ c.segment = Index(j)
  BY <1>4, HeldValue, ItemOf
<1>6. Index(j) = Index(i)
  BY <1>3, <1>5, NormalTyped
<1>7. j = i
  BY <1>6, SegmentForms
<1>8. QED
  BY <1>5, <1>7

\* What a difference is made of.
LEMMA DifferenceIs ==
  ASSUME NEW kind, NEW path, NEW old, NEW new
  PROVE  /\ Difference(kind, path, old, new).kind = kind /\ Difference(kind, path, old, new).path = path
         /\ Difference(kind, path, old, new).old = old /\ Difference(kind, path, old, new).new = new
BY DEF Difference

\* Two held values that are no parts of the same are a difference.
LEMMA HeldReal ==
  ASSUME NfcOfTexts, NEW e, IsBody(e), NEW a, IsBody(a), NEW path \in Path,
         NEW x \in Held(e, path), NEW y \in Held(a, path), NEW kind \in {"modified", "type", "length", "depth"},
         kind # "depth" => \A f : ~SameParts(f, x, y, path)
  PROVE  Real(Difference(kind, path, x, y), e, a)
<1>1. IsBody(x) /\ IsBody(y)
  BY HeldValue, ValueOf
<1>2. ASSUME kind # "depth" PROVE ~Same(x, y, path)
  <2>1. x \in Values(x) /\ y \in Values(y)
    BY <1>1, BodyPositions
  <2>2. Pair(x, y, path) \in Pairs(x, y) /\ Pair(x, y, path).expected = x
        /\ Pair(x, y, path).actual = y /\ Pair(x, y, path).path = path
    BY <2>1, PairIn
  <2>3. Sameness(x, y)[Pair(x, y, path)] = SameParts(Sameness(x, y), x, y, path)
    BY <1>1, <2>2, SameIs
  <2>4. QED
    BY <1>2, <2>3 DEF Same
<1>3. QED
  BY <1>2, DifferenceIs DEF Real

\* differ.rs:213: the differences of sets are not told by their positions.
LEMMA SetReal ==
  ASSUME NEW e, NEW a, NEW path \in Path, NEW kind \in {"removed", "added"}, NEW old, NEW new
  PROVE  Real(Difference(kind, Append(path, AnyIndex), old, new), e, a)
<1> DEFINE long == Append(path, AnyIndex)
<1>1. AnyIndex \in Segment
  BY SegmentForms
<1>2. Len(path) \in Nat /\ long \in Seq(Segment) /\ Len(long) = Len(path) + 1
  BY <1>1, LongerPath DEF Path
<1>3. long[Len(path) + 1] = AnyIndex
  BY <1>1 DEF Path
<1>4. Len(path) + 1 \in DOMAIN long
  BY <1>2
<1>5. AnyIndex \in {long[i] : i \in DOMAIN long}
  BY <1>3, <1>4
<1> HIDE DEF long
<1>6. Real(Difference(kind, long, old, new), e, a)
  BY <1>5, DifferenceIs DEF Real
<1>7. QED
  BY <1>6 DEF long

\* What a call finds.
LEMMA DiffCases ==
  ASSUME NEW diff, NEW c, NEW options, c.depth \in Nat, options.maxDepth \in Nat
  PROVE  LET One(kind) == {Difference(kind, c.path, c.expected, c.actual)}
             found == DiffCall(diff, c, options)
         IN  /\ c.depth > options.maxDepth => found = One("depth")
             /\ c.depth <= options.maxDepth /\ c.expected.type # c.actual.type => found = One("type")
             /\ c.depth <= options.maxDepth /\ c.expected.type = c.actual.type =>
                  /\ c.expected.type = "object" => found = DiffObjects(diff, c, options)
                  /\ c.expected.type = "array" /\ c.path \in options.setPaths => found = DiffAsSet(diff, c)
                  /\ c.expected.type = "array" /\ c.path \notin options.setPaths => found = DiffOrdered(diff, c)
                  /\ c.expected.type = "number" =>
                       found = IF Close(c.expected, c.actual, options) THEN {} ELSE One("modified")
                  /\ c.expected.type \notin {"object", "array", "number"} =>
                       found = IF c.expected = c.actual THEN {} ELSE One("modified")
<1>1. c.depth > options.maxDepth => DiffCall(diff, c, options) = {Difference("depth", c.path, c.expected, c.actual)}
  BY DEF DiffCall
<1>2. c.depth <= options.maxDepth => ~(c.depth > options.maxDepth)
  OBVIOUS
<1>3. c.depth <= options.maxDepth /\ c.expected.type # c.actual.type =>
        DiffCall(diff, c, options) = {Difference("type", c.path, c.expected, c.actual)}
  BY <1>2 DEF DiffCall
<1>4. QED
  BY <1>1, <1>2, <1>3 DEF DiffCall

\* differ.rs:129: whatever a call on held values finds is real.
LEMMA FindsReal ==
  ASSUME NfcOfTexts, NEW e, IsBody(e), NEW a, IsBody(a), IsSettings(settings)
  PROVE  \A r \in Nat : \A c \in Calls(e, a) :
           /\ c.depth + r > settings.maxDepth
           /\ c.expected \in Held(e, c.path) /\ c.actual \in Held(a, c.path)
           => \A d \in Diff(e, a, settings)[c] : Real(d, e, a)
<1> DEFINE D == Diff(e, a, settings)
           max == settings.maxDepth
           T == {r \in Nat : \A c \in Calls(e, a) :
                   c.depth + r > max /\ c.expected \in Held(e, c.path) /\ c.actual \in Held(a, c.path)
                     => \A d \in D[c] : Real(d, e, a)}
<1>0. max \in Nat /\ settings.epsilon \in Nat
  BY DEF IsSettings
<1>1. \A c \in Calls(e, a) : D[c] = DiffCall(D, c, settings)
  BY <1>0, DiffIs
<1> HIDE DEF D
<1>2. ASSUME NEW c \in Calls(e, a), c.depth > max, c.expected \in Held(e, c.path), c.actual \in Held(a, c.path)
      PROVE  \A d \in D[c] : Real(d, e, a)
  <2>4. c.depth \in Nat /\ D[c] = DiffCall(D, c, settings)
    BY <1>1, CallTypes
  <2>1. D[c] = {Difference("depth", c.path, c.expected, c.actual)}
    BY <1>0, <1>2, <2>4, DiffCases
  <2>2. c.path \in Path
    BY CallTypes
  <2>3. Real(Difference("depth", c.path, c.expected, c.actual), e, a)
    BY <1>2, <2>2, HeldReal
  <2>5. QED
    BY <2>1, <2>3
<1>3. 0 \in T
  <2>1. ASSUME NEW c \in Calls(e, a), c.depth + 0 > max PROVE c.depth > max
    BY <2>1, CallTypes
  <2>2. QED
    BY <1>2, <2>1
<1>4. ASSUME NEW r \in Nat, r \in T PROVE r + 1 \in T
  <2>1. ASSUME NEW c \in Calls(e, a), c.depth + (r + 1) > max,
               c.expected \in Held(e, c.path), c.actual \in Held(a, c.path), NEW d \in D[c]
        PROVE  Real(d, e, a)
    <3> DEFINE x == c.expected
               y == c.actual
               path == c.path
               deeper == c.depth + 1
    <3>1. x \in Values(e) /\ y \in Values(a) /\ path \in Path /\ c.depth \in Nat /\ deeper \in Nat
      BY CallTypes
    <3>2. IsNode(x) /\ IsNode(y) /\ x \in Held(e, path) /\ y \in Held(a, path)
      BY <2>1, HeldValue
    <3>3. ASSUME NEW t \in Path, NEW u \in Held(e, t), NEW w \in Held(a, t), d \in D[Call(u, w, t, deeper)]
          PROVE  Real(d, e, a)
      <4>1. u \in Values(e) /\ w \in Values(a)
        BY HeldValue
      <4>2. /\ Call(u, w, t, deeper) \in Calls(e, a) /\ Call(u, w, t, deeper).expected = u
            /\ Call(u, w, t, deeper).actual = w /\ Call(u, w, t, deeper).path = t
            /\ Call(u, w, t, deeper).depth = deeper
        BY <3>1, <4>1, CallIn
      <4>3. deeper + r > max
        BY <1>0, <2>1, <3>1
      <4> HIDE DEF deeper, max
      <4>4. QED
        BY <1>4, <3>3, <4>2, <4>3
    <3>11. D[c] = DiffCall(D, c, settings)
      BY <1>1
    <3>4. CASE c.depth > max
      BY <1>2, <2>1, <3>4
    <3>5. CASE c.depth <= max /\ x.type # y.type
      <4>1. d = Difference("type", path, x, y)
        BY <1>0, <2>1, <3>1, <3>5, <3>11, DiffCases
      <4>2. \A f : ~SameParts(f, x, y, path)
        BY <3>5 DEF SameParts
      <4>3. QED
        BY <3>1, <3>2, <4>1, <4>2, HeldReal
    <3>6. CASE c.depth <= max /\ x.type = y.type /\ x.type = "object"
      <4> DEFINE old == Normalized(x.fields, settings)
                 new == Normalized(y.fields, settings)
                 At(k) == Append(path, Key(k))
      <4>0. d \in DiffObjects(D, c, settings)
        BY <1>0, <2>1, <3>1, <3>6, <3>11, DiffCases
      <4>1. \/ \E k \in DOMAIN old \ DOMAIN new : d = Difference("removed", At(k), old[k], Nothing)
            \/ \E k \in DOMAIN new \ DOMAIN old : d = Difference("added", At(k), Nothing, new[k])
            \/ \E k \in DOMAIN old \cap DOMAIN new : d \in D[Call(old[k], new[k], At(k), deeper)]
        BY <4>0 DEF DiffObjects
      <4>2. ASSUME NEW k \in DOMAIN old PROVE k \in STRING /\ old[k] \in Held(e, At(k)) /\ At(k) \in Path
        <5>1. k \in STRING /\ old[k] \in Held(e, At(k))
          BY <3>2, <3>6, FieldHeld
        <5>2. At(k) \in Path
          BY <3>1, <5>1, SegmentForms, LongerPath
        <5>3. QED
          BY <5>1, <5>2
      <4>3. ASSUME NEW k \in DOMAIN new PROVE k \in STRING /\ new[k] \in Held(a, At(k)) /\ At(k) \in Path
        <5>1. k \in STRING /\ new[k] \in Held(a, At(k))
          BY <3>2, <3>6, FieldHeld
        <5>2. At(k) \in Path
          BY <3>1, <5>1, SegmentForms, LongerPath
        <5>3. QED
          BY <5>1, <5>2
      <4>4. ASSUME NEW k \in DOMAIN old \ DOMAIN new, d = Difference("removed", At(k), old[k], Nothing)
            PROVE  Real(d, e, a)
        <5>1. Apart(a) => Held(a, At(k)) = {}
          BY <3>1, <3>2, <3>6, <4>2, <4>4, FieldGone
        <5>2. old[k] \in Held(e, At(k))
          BY <4>2, <4>4
        <5> HIDE DEF old, At
        <5>3. QED
          BY <4>4, <5>1, <5>2, DifferenceIs DEF Real
      <4>5. ASSUME NEW k \in DOMAIN new \ DOMAIN old, d = Difference("added", At(k), Nothing, new[k])
            PROVE  Real(d, e, a)
        <5>1. Apart(e) => Held(e, At(k)) = {}
          BY <3>1, <3>2, <3>6, <4>3, <4>5, FieldGone
        <5>2. new[k] \in Held(a, At(k))
          BY <4>3, <4>5
        <5> HIDE DEF new, At
        <5>3. QED
          BY <4>5, <5>1, <5>2, DifferenceIs DEF Real
      <4>6. ASSUME NEW k \in DOMAIN old \cap DOMAIN new, d \in D[Call(old[k], new[k], At(k), deeper)]
            PROVE  Real(d, e, a)
        <5>1. old[k] \in Held(e, At(k)) /\ new[k] \in Held(a, At(k)) /\ At(k) \in Path
          BY <4>2, <4>3, <4>6
        <5> HIDE DEF old, new, At, deeper
        <5>2. QED
          BY <3>3, <4>6, <5>1
      <4> HIDE DEF old, new, At, deeper
      <4>7. QED
        BY <4>1, <4>4, <4>5, <4>6
    <3>7. CASE c.depth <= max /\ x.type = y.type /\ x.type = "array"
      <4> DEFINE n == Len(x.items)
                 m == Len(y.items)
                 At(i) == Append(path, Index(i))
      <4>1. n \in Nat /\ m \in Nat
        BY <3>2, <3>7, ItemOf
      <4>2. CASE path \in settings.setPaths
        <5> DEFINE any == Append(path, AnyIndex)
        <5>1. d \in DiffAsSet(D, c)
          BY <1>0, <2>1, <3>1, <3>7, <3>11, <4>2, DiffCases
        <5>2. \/ \E i : d = Difference("removed", any, x.items[i], Nothing)
              \/ \E i : d = Difference("added", any, Nothing, y.items[i])
          BY <5>1 DEF DiffAsSet
        <5>3. QED
          BY <3>1, <5>2, SetReal
      <4>3. CASE path \notin settings.setPaths
        <5>1. d \in DiffOrdered(D, c)
          BY <1>0, <2>1, <3>1, <3>7, <3>11, <4>3, DiffCases
        <5>2. \/ n # m /\ d = Difference("length", path, x, y)
              \/ \E i \in (n + 1)..m : d = Difference("added", At(i), Nothing, y.items[i])
              \/ \E i \in 1..n : i \in 1..m /\ d \in D[Call(x.items[i], y.items[i], At(i), deeper)]
          <6> DEFINE both == 1..(IF n < m THEN n ELSE m)
          <6>1. \/ n # m /\ d = Difference("length", path, x, y)
                \/ \E i \in (n + 1)..m : d = Difference("added", At(i), Nothing, y.items[i])
                \/ \E i \in both : d \in D[Call(x.items[i], y.items[i], At(i), deeper)]
            BY <5>1 DEF DiffOrdered
          <6>2. \A i \in both : i \in 1..n /\ i \in 1..m
            BY <4>1
          <6> HIDE DEF both, n, m, At, deeper, x, y, path
          <6>3. QED
            BY <6>1, <6>2
        <5>3. ASSUME n # m PROVE \A f : ~SameParts(f, x, y, path)
          BY <3>7, <5>3 DEF SameParts
        <5>4. ASSUME NEW i \in (n + 1)..m, d = Difference("added", At(i), Nothing, y.items[i])
              PROVE  Real(d, e, a)
          <6>1. i \in 1..m /\ i \in Nat /\ i \notin 1..n
            BY <4>1
          <6>2. y.items[i] \in Held(a, At(i))
            BY <3>2, <3>7, <6>1, ItemHeld
          <6>3. Apart(e) => Held(e, At(i)) = {}
            BY <3>1, <3>2, <3>7, <6>1, ItemGone
          <6> HIDE DEF At, y
          <6>4. QED
            BY <5>4, <6>2, <6>3, DifferenceIs DEF Real
        <5>5. ASSUME NEW i \in 1..n, i \in 1..m, d \in D[Call(x.items[i], y.items[i], At(i), deeper)]
              PROVE  Real(d, e, a)
          <6>1. x.items[i] \in Held(e, At(i)) /\ y.items[i] \in Held(a, At(i)) /\ i \in Nat
            BY <3>2, <3>7, <5>5, ItemHeld
          <6>2. At(i) \in Path
            BY <3>1, <6>1, SegmentForms, LongerPath
          <6> HIDE DEF x, y, At, deeper, path
          <6>3. QED
            BY <3>3, <5>5, <6>1, <6>2
        <5>6. n # m /\ d = Difference("length", path, x, y) => Real(d, e, a)
          BY <3>1, <3>2, <5>3, HeldReal
        <5> HIDE DEF n, m, At, deeper, x, y, path
        <5>7. QED
          BY <5>2, <5>4, <5>5, <5>6
      <4>4. QED
        BY <4>2, <4>3
    <3>8. CASE c.depth <= max /\ x.type = y.type /\ x.type = "number"
      <4>1. d = Difference("modified", path, x, y) /\ ~Close(x, y, settings)
        <5>1. D[c] = IF Close(x, y, settings) THEN {} ELSE {Difference("modified", path, x, y)}
          BY <1>0, <3>1, <3>8, <3>11, DiffCases
        <5> HIDE DEF x, y, path
        <5>2. QED
          BY <2>1, <5>1
      <4>2. x = Number(x.num) /\ y = Number(y.num) /\ x.num \in Int /\ y.num \in Int
        BY <3>2, <3>8, NumberNode
      <4>3. x.num - y.num \notin (-settings.epsilon)..settings.epsilon
        <5> DEFINE i == x.num
                   j == y.num
        <5>1. ~Close(Number(i), Number(j), settings) /\ i \in Int /\ j \in Int
          BY <4>1, <4>2
        <5> HIDE DEF i, j
        <5>2. i - j \notin (-settings.epsilon)..settings.epsilon
          BY <1>0, <5>1, CloseIs
        <5>3. QED
          BY <5>2 DEF i, j
      <4>4. \A f : ~SameParts(f, x, y, path)
        BY <3>8, <4>3 DEF SameParts
      <4>5. QED
        BY <3>1, <3>2, <4>1, <4>4, HeldReal
    <3>9. CASE c.depth <= max /\ x.type = y.type /\ x.type \notin {"object", "array", "number"}
      <4>1. d = Difference("modified", path, x, y) /\ x # y
        BY <1>0, <2>1, <3>1, <3>9, <3>11, DiffCases
      <4>2. \A f : ~SameParts(f, x, y, path)
        BY <3>9, <4>1 DEF SameParts
      <4>3. QED
        BY <3>1, <3>2, <4>1, <4>2, HeldReal
    <3>10. QED
      BY <1>0, <3>1, <3>4, <3>5, <3>6, <3>7, <3>8, <3>9
  <2>2. QED
    BY <2>1
<1>5. Nat \subseteq T
  <2> HIDE DEF T
  <2>1. QED
    BY <1>3, <1>4, SetInduction
<1>6. QED
  BY <1>5 DEF D

\* What a test has in hand.
LEMMA TestedBodies ==
  ASSUME EngineIInv, Tested
  PROVE  /\ IsSettings(settings) /\ settings.maxDepth \in Nat /\ settings.epsilon \in Nat
         /\ IsBody(stored) /\ IsBody(Actual) /\ report = CompareJsonAst(stored, Actual, settings)
         /\ IsBody(recorded) /\ IsBody(answered)
<1>1. /\ settings \in Settings /\ recorded \in Bodies /\ answered \in Bodies
      /\ stored = MaskValue(recorded, settings) /\ Actual = MaskValue(answered, settings)
      /\ report = CompareJsonAst(stored, Actual, settings)
  BY DEF EngineIInv, Tested, Actual
<1>2. IsSettings(settings) /\ IsBody(recorded) /\ IsBody(answered)
  BY <1>1, EngineAssumption
<1>3. settings.maxDepth \in Nat /\ settings.epsilon \in Nat
  BY <1>2 DEF IsSettings
<1>4. IsBody(stored) /\ IsBody(Actual)
  BY <1>1, <1>2, <1>3, MaskedBody
<1>5. QED
  BY <1>1, <1>2, <1>3, <1>4

\* differ.rs:129: every difference that a test reports is one.
THEOREM EngineDifferencesReal ==
  ASSUME NfcOfTexts
  PROVE  EngineSpec => []DifferencesReal
<1>1. EngineIInv => DifferencesReal
  <2> SUFFICES ASSUME EngineIInv, Tested PROVE DifferencesReal
    BY DEF DifferencesReal
  <2> DEFINE e == stored
             a == Actual
             root == Call(e, a, <<>>, 0)
  <2>1. /\ IsSettings(settings) /\ settings.maxDepth \in Nat /\ IsBody(e) /\ IsBody(a)
        /\ report = CompareJsonAst(e, a, settings)
    BY TestedBodies
  <2> HIDE DEF e, a
  <2>2. report \subseteq Diff(e, a, settings)[root]
    BY <2>1 DEF CompareJsonAst
  <2>3. root \in Calls(e, a) /\ root.expected = e /\ root.actual = a /\ root.path = <<>> /\ root.depth = 0
    BY <2>1, RootCall
  <2>4. e \in Held(e, <<>>) /\ a \in Held(a, <<>>)
    <3>1. ASSUME NEW v, IsBody(v) PROVE v \in Held(v, <<>>)
      <4>1. Position(<<>>, v) \in Positions(v) /\ Position(<<>>, v).path = <<>> /\ Position(<<>>, v).value = v
        BY <3>1, BodyPositions, Fields
      <4>2. NormalPath(<<>>) = <<>>
        BY NormalTyped
      <4>3. QED
        BY <4>1, <4>2 DEF Held
    <3>2. QED
      BY <2>1, <3>1
  <2> HIDE DEF root
  <2>5. \A d \in report : Real(d, e, a)
    <3>1. settings.maxDepth + 1 \in Nat /\ root.depth + (settings.maxDepth + 1) > settings.maxDepth
      BY <2>1, <2>3
    <3>2. \A d \in Diff(e, a, settings)[root] : Real(d, e, a)
      BY <2>1, <2>3, <2>4, <3>1, FindsReal
    <3>3. QED
      BY <2>2, <3>2
  <2>6. QED
    BY <2>5 DEF DifferencesReal, Real, Held, e, a
<1>2. QED
  BY <1>1, EngineIInvInit, EngineIInvStep, PTL DEF EngineSpec

-----------------------------------------------------------------------------
(* The shadow proxy counts structural differences. *)

\* Whether two parts have drifted depends on the parts that they hold.
LEMMA DriftDepends ==
  ASSUME NEW e, IsBody(e), NEW a, IsBody(a), NEW x \in Values(e), NEW y \in Values(a), NEW f, NEW g,
         \A u \in Values(e), w \in Values(a) :
           (\E c \in Children(x) : c.value = u) => f[<<u, w>>] = g[<<u, w>>]
  PROVE  DriftedCall(f, x, y) <=> DriftedCall(g, x, y)
<1>0. IsNode(x) /\ (\A c \in Children(x) : c.value \in Values(e)) /\ IsNode(y)
  BY ValueOf
<1>1. CASE x.type = "object" /\ y.type = "object"
  <2>1. ASSUME NEW k \in DOMAIN x.fields, DOMAIN x.fields = DOMAIN y.fields
        PROVE  f[<<x.fields[k], y.fields[k]>>] = g[<<x.fields[k], y.fields[k]>>]
    <3>1. [segment |-> Key(k), value |-> x.fields[k]] \in Children(x)
      BY <1>0, <1>1, FieldOf
    <3>2. [segment |-> Key(k), value |-> y.fields[k]] \in Children(y)
      BY <1>0, <1>1, <2>1, FieldOf
    <3>3. x.fields[k] \in Values(e) /\ y.fields[k] \in Values(a)
      BY <1>0, <3>1, <3>2, ValueOf
    <3>4. \E c \in Children(x) : c.value = x.fields[k]
      BY <3>1
    <3>5. QED
      BY <3>3, <3>4
  <2>2. \A h : DriftedCall(h, x, y) <=>
                 (DOMAIN x.fields # DOMAIN y.fields
                    \/ \E k \in DOMAIN x.fields : h[<<x.fields[k], y.fields[k]>>])
    BY <1>1 DEF DriftedCall, ObjectsDrifted
  <2>3. QED
    BY <2>1, <2>2
<1>2. CASE x.type = "array" /\ y.type = "array"
  <2>1. /\ Len(x.items) \in Nat /\ DOMAIN x.items = 1..Len(x.items)
        /\ Len(y.items) \in Nat /\ DOMAIN y.items = 1..Len(y.items)
        /\ \A i \in 1..Len(x.items) : x.items[i] \in Values(e) /\ \E c \in Children(x) : c.value = x.items[i]
        /\ \A j \in 1..Len(y.items) : y.items[j] \in Values(a)
    BY <1>0, <1>2, ItemsBelow, ItemsInside
  <2>2. ASSUME NEW i \in DOMAIN x.items, Len(x.items) = Len(y.items)
        PROVE  f[<<x.items[i], y.items[i]>>] = g[<<x.items[i], y.items[i]>>]
    BY <2>1, <2>2
  <2>3. \A h : DriftedCall(h, x, y) <=>
                 (Len(x.items) # Len(y.items) \/ \E i \in DOMAIN x.items : h[<<x.items[i], y.items[i]>>])
    BY <1>2 DEF DriftedCall, ArraysDrifted
  <2>4. QED
    BY <2>2, <2>3
<1>3. CASE ~(x.type = "object" /\ y.type = "object") /\ ~(x.type = "array" /\ y.type = "array")
  BY <1>3 DEF DriftedCall
<1>4. QED
  BY <1>1, <1>2, <1>3

\* Drifted is the function that its recursion defines.
LEMMA DriftedIs ==
  ASSUME NEW e, IsBody(e), NEW a, IsBody(a)
  PROVE  \A q \in Values(e) \X Values(a) :
           Drifted(e, a)[q] = DriftedCall(Drifted(e, a), q[1], q[2])
<1> DEFINE Of(g, q) == DriftedCall(g, q[1], q[2])
           Dom == Values(e) \X Values(a)
           Low(q, r) == Levels(q[1])[r] = {}
           Right(g, r) == \A q \in Dom : Low(q, r) => g[q] = Of(g, q)
           T == {r \in Nat : \E g : Right(g, r)}
<1>0. ASSUME NEW q \in Dom, NEW r \in Nat, Low(q, r + 1), NEW f, NEW g,
             \A d \in Dom : Low(d, r) => f[d] = g[d]
      PROVE  Of(f, q) = Of(g, q)
  <2> DEFINE x == q[1]
             y == q[2]
  <2>1. x \in Values(e) /\ y \in Values(a)
    OBVIOUS
  <2>2. Levels(x)[r + 1] = {}
    BY <1>0
  <2>3. \A u \in Values(e), w \in Values(a) : Low(<<u, w>>, r) => f[<<u, w>>] = g[<<u, w>>]
    BY <1>0
  <2>7. \A u, w : Low(<<u, w>>, r) <=> Levels(u)[r] = {}
    OBVIOUS
  <2> HIDE DEF x, y, Low
  <2>5. \A u \in Values(e), w \in Values(a) :
           (\E c \in Children(x) : c.value = u) => f[<<u, w>>] = g[<<u, w>>]
    BY <2>2, <2>3, <2>7, ChildLower
  <2>4. DriftedCall(f, x, y) <=> DriftedCall(g, x, y)
    BY <2>1, <2>5, DriftDepends
  <2>6. DriftedCall(f, x, y) = DriftedCall(g, x, y)
    <3>1. \A h : DriftedCall(h, x, y) \in BOOLEAN
      BY DEF DriftedCall, ObjectsDrifted, ArraysDrifted
    <3>2. QED
      BY <2>4, <3>1
  <2>8. QED
    BY <2>6 DEF x, y
<1>1. 0 \in T
  <2>1. Right({}, 0)
    BY LevelSteps
  <2> HIDE DEF Right
  <2>2. QED
    BY <2>1
<1>2. ASSUME NEW r \in Nat, r \in T PROVE r + 1 \in T
  <2>1. PICK g : Right(g, r)
    <3> HIDE DEF Right
    <3>1. QED
      BY <1>2
  <2> DEFINE h == [q \in Dom |-> IF Low(q, r) THEN g[q] ELSE Of(g, q)]
  <2>2. ASSUME NEW q \in Dom, Low(q, r + 1) PROVE h[q] = Of(h, q)
    <3>0. Dom = Dom
      OBVIOUS
    <3> HIDE DEF Dom
    <3>1. \A d \in Dom : Low(d, r) => h[d] = g[d]
      OBVIOUS
    <3>3. h[q] = Of(g, q)
      BY <2>1
    <3> HIDE DEF h, Low, Of
    <3>2. Of(h, q) = Of(g, q)
      BY <1>0, <2>2, <3>1
    <3>4. QED
      BY <3>2, <3>3
  <2>3. Right(h, r + 1)
    <3> HIDE DEF h, Low, Of, Dom
    <3>1. QED
      BY <2>2
  <2> HIDE DEF h, Right
  <2>4. QED
    BY <2>3
<1>3. \A r \in Nat : \E g : Right(g, r)
  <2>1. Nat \subseteq T
    <3> HIDE DEF T
    <3>1. QED
      BY <1>1, <1>2, SetInduction
  <2> HIDE DEF Right
  <2>2. QED
    BY <2>1
<1>4. Nesting + 1 \in Nat /\ (Nesting + 1) + 1 \in Nat
  BY NestingAssumption
<1>5. PICK g : Right(g, (Nesting + 1) + 1)
  <2> HIDE DEF Right
  <2>1. QED
    BY <1>3, <1>4
<1>6. ASSUME NEW q \in Dom PROVE Low(q, Nesting + 1) /\ Low(q, (Nesting + 1) + 1)
  <2>0. q[1] \in Values(e)
    OBVIOUS
  <2>1. Sound(q[1], Nesting + 1)
    BY <2>0, ValueOf
  <2>2. Levels(q[1])[Nesting + 1] = {}
    BY <2>1 DEF Sound
  <2>3. QED
    BY <1>4, <2>2, EmptyStays
<1> DEFINE f == [q \in Dom |-> g[q]]
<1> HIDE DEF Dom
<1>7. ASSUME NEW q \in Dom PROVE f[q] = Of(f, q)
  <2>1. g[q] = Of(g, q)
    BY <1>5, <1>6
  <2>2. \A d \in Dom : Low(d, Nesting + 1) => f[d] = g[d]
    OBVIOUS
  <2>3. f[q] = g[q]
    OBVIOUS
  <2> HIDE DEF f, Low, Of
  <2>4. Of(f, q) = Of(g, q)
    BY <1>0, <1>4, <1>6, <2>2
  <2>5. QED
    BY <2>1, <2>3, <2>4
<1>8. f = [q \in Dom |-> Of(f, q)]
  <2>1. f = [q \in Dom |-> f[q]]
    OBVIOUS
  <2> HIDE DEF f, Of
  <2>2. QED
    BY <1>7, <2>1
<1>9. Drifted(e, a) = CHOOSE h : h = [q \in Dom |-> Of(h, q)]
  BY DEF Drifted, Dom
<1>10. Drifted(e, a) = [q \in Dom |-> Of(Drifted(e, a), q)]
  <2> HIDE DEF f, Of
  <2>1. QED
    BY <1>8, <1>9
<1>11. QED
  <2> DEFINE S == Drifted(e, a)
  <2> HIDE DEF S, Of
  <2>1. S = [q \in Dom |-> Of(S, q)]
    BY <1>10 DEF S
  <2>2. \A q \in Dom : S[q] = Of(S, q)
    BY <2>1
  <2>3. QED
    BY <2>2 DEF S, Of, Dom

\* What the shadow proxy counts as a drift.
Structural(d) ==
  \/ d.kind \in {"removed", "added", "length"}
  \/ d.kind = "type" /\ {d.old.type, d.new.type} \cap Containers # {}

\* shadow_filter.rs:70: down to the largest depth, two parts have drifted when comparing
\* them finds a structural difference.
LEMMA DriftStructural ==
  ASSUME NfcOfTexts, NEW e, IsBody(e), NEW a, IsBody(a), NEW options, options.maxDepth \in Nat,
         ~options.nfc, options.setPaths = {}
  PROVE  \A r \in Nat : \A c \in Calls(e, a) :
           Levels(c.expected)[r] = {} /\ c.depth + r <= options.maxDepth + 1
             => (Drifted(e, a)[<<c.expected, c.actual>>]
                   <=> \E d \in Diff(e, a, options)[c] : Structural(d))
<1> DEFINE D == Diff(e, a, options)
           W == Drifted(e, a)
           max == options.maxDepth
           Told(c) == W[<<c.expected, c.actual>>] <=> \E d \in D[c] : Structural(d)
           T == {r \in Nat : \A c \in Calls(e, a) :
                   Levels(c.expected)[r] = {} /\ c.depth + r <= max + 1 => Told(c)}
<1>0. max \in Nat
  OBVIOUS
<1>1. 0 \in T
  BY LevelSteps
<1>2. ASSUME NEW r \in Nat, r \in T PROVE r + 1 \in T
  <2>1. ASSUME NEW c \in Calls(e, a), Levels(c.expected)[r + 1] = {}, c.depth + (r + 1) <= max + 1
        PROVE  Told(c)
    <3> DEFINE x == c.expected
               y == c.actual
               One(kind) == {Difference(kind, c.path, x, y)}
    <3>1. /\ x \in Values(e) /\ y \in Values(a) /\ c.path \in Path /\ c.depth \in Nat /\ c.depth + 1 \in Nat
          /\ c = Call(x, y, c.path, c.depth)
      BY CallTypes
    <3>2. IsNode(x) /\ IsNode(y)
      BY <3>1, ValueOf
    <3>3. c.depth <= max /\ (c.depth + 1) + r <= max + 1
      BY <1>0, <2>1, <3>1
    <3>4. D[c] = DiffCall(D, c, options)
      BY DiffIs
    <3>5. W[<<x, y>>] = DriftedCall(W, x, y)
      <4>1. <<x, y>> \in Values(e) \X Values(a) /\ <<x, y>>[1] = x /\ <<x, y>>[2] = y
        BY <3>1
      <4> HIDE DEF x, y
      <4>2. QED
        BY <4>1, DriftedIs
    <3>6. ASSUME NEW u \in Values(e), NEW w \in Values(a), NEW path \in Path,
                 \E s \in Children(x) : s.value = u
          PROVE  W[<<u, w>>] <=> \E d \in D[Call(u, w, path, c.depth + 1)] : Structural(d)
      <4> DEFINE b == Call(u, w, path, c.depth + 1)
      <4>1. b \in Calls(e, a) /\ b.expected = u /\ b.actual = w /\ b.depth = c.depth + 1
        BY <3>1, CallIn
      <4>2. Levels(u)[r] = {}
        BY <2>1, <3>6, ChildLower
      <4> HIDE DEF b, D, W, x
      <4>3. Told(b)
        BY <1>2, <3>3, <4>1, <4>2
      <4>4. QED
        BY <4>1, <4>3 DEF b
    <3>7. \A kind : Difference(kind, c.path, x, y).kind = kind /\ Difference(kind, c.path, x, y).old = x
                      /\ Difference(kind, c.path, x, y).new = y
      BY DEF Difference
    <3> HIDE DEF D, W, x, y
    <3>8. CASE x.type # y.type
      <4>1. D[c] = One("type")
        BY <3>1, <3>3, <3>4, <3>8, DiffCases DEF x, y
      <4>2. (\E d \in D[c] : Structural(d)) <=> {x.type, y.type} \cap Containers # {}
        BY <3>7, <4>1 DEF Structural
      <4>3. W[<<x, y>>] <=> {x.type, y.type} \cap Containers # {}
        BY <3>5, <3>8 DEF DriftedCall, Containers
      <4>4. QED
        BY <4>2, <4>3 DEF x, y
    <3>9. CASE x.type = "object" /\ y.type = "object"
      <4> DEFINE At(k) == Append(c.path, Key(k))
                 Inner(k) == Call(x.fields[k], y.fields[k], At(k), c.depth + 1)
                 Gone == {Difference("removed", At(k), x.fields[k], Nothing) : k \in DOMAIN x.fields \ DOMAIN y.fields}
                 New == {Difference("added", At(k), Nothing, y.fields[k]) : k \in DOMAIN y.fields \ DOMAIN x.fields}
      <4>1. D[c] = Gone \cup New \cup UNION {D[Inner(k)] : k \in DOMAIN x.fields \cap DOMAIN y.fields}
        <5>1. D[c] = DiffObjects(D, c, options)
          BY <3>1, <3>3, <3>4, <3>9, DiffCases DEF x, y
        <5>2. Normalized(x.fields, options) = x.fields /\ Normalized(y.fields, options) = y.fields
          BY DEF Normalized
        <5>3. QED
          BY <5>1, <5>2 DEF DiffObjects, x, y
      <4>2. \A d \in Gone \cup New : Structural(d)
        <5>1. \A path, old, new : Structural(Difference("removed", path, old, new))
                                    /\ Structural(Difference("added", path, old, new))
          BY DEF Structural, Difference
        <5>2. QED
          BY <5>1
      <4>3. W[<<x, y>>] <=> \/ DOMAIN x.fields # DOMAIN y.fields
                            \/ \E k \in DOMAIN x.fields : W[<<x.fields[k], y.fields[k]>>]
        BY <3>5, <3>9 DEF DriftedCall, ObjectsDrifted
      <4>4. ASSUME NEW k \in DOMAIN x.fields \cap DOMAIN y.fields
            PROVE  W[<<x.fields[k], y.fields[k]>>] <=> \E d \in D[Inner(k)] : Structural(d)
        <5>1. k \in STRING /\ [segment |-> Key(k), value |-> x.fields[k]] \in Children(x)
          BY <3>2, <3>9, FieldOf
        <5>2. [segment |-> Key(k), value |-> y.fields[k]] \in Children(y)
          BY <3>2, <3>9, FieldOf
        <5>3. x.fields[k] \in Values(e) /\ y.fields[k] \in Values(a)
          BY <3>1, <5>1, <5>2, ValueOf
        <5>4. At(k) \in Path
          BY <3>1, <5>1, SegmentForms, LongerPath
        <5>5. \E s \in Children(x) : s.value = x.fields[k]
          BY <5>1
        <5> HIDE DEF At
        <5>6. QED
          BY <3>6, <5>3, <5>4, <5>5
      <4> HIDE DEF Inner
      <4>5. CASE DOMAIN x.fields = DOMAIN y.fields
        <5>1. D[c] = UNION {D[Inner(k)] : k \in DOMAIN x.fields}
          BY <4>1, <4>5
        <5> HIDE DEF Gone, New
        <5>2. QED
          BY <4>3, <4>4, <4>5, <5>1 DEF x, y
      <4>6. CASE DOMAIN x.fields # DOMAIN y.fields
        <5>1. Gone \cup New # {}
          BY <4>6
        <5> HIDE DEF Gone, New
        <5>2. \E d \in D[c] : Structural(d)
          BY <4>1, <4>2, <5>1
        <5>3. QED
          BY <4>3, <4>6, <5>2 DEF x, y
      <4>7. QED
        BY <4>5, <4>6
    <3>10. CASE x.type = "array" /\ y.type = "array"
      <4> DEFINE n == Len(x.items)
                 m == Len(y.items)
                 least == IF n < m THEN n ELSE m
                 At(i) == Append(c.path, Index(i))
                 Inner(i) == Call(x.items[i], y.items[i], At(i), c.depth + 1)
                 New == {Difference("added", At(i), Nothing, y.items[i]) : i \in (n + 1)..m}
      <4>1. D[c] = (IF n # m THEN One("length") ELSE {}) \cup New \cup UNION {D[Inner(i)] : i \in 1..least}
        <5>1. D[c] = DiffOrdered(D, c)
          BY <3>1, <3>3, <3>4, <3>10, DiffCases DEF x, y
        <5>2. QED
          BY <5>1 DEF DiffOrdered, x, y
      <4>2. /\ n \in Nat /\ DOMAIN x.items = 1..n /\ m \in Nat /\ DOMAIN y.items = 1..m
            /\ \A i \in 1..n : i \in Nat /\ x.items[i] \in Values(e) /\ \E s \in Children(x) : s.value = x.items[i]
            /\ \A i \in 1..m : y.items[i] \in Values(a)
        BY <3>1, <3>2, <3>10, ItemsBelow, ItemsInside, ValueOf
      <4>3. W[<<x, y>>] <=> n # m \/ \E i \in 1..n : W[<<x.items[i], y.items[i]>>]
        BY <3>5, <3>10, <4>2 DEF DriftedCall, ArraysDrifted
      <4>4. ASSUME NEW i \in 1..n, n = m
            PROVE  W[<<x.items[i], y.items[i]>>] <=> \E d \in D[Inner(i)] : Structural(d)
        <5>1. At(i) \in Path
          BY <3>1, <4>2, SegmentForms, LongerPath
        <5>2. x.items[i] \in Values(e) /\ y.items[i] \in Values(a) /\ \E s \in Children(x) : s.value = x.items[i]
          BY <4>2, <4>4
        <5> HIDE DEF At
        <5>3. QED
          BY <3>6, <5>1, <5>2
      <4> HIDE DEF Inner
      <4>5. CASE n = m
        <5>1. New = {} /\ least = n
          BY <4>2, <4>5
        <5>2. D[c] = UNION {D[Inner(i)] : i \in 1..n}
          BY <4>1, <4>5, <5>1
        <5> HIDE DEF New, n, m, least
        <5>3. QED
          BY <4>3, <4>4, <4>5, <5>2 DEF x, y
      <4>6. CASE n # m
        <5>1. Difference("length", c.path, x, y) \in D[c]
          BY <4>1, <4>6
        <5>2. Structural(Difference("length", c.path, x, y))
          BY DEF Structural, Difference
        <5>3. QED
          BY <4>3, <4>6, <5>1, <5>2 DEF x, y
      <4>7. QED
        BY <4>5, <4>6
    <3>11. CASE x.type = y.type /\ x.type \notin {"object", "array"}
      <4>1. D[c] \subseteq One("modified")
        BY <3>1, <3>3, <3>4, <3>11, DiffCases DEF x, y
      <4>2. ~Structural(Difference("modified", c.path, x, y))
        BY DEF Structural, Difference
      <4>3. ~W[<<x, y>>]
        BY <3>5, <3>11 DEF DriftedCall
      <4>4. QED
        BY <4>1, <4>2, <4>3 DEF x, y
    <3>12. QED
      BY <3>8, <3>9, <3>10, <3>11
  <2> HIDE DEF Told
  <2>2. QED
    BY <2>1
<1>3. Nat \subseteq T
  <2> HIDE DEF T
  <2>1. QED
    BY <1>1, <1>2, SetInduction
<1>4. QED
  BY <1>3

\* A value has not drifted from itself.
LEMMA DriftIrreflexive ==
  ASSUME NEW e, IsBody(e)
  PROVE  \A r \in Nat : \A x \in Values(e) : Levels(x)[r] = {} => ~Drifted(e, e)[<<x, x>>]
<1> DEFINE W == Drifted(e, e)
           T == {r \in Nat : \A x \in Values(e) : Levels(x)[r] = {} => ~W[<<x, x>>]}
<1>1. 0 \in T
  BY LevelSteps
<1>2. ASSUME NEW r \in Nat, r \in T PROVE r + 1 \in T
  <2>1. ASSUME NEW x \in Values(e), Levels(x)[r + 1] = {}
        PROVE  ~W[<<x, x>>]
    <3>1. W[<<x, x>>] = DriftedCall(W, x, x)
      <4>1. <<x, x>> \in Values(e) \X Values(e) /\ <<x, x>>[1] = x /\ <<x, x>>[2] = x
        OBVIOUS
      <4>2. QED
        BY <4>1, DriftedIs
    <3>2. IsNode(x)
      BY ValueOf
    <3>3. ASSUME NEW u, NEW s \in Children(x), s.value = u
          PROVE  ~W[<<u, u>>]
      <4>1. Levels(u)[r] = {}
        BY <2>1, <3>3, ChildLower
      <4>2. u \in Values(e)
        BY <3>3, ValueOf
      <4> HIDE DEF W
      <4>3. QED
        BY <1>2, <4>1, <4>2
    <3> HIDE DEF W
    <3>4. CASE x.type = "object"
      <4>1. ASSUME NEW k \in DOMAIN x.fields PROVE ~W[<<x.fields[k], x.fields[k]>>]
        BY <3>2, <3>3, <3>4, FieldOf
      <4>2. QED
        BY <3>1, <3>4, <4>1 DEF DriftedCall, ObjectsDrifted
    <3>5. CASE x.type = "array"
      <4>1. ASSUME NEW i \in DOMAIN x.items PROVE ~W[<<x.items[i], x.items[i]>>]
        BY <3>2, <3>3, <3>5, ItemsBelow
      <4>2. QED
        BY <3>1, <3>5, <4>1 DEF DriftedCall, ArraysDrifted
    <3>6. CASE x.type \notin {"object", "array"}
      BY <3>1, <3>6 DEF DriftedCall
    <3>7. QED
      BY <3>4, <3>5, <3>6
  <2> HIDE DEF W
  <2>2. QED
    BY <2>1
<1>3. Nat \subseteq T
  <2> HIDE DEF T
  <2>1. QED
    BY <1>1, <1>2, SetInduction
<1>4. QED
  BY <1>3

\* shadow_filter.rs:70: for bodies that the diff engine compares to the end, the shadow proxy and it
\* agree on structure.
THEOREM EngineDriftIsStructure ==
  ASSUME NfcOfTexts, Nesting <= DefaultDepth
  PROVE  EngineSpec => []DriftIsStructure
<1>1. EngineIInv => DriftIsStructure
  <2> SUFFICES ASSUME EngineIInv, phase = "shadowed" PROVE DriftIsStructure
    BY DEF DriftIsStructure
  <2> DEFINE e == recorded
             a == answered
             options == [DefaultOptions EXCEPT !.nfc = FALSE]
             root == Call(e, a, <<>>, 0)
  <2>1. IsBody(e) /\ IsBody(a) /\ report = {x \in {"drift"} : StructurallyDrifted(e, a)}
    BY EngineAssumption DEF EngineIInv
  <2>2. options.maxDepth = 512 /\ ~options.nfc /\ options.setPaths = {}
    BY DEF DefaultOptions, DefaultDepth
  <2> HIDE DEF e, a
  <2>3. /\ <<>> \in Path /\ e \in Values(e) /\ a \in Values(a)
        /\ root \in Calls(e, a) /\ root.expected = e /\ root.actual = a
        /\ root.path = <<>> /\ root.depth = 0
    BY <2>1, RootCall
  <2> DEFINE r == Nesting + 1
  <2>4. r \in Nat /\ Levels(e)[r] = {} /\ root.depth + r <= options.maxDepth + 1
    BY <2>1, <2>2, <2>3, NestingAssumption DEF IsBody, DefaultDepth
  <2> HIDE DEF root, options, r
  <2>5. Drifted(e, a)[<<e, a>>] <=> \E d \in CompareJsonAst(e, a, options) : Structural(d)
    <3>1. CASE e = a
      <4>1. CompareJsonAst(e, a, options) = {}
        BY <3>1 DEF CompareJsonAst
      <4>2. ~Drifted(e, e)[<<e, e>>]
        BY <2>1, <2>3, <2>4, DriftIrreflexive
      <4>3. QED
        BY <3>1, <4>1, <4>2
    <3>2. CASE e # a
      <4>1. CompareJsonAst(e, a, options) = Diff(e, a, options)[root]
        BY <3>2 DEF CompareJsonAst, root
      <4>2. options.maxDepth \in Nat
        BY <2>2
      <4>3. Drifted(e, a)[<<e, a>>] <=> \E d \in Diff(e, a, options)[root] : Structural(d)
        <5>1. \A t \in Nat : \A c \in Calls(e, a) :
                Levels(c.expected)[t] = {} /\ c.depth + t <= options.maxDepth + 1
                  => (Drifted(e, a)[<<c.expected, c.actual>>]
                        <=> \E d \in Diff(e, a, options)[c] : Structural(d))
          BY <2>1, <2>2, <4>2, DriftStructural
        <5>2. QED
          BY <2>3, <2>4, <5>1
      <4>4. QED
        BY <4>1, <4>3
    <3>3. QED
      BY <3>1, <3>2
  <2>6. report # {} <=> Drifted(e, a)[<<e, a>>]
    BY <2>1 DEF StructurallyDrifted
  <2>7. QED
    BY <2>5, <2>6 DEF DriftIsStructure, Structural, e, a, options
<1>2. QED
  BY <1>1, EngineIInvInit, EngineIInvStep, PTL DEF EngineSpec

-----------------------------------------------------------------------------
(* The consumers hear of the differences that concern them. *)

\* What a body holds at a path.
There(v, path) == {p.value : p \in {q \in Positions(v) : q.path = path}}

\* At most one value, and it is a part of the body.
LEMMA ThereOne ==
  ASSUME NEW v, IsBody(v), NEW path, NEW x \in There(v, path)
  PROVE  /\ x \in Values(v) /\ IsNode(x) /\ path \in Path /\ Len(path) \in Nat /\ Len(path) <= Nesting
         /\ \A w \in There(v, path) : w = x
<1>1. PICK p \in Positions(v) : p.path = path /\ p.value = x
  BY DEF There
<1>2. x \in Values(v) /\ path \in Path /\ Len(path) \in Nat /\ Len(path) <= Nesting
  BY <1>1, BodyPaths
<1>3. IsNode(x)
  BY <1>2, ValueOf
<1>4. ASSUME NEW w \in There(v, path) PROVE w = x
  <2>1. PICK q \in Positions(v) : q.path = path /\ q.value = w
    BY <1>4 DEF There
  <2>2. p \in Levels(v)[Len(path)] /\ q \in Levels(v)[Len(path)] /\ Len(path) \in Nat
    BY <1>1, <2>1, BodyPaths
  <2>3. Sound(v, Nesting + 1) /\ Nesting + 1 \in Nat
    BY BodyPositions, NestingAssumption
  <2>4. p = q
    BY <1>1, <2>1, <2>2, <2>3, PathUnique
  <2>5. QED
    BY <1>1, <2>1, <2>4
<1>5. QED
  BY <1>2, <1>3, <1>4

\* What a part holds is one segment further, and nothing else is.
LEMMA ThereBelow ==
  ASSUME NEW v, IsBody(v), NEW path, NEW x \in There(v, path), NEW c \in Children(x)
  PROVE  c.value \in There(v, Append(path, c.segment))
<1>1. PICK p \in Positions(v) : p.path = path /\ p.value = x
  BY DEF There
<1> DEFINE o == Position(Append(p.path, c.segment), c.value)
<1>2. PICK n \in Nat : p \in Levels(v)[n]
  BY BodyPositions
<1>3. o \in Levels(v)[n + 1]
  BY <1>1, <1>2, LevelSteps DEF Lower, Below
<1>4. o.path = Append(path, c.segment) /\ o.value = c.value
  BY <1>1, Fields
<1> HIDE DEF o
<1>5. o \in Positions(v)
  <2>1. n + 1 \in Nat /\ Levels(v)[n + 1] \subseteq Positions(v)
    BY BodyPositions
  <2>2. QED
    BY <1>3, <2>1
<1>6. QED
  BY <1>4, <1>5 DEF There

\* What is one segment further is held by what is at the path.
LEMMA ThereAbove ==
  ASSUME NEW v, IsBody(v), NEW path \in Path, NEW s \in Segment, NEW w \in There(v, Append(path, s))
  PROVE  \E x \in There(v, path) : \E c \in Children(x) : c.value = w /\ c.segment = s
<1>1. PICK q \in Positions(v) : q.path = Append(path, s) /\ q.value = w
  BY DEF There
<1>2. Len(q.path) = Len(path) + 1 /\ Len(path) \in Nat /\ q \in Levels(v)[Len(path) + 1]
  <2>1. Len(q.path) = Len(path) + 1 /\ Len(path) \in Nat
    BY <1>1, LongerPath
  <2>2. QED
    BY <2>1, BodyPaths
<1>3. PICK o \in Levels(v)[Len(path)] : q \in Below(o)
  BY <1>2, LevelSteps DEF Lower
<1>4. PICK c \in Children(o.value) : q = Position(Append(o.path, c.segment), c.value)
  BY <1>3 DEF Below
<1>5. o \in Positions(v) /\ o.path \in Path /\ o.value \in Values(v)
  BY <1>2, <1>3, BodyPositions, BodyPaths
<1>6. c.segment \in Segment
  BY <1>5, ValueOf, ChildSegments
<1>7. o.path = path /\ c.segment = s
  <2> DEFINE t == o.path
             u == c.segment
  <2>1. t \in Path /\ u \in Segment
    BY <1>5, <1>6
  <2>2. Append(t, u) = Append(path, s)
    BY <1>1, <1>4, Fields
  <2> HIDE DEF t, u
  <2>3. t = path /\ u = s
    BY <2>1, <2>2 DEF Path
  <2>4. QED
    BY <2>3 DEF t, u
<1>8. o.value \in There(v, path)
  BY <1>5, <1>7 DEF There
<1>9. c.value = w
  BY <1>1, <1>4, Fields
<1>10. QED
  BY <1>4, <1>7, <1>8, <1>9

\* The fields of an object, and the items of an array.
LEMMA ThereField ==
  ASSUME NEW v, IsBody(v), NEW path, NEW x \in There(v, path), x.type = "object"
  PROVE  /\ \A k \in DOMAIN x.fields : k \in STRING /\ x.fields[k] \in There(v, Append(path, Key(k)))
         /\ \A k \in STRING : k \notin DOMAIN x.fields => There(v, Append(path, Key(k))) = {}
<1>0. IsNode(x) /\ path \in Path
  BY ThereOne
<1>1. ASSUME NEW k \in DOMAIN x.fields
      PROVE  k \in STRING /\ x.fields[k] \in There(v, Append(path, Key(k)))
  <2> DEFINE c == [segment |-> Key(k), value |-> x.fields[k]]
  <2>1. k \in STRING /\ c \in Children(x) /\ c.segment = Key(k) /\ c.value = x.fields[k]
    BY <1>0, FieldOf
  <2> HIDE DEF c
  <2>2. c.value \in There(v, Append(path, c.segment))
    BY <2>1, ThereBelow
  <2>3. QED
    BY <2>1, <2>2
<1>2. ASSUME NEW k \in STRING, NEW w \in There(v, Append(path, Key(k)))
      PROVE  k \in DOMAIN x.fields
  <2>1. Key(k) \in Segment
    BY SegmentForms
  <2>2. PICK y \in There(v, path) : \E c \in Children(y) : c.segment = Key(k)
    BY <1>0, <1>2, <2>1, ThereAbove
  <2>3. PICK c \in Children(x) : c.segment = Key(k)
    BY <2>2, ThereOne
  <2>4. PICK l \in DOMAIN x.fields : c = [segment |-> Key(l), value |-> x.fields[l]]
    BY ChildForms
  <2>5. Key(l) = Key(k)
    BY <2>3, <2>4
  <2>6. l = k
    BY <2>5, SegmentForms
  <2>7. QED
    BY <2>6
<1>3. QED
  BY <1>1, <1>2

\* The items of an array, and nothing else.
LEMMA ThereItem ==
  ASSUME NEW v, IsBody(v), NEW path, NEW x \in There(v, path), x.type = "array"
  PROVE  /\ \A i \in 1..Len(x.items) : i \in Nat /\ x.items[i] \in There(v, Append(path, Index(i)))
         /\ \A i \in Nat : i \notin 1..Len(x.items) => There(v, Append(path, Index(i))) = {}
<1>0. IsNode(x) /\ path \in Path /\ DOMAIN x.items = 1..Len(x.items)
  <2>1. IsNode(x) /\ path \in Path
    BY ThereOne
  <2>2. QED
    BY <2>1, ItemOf
<1>1. ASSUME NEW i \in 1..Len(x.items)
      PROVE  i \in Nat /\ x.items[i] \in There(v, Append(path, Index(i)))
  <2> DEFINE c == [segment |-> Index(i), value |-> x.items[i]]
  <2>1. i \in Nat /\ c \in Children(x) /\ c.segment = Index(i) /\ c.value = x.items[i]
    BY <1>0, ItemOf
  <2> HIDE DEF c
  <2>2. c.value \in There(v, Append(path, c.segment))
    BY <2>1, ThereBelow
  <2>3. QED
    BY <2>1, <2>2
<1>2. ASSUME NEW i \in Nat, NEW w \in There(v, Append(path, Index(i)))
      PROVE  i \in 1..Len(x.items)
  <2>1. Index(i) \in Segment
    BY SegmentForms
  <2>2. PICK y \in There(v, path) : \E c \in Children(y) : c.segment = Index(i)
    BY <1>0, <1>2, <2>1, ThereAbove
  <2>3. PICK c \in Children(x) : c.segment = Index(i)
    BY <2>2, ThereOne
  <2>4. PICK j \in DOMAIN x.items : c = [segment |-> Index(j), value |-> x.items[j]]
    BY ChildForms
  <2>5. Index(j) = Index(i)
    BY <2>3, <2>4
  <2>6. j = i
    BY <2>5, SegmentForms
  <2>7. QED
    BY <1>0, <2>6
<1>3. QED
  BY <1>1, <1>2

\* Every key of the body is in its normal form.
NormalKeys(v) ==
  \A p \in Positions(v) : \A i \in DOMAIN p.path :
    IsKey(p.path[i]) => Nfc(p.path[i].key) = p.path[i].key

\* Where keys are normal, an object keeps its fields under their keys.
LEMMA PlainFields ==
  ASSUME NEW v, IsBody(v), NormalKeys(v), NEW x \in Values(v), x.type = "object", NEW options
  PROVE  Normalized(x.fields, options) = x.fields
<1>1. IsNode(x) /\ x.fields = [k \in DOMAIN x.fields |-> x.fields[k]]
  BY ValueOf, NodeKinds
<1>2. ASSUME NEW k \in DOMAIN x.fields PROVE Nfc(k) = k
  <2>1. PICK p \in Positions(v) : p.value = x
    BY DEF Values
  <2>2. p.path \in Path /\ x \in There(v, p.path)
    BY <2>1, BodyPaths DEF There
  <2>3. k \in STRING /\ x.fields[k] \in There(v, Append(p.path, Key(k)))
    BY <2>2, ThereField
  <2>4. PICK q \in Positions(v) : q.path = Append(p.path, Key(k))
    BY <2>3 DEF There
  <2> DEFINE t == p.path
             n == Len(t) + 1
  <2>5. t \in Seq(Segment) /\ Key(k) \in Segment
    BY <2>2, <2>3, SegmentForms DEF Path
  <2> HIDE DEF t
  <2>6. n \in DOMAIN Append(t, Key(k)) /\ Append(t, Key(k))[n] = Key(k)
    BY <2>5
  <2>7. n \in DOMAIN q.path /\ q.path[n] = Key(k)
    BY <2>4, <2>6 DEF t
  <2>8. IsKey(Key(k)) /\ Key(k).key = k
    BY SegmentForms
  <2> HIDE DEF n
  <2>9. QED
    BY <2>7, <2>8 DEF NormalKeys
<1> DEFINE fields == x.fields
<1> HIDE DEF fields
<1>3. {Nfc(k) : k \in DOMAIN fields} = DOMAIN fields
  BY <1>2 DEF fields
<1>4. \A k \in DOMAIN fields : (CHOOSE l \in DOMAIN fields : Nfc(l) = k) = k
  BY <1>2 DEF fields
<1>5. [k \in {Nfc(l) : l \in DOMAIN fields} |-> fields[CHOOSE l \in DOMAIN fields : Nfc(l) = k]]
        = [k \in DOMAIN fields |-> fields[k]]
  BY <1>3, <1>4
<1>6. Normalized(fields, options) = fields
  BY <1>1, <1>5 DEF Normalized, fields
<1>7. QED
  BY <1>6 DEF fields

\* Options that let nothing pass.
Exact(options) ==
  options.maxDepth \in Nat /\ options.epsilon = 0 /\ options.setPaths = {}

\* The calls on the fields, and on the items, of the values of a call.
FieldCall(c, k) ==
  Call(c.expected.fields[k], c.actual.fields[k], Append(c.path, Key(k)), c.depth + 1)
ItemCall(c, i) ==
  Call(c.expected.items[i], c.actual.items[i], Append(c.path, Index(i)), c.depth + 1)
RemovedFields(c) ==
  {Difference("removed", Append(c.path, Key(k)), c.expected.fields[k], Nothing)
     : k \in DOMAIN c.expected.fields \ DOMAIN c.actual.fields}
AddedFields(c) ==
  {Difference("added", Append(c.path, Key(k)), Nothing, c.actual.fields[k])
     : k \in DOMAIN c.actual.fields \ DOMAIN c.expected.fields}
AddedItems(c) ==
  {Difference("added", Append(c.path, Index(i)), Nothing, c.actual.items[i])
     : i \in (Len(c.expected.items) + 1)..Len(c.actual.items)}
CommonItems(c) ==
  1..(IF Len(c.expected.items) < Len(c.actual.items) THEN Len(c.expected.items) ELSE Len(c.actual.items))
Whole(kind, c) == Difference(kind, c.path, c.expected, c.actual)

\* What comparing exactly finds in values of different types, ...
LEMMA ExactTypes ==
  ASSUME NfcOfTexts, NEW e, IsBody(e), NEW a, IsBody(a), NEW options, Exact(options),
         NEW c \in Calls(e, a), c.depth <= options.maxDepth, c.expected.type # c.actual.type
  PROVE  Diff(e, a, options)[c] = {Whole("type", c)}
<1>1. options.maxDepth \in Nat /\ c.depth \in Nat
  BY CallTypes DEF Exact
<1>2. Diff(e, a, options)[c] = DiffCall(Diff(e, a, options), c, options)
  BY <1>1, DiffIs
<1>3. QED
  BY <1>1, <1>2, DiffCases DEF Whole

\* ... in two objects, ...
LEMMA ExactObjects ==
  ASSUME NfcOfTexts, NEW e, IsBody(e), NEW a, IsBody(a), NormalKeys(e), NormalKeys(a),
         NEW options, Exact(options), NEW c \in Calls(e, a), c.depth <= options.maxDepth,
         c.expected.type = "object", c.actual.type = "object"
  PROVE  Diff(e, a, options)[c] =
           RemovedFields(c) \cup AddedFields(c)
             \cup UNION {Diff(e, a, options)[FieldCall(c, k)]
                           : k \in DOMAIN c.expected.fields \cap DOMAIN c.actual.fields}
<1> DEFINE D == Diff(e, a, options)
<1>1. options.maxDepth \in Nat /\ c.depth \in Nat /\ c.expected \in Values(e) /\ c.actual \in Values(a)
  BY CallTypes DEF Exact
<1>2. D[c] = DiffCall(D, c, options)
  BY <1>1, DiffIs
<1> HIDE DEF D
<1>3. D[c] = DiffObjects(D, c, options)
  BY <1>1, <1>2, DiffCases
<1>4. /\ Normalized(c.expected.fields, options) = c.expected.fields
      /\ Normalized(c.actual.fields, options) = c.actual.fields
  BY <1>1, PlainFields
<1>5. D[c] = RemovedFields(c) \cup AddedFields(c)
               \cup UNION {D[FieldCall(c, k)] : k \in DOMAIN c.expected.fields \cap DOMAIN c.actual.fields}
  BY <1>3, <1>4 DEF DiffObjects, RemovedFields, AddedFields, FieldCall
<1>6. QED
  BY <1>5 DEF D

\* ... in two arrays, ...
LEMMA ExactArrays ==
  ASSUME NfcOfTexts, NEW e, IsBody(e), NEW a, IsBody(a), NEW options, Exact(options),
         NEW c \in Calls(e, a), c.depth <= options.maxDepth,
         c.expected.type = "array", c.actual.type = "array"
  PROVE  Diff(e, a, options)[c] =
           (IF Len(c.expected.items) # Len(c.actual.items) THEN {Whole("length", c)} ELSE {})
             \cup AddedItems(c) \cup UNION {Diff(e, a, options)[ItemCall(c, i)] : i \in CommonItems(c)}
<1> DEFINE D == Diff(e, a, options)
<1>1. options.maxDepth \in Nat /\ c.depth \in Nat /\ c.path \notin options.setPaths
  BY CallTypes DEF Exact
<1>2. D[c] = DiffCall(D, c, options)
  BY <1>1, DiffIs
<1> HIDE DEF D
<1>3. D[c] = DiffOrdered(D, c)
  BY <1>1, <1>2, DiffCases
<1>4. D[c] = (IF Len(c.expected.items) # Len(c.actual.items) THEN {Whole("length", c)} ELSE {})
               \cup AddedItems(c) \cup UNION {D[ItemCall(c, i)] : i \in CommonItems(c)}
  BY <1>3 DEF DiffOrdered, AddedItems, ItemCall, CommonItems, Whole
<1>5. QED
  BY <1>4 DEF D

\* ... and in two values that hold no others.
LEMMA ExactLeaves ==
  ASSUME NfcOfTexts, NEW e, IsBody(e), NEW a, IsBody(a), NEW options, Exact(options),
         NEW c \in Calls(e, a), c.depth <= options.maxDepth,
         c.expected.type = c.actual.type, c.expected.type \notin {"object", "array"}
  PROVE  Diff(e, a, options)[c] = IF c.expected = c.actual THEN {} ELSE {Whole("modified", c)}
<1> DEFINE x == c.expected
           y == c.actual
           D == Diff(e, a, options)
<1>1. options.maxDepth \in Nat /\ options.epsilon = 0
  BY DEF Exact
<1>2. x \in Values(e) /\ y \in Values(a) /\ c.depth \in Nat
  BY CallTypes
<1>3. IsNode(x) /\ IsNode(y)
  BY <1>2, ValueOf
<1>4. D[c] = DiffCall(D, c, options)
  BY <1>1, DiffIs
<1> HIDE DEF D
<1>5. CASE x.type = "number" /\ y.type = "number"
  <2>1. x = Number(x.num) /\ y = Number(y.num) /\ x.num \in Int /\ y.num \in Int
    BY <1>3, <1>5, NumberNode
  <2>2. Close(x, y, options) <=> x = y
    <3> DEFINE i == x.num
               j == y.num
    <3>1. i \in Int /\ j \in Int /\ x = Number(i) /\ y = Number(j)
      BY <2>1
    <3> HIDE DEF i, j
    <3>2. Close(Number(i), Number(j), options) <=> i = j
      BY <1>1, <3>1, CloseIs
    <3>3. Number(i) = Number(j) <=> i = j
      BY DEF Number
    <3> HIDE DEF x, y
    <3>4. QED
      BY <3>1, <3>2, <3>3
  <2>3. D[c] = IF Close(x, y, options) THEN {} ELSE {Whole("modified", c)}
    BY <1>1, <1>2, <1>4, <1>5, DiffCases DEF Whole
  <2> HIDE DEF x, y
  <2>4. D[c] = IF x = y THEN {} ELSE {Whole("modified", c)}
    BY <2>2, <2>3
  <2>5. QED
    BY <2>4 DEF D, x, y
<1>6. CASE ~(x.type = "number" /\ y.type = "number")
  <2>1. D[c] = IF x = y THEN {} ELSE {Whole("modified", c)}
    BY <1>1, <1>2, <1>4, <1>6, DiffCases DEF Whole
  <2>2. QED
    BY <2>1 DEF D
<1>7. QED
  BY <1>5, <1>6

\* A value that is an array.
LEMMA ArrayNode ==
  ASSUME NEW x, IsNode(x), x.type = "array"
  PROVE  x = Array(x.items) /\ x.items \in Seq({x.items[i] : i \in DOMAIN x.items})
BY DEF IsNode

\* Sequences of the same items are the same.
LEMMA SameItems ==
  ASSUME NEW x, IsNode(x), x.type = "array", NEW y, IsNode(y), y.type = "array",
         Len(x.items) = Len(y.items), \A i \in 1..Len(x.items) : x.items[i] = y.items[i]
  PROVE  x = y
<1>1. x = Array(x.items) /\ x.items \in Seq({x.items[i] : i \in DOMAIN x.items})
  BY ArrayNode
<1>2. y = Array(y.items) /\ y.items \in Seq({y.items[i] : i \in DOMAIN y.items})
  BY ArrayNode
<1>3. x.items = y.items
  <2> DEFINE s == x.items
             t == y.items
             R == {s[i] : i \in DOMAIN s}
             Q == {t[i] : i \in DOMAIN t}
  <2>1. s \in Seq(R) /\ t \in Seq(Q) /\ Len(s) = Len(t) /\ \A i \in 1..Len(s) : s[i] = t[i]
    BY <1>1, <1>2
  <2> HIDE DEF s, t, R, Q
  <2>2. s = t
    BY <2>1
  <2>3. QED
    BY <2>2 DEF s, t
<1>4. QED
  BY <1>1, <1>2, <1>3

\* A call on the fields, and on the items, of two values.
LEMMA FieldCalls ==
  ASSUME NEW e, IsBody(e), NEW a, IsBody(a), NEW c \in Calls(e, a),
         c.expected.type = "object", c.actual.type = "object",
         NEW k \in DOMAIN c.expected.fields, k \in DOMAIN c.actual.fields
  PROVE  /\ k \in STRING /\ FieldCall(c, k) \in Calls(e, a)
         /\ FieldCall(c, k).expected = c.expected.fields[k] /\ FieldCall(c, k).actual = c.actual.fields[k]
         /\ FieldCall(c, k).path = Append(c.path, Key(k)) /\ FieldCall(c, k).depth = c.depth + 1
         /\ \E s \in Children(c.expected) : s.value = FieldCall(c, k).expected
<1> DEFINE x == c.expected
           y == c.actual
           u == x.fields[k]
           w == y.fields[k]
           t == Append(c.path, Key(k))
           n == c.depth + 1
<1>1. x \in Values(e) /\ y \in Values(a) /\ c.path \in Path /\ n \in Nat
  BY CallTypes
<1>2. IsNode(x) /\ IsNode(y)
  BY <1>1, ValueOf
<1>3. k \in STRING /\ [segment |-> Key(k), value |-> u] \in Children(x)
  BY <1>2, FieldOf
<1>4. [segment |-> Key(k), value |-> w] \in Children(y)
  BY <1>2, FieldOf
<1>5. u \in Values(e) /\ w \in Values(a) /\ \E s \in Children(x) : s.value = u
  BY <1>1, <1>3, <1>4, ValueOf
<1>6. t \in Path
  BY <1>1, <1>3, SegmentForms, LongerPath
<1>7. FieldCall(c, k) = Call(u, w, t, n)
  BY DEF FieldCall
<1> HIDE DEF x, u, w, t, n
<1>8. /\ Call(u, w, t, n) \in Calls(e, a) /\ Call(u, w, t, n).expected = u /\ Call(u, w, t, n).actual = w
      /\ Call(u, w, t, n).path = t /\ Call(u, w, t, n).depth = n
  BY <1>1, <1>5, <1>6, CallIn
<1>9. QED
  BY <1>3, <1>5, <1>7, <1>8 DEF x, u, w, t, n

\* The same of two arrays.
LEMMA ItemCalls ==
  ASSUME NEW e, IsBody(e), NEW a, IsBody(a), NEW c \in Calls(e, a),
         c.expected.type = "array", c.actual.type = "array",
         NEW i \in 1..Len(c.expected.items), i \in 1..Len(c.actual.items)
  PROVE  /\ i \in Nat /\ ItemCall(c, i) \in Calls(e, a)
         /\ ItemCall(c, i).expected = c.expected.items[i] /\ ItemCall(c, i).actual = c.actual.items[i]
         /\ ItemCall(c, i).path = Append(c.path, Index(i)) /\ ItemCall(c, i).depth = c.depth + 1
         /\ \E s \in Children(c.expected) : s.value = ItemCall(c, i).expected
<1> DEFINE x == c.expected
           y == c.actual
           u == x.items[i]
           w == y.items[i]
           t == Append(c.path, Index(i))
           n == c.depth + 1
<1>1. x \in Values(e) /\ y \in Values(a) /\ c.path \in Path /\ n \in Nat
  BY CallTypes
<1>2. IsNode(x) /\ IsNode(y)
  BY <1>1, ValueOf
<1>3. i \in Nat /\ u \in Values(e) /\ \E s \in Children(x) : s.value = u
  BY <1>1, <1>2, ItemsBelow, ItemsInside
<1>4. w \in Values(a)
  BY <1>1, ItemsInside
<1>6. t \in Path
  BY <1>1, <1>3, SegmentForms, LongerPath
<1>7. ItemCall(c, i) = Call(u, w, t, n)
  BY DEF ItemCall
<1> HIDE DEF x, u, w, t, n
<1>8. /\ Call(u, w, t, n) \in Calls(e, a) /\ Call(u, w, t, n).expected = u /\ Call(u, w, t, n).actual = w
      /\ Call(u, w, t, n).path = t /\ Call(u, w, t, n).depth = n
  BY <1>1, <1>3, <1>4, <1>6, CallIn
<1>9. QED
  BY <1>3, <1>7, <1>8 DEF x, u, w, t, n

\* differ.rs:129: comparing exactly finds no difference only in equal values.
LEMMA SilentEqual ==
  ASSUME NfcOfTexts, NEW e, IsBody(e), NEW a, IsBody(a), NormalKeys(e), NormalKeys(a),
         NEW options, Exact(options)
  PROVE  \A r \in Nat : \A c \in Calls(e, a) :
           /\ Levels(c.expected)[r] = {} /\ c.depth + r <= options.maxDepth + 1
           /\ Diff(e, a, options)[c] = {}
           => c.expected = c.actual
<1> DEFINE D == Diff(e, a, options)
           max == options.maxDepth
           T == {r \in Nat : \A c \in Calls(e, a) :
                   Levels(c.expected)[r] = {} /\ c.depth + r <= max + 1 /\ D[c] = {} => c.expected = c.actual}
<1>0. max \in Nat
  BY DEF Exact
<1>1. 0 \in T
  BY LevelSteps
<1>2. ASSUME NEW r \in Nat, r \in T PROVE r + 1 \in T
  <2>1. ASSUME NEW c \in Calls(e, a), Levels(c.expected)[r + 1] = {}, c.depth + (r + 1) <= max + 1, D[c] = {}
        PROVE  c.expected = c.actual
    <3> DEFINE x == c.expected
               y == c.actual
    <3>1. x \in Values(e) /\ y \in Values(a) /\ c.depth \in Nat
      BY CallTypes
    <3>2. IsNode(x) /\ IsNode(y)
      BY <3>1, ValueOf
    <3>3. c.depth <= max /\ (c.depth + 1) + r <= max + 1
      BY <1>0, <2>1, <3>1
    <3>4. ASSUME NEW d \in Calls(e, a), d.depth = c.depth + 1, \E s \in Children(x) : s.value = d.expected, D[d] = {}
          PROVE  d.expected = d.actual
      <4>1. Levels(d.expected)[r] = {}
        BY <2>1, <3>4, ChildLower
      <4> HIDE DEF D, x
      <4>2. QED
        BY <1>2, <3>3, <3>4, <4>1
    <3>5. x.type = y.type
      BY <2>1, <3>3, ExactTypes
    <3>6. CASE x.type = "object"
      <4>9. c.expected.type = "object" /\ c.actual.type = "object" /\ c.depth <= options.maxDepth
        BY <3>3, <3>5, <3>6
      <4>0. D[c] = RemovedFields(c) \cup AddedFields(c)
               \cup UNION {D[FieldCall(c, k)] : k \in DOMAIN x.fields \cap DOMAIN y.fields}
        BY <4>9, ExactObjects
      <4> HIDE DEF D
      <4>1. DOMAIN x.fields = DOMAIN y.fields
        <5>1. RemovedFields(c) = {} /\ AddedFields(c) = {}
          BY <2>1, <4>0
        <5>2. QED
          BY <5>1 DEF RemovedFields, AddedFields
      <4>2. ASSUME NEW k \in DOMAIN x.fields PROVE x.fields[k] = y.fields[k]
        <5>1. D[FieldCall(c, k)] = {}
          BY <2>1, <4>0, <4>1
        <5>2. /\ FieldCall(c, k) \in Calls(e, a)
              /\ FieldCall(c, k).expected = x.fields[k] /\ FieldCall(c, k).actual = y.fields[k]
              /\ FieldCall(c, k).depth = c.depth + 1 /\ \E s \in Children(x) : s.value = FieldCall(c, k).expected
          <6>1. k \in DOMAIN c.expected.fields /\ k \in DOMAIN c.actual.fields
            BY <4>1
          <6>2. QED
            BY <4>9, <6>1, FieldCalls
        <5> HIDE DEF x, y
        <5>3. FieldCall(c, k).expected = FieldCall(c, k).actual
          BY <3>4, <5>1, <5>2
        <5>4. QED
          BY <5>2, <5>3
      <4>3. /\ x = Object(x.fields) /\ x.fields = [k \in DOMAIN x.fields |-> x.fields[k]]
            /\ y = Object(y.fields) /\ y.fields = [k \in DOMAIN y.fields |-> y.fields[k]]
        BY <3>2, <3>5, <3>6, NodeKinds
      <4>4. x.fields = y.fields
        <5> DEFINE f == x.fields
                   g == y.fields
        <5>1. /\ f = [k \in DOMAIN f |-> f[k]] /\ g = [k \in DOMAIN g |-> g[k]]
              /\ DOMAIN f = DOMAIN g /\ \A k \in DOMAIN f : f[k] = g[k]
          BY <4>1, <4>2, <4>3
        <5> HIDE DEF f, g
        <5>2. f = g
          BY <5>1
        <5>3. QED
          BY <5>2 DEF f, g
      <4>5. QED
        BY <4>3, <4>4
    <3>7. CASE x.type = "array"
      <4>9. c.expected.type = "array" /\ c.actual.type = "array" /\ c.depth <= options.maxDepth
        BY <3>3, <3>5, <3>7
      <4>0. D[c] = (IF Len(x.items) # Len(y.items) THEN {Whole("length", c)} ELSE {})
                     \cup AddedItems(c) \cup UNION {D[ItemCall(c, i)] : i \in CommonItems(c)}
        BY <4>9, ExactArrays
      <4> HIDE DEF D
      <4>1. Len(x.items) = Len(y.items) /\ Len(x.items) \in Nat
        <5>1. Len(x.items) \in Nat
          BY <3>2, <3>7, ItemOf
        <5>2. QED
          BY <2>1, <4>0, <5>1
      <4>2. ASSUME NEW i \in 1..Len(x.items) PROVE x.items[i] = y.items[i]
        <5>0. i \in CommonItems(c) /\ i \in 1..Len(y.items)
          BY <4>1 DEF CommonItems
        <5>1. D[ItemCall(c, i)] = {}
          BY <2>1, <4>0, <5>0
        <5>2. /\ ItemCall(c, i) \in Calls(e, a)
              /\ ItemCall(c, i).expected = x.items[i] /\ ItemCall(c, i).actual = y.items[i]
              /\ ItemCall(c, i).depth = c.depth + 1 /\ \E s \in Children(x) : s.value = ItemCall(c, i).expected
          <6>1. i \in 1..Len(c.expected.items) /\ i \in 1..Len(c.actual.items)
            BY <5>0
          <6>2. QED
            BY <4>9, <6>1, ItemCalls
        <5> HIDE DEF x, y
        <5>3. ItemCall(c, i).expected = ItemCall(c, i).actual
          BY <3>4, <5>1, <5>2
        <5>4. QED
          BY <5>2, <5>3
      <4>3. QED
        BY <3>2, <3>5, <3>7, <4>1, <4>2, SameItems
    <3>8. CASE x.type \notin {"object", "array"}
      <4>1. D[c] = IF x = y THEN {} ELSE {Whole("modified", c)}
        BY <3>3, <3>5, <3>8, ExactLeaves
      <4>2. QED
        BY <2>1, <4>1
    <3>9. QED
      BY <3>6, <3>7, <3>8
  <2>2. QED
    BY <2>1
<1>3. Nat \subseteq T
  <2> HIDE DEF T
  <2>1. QED
    BY <1>1, <1>2, SetInduction
<1>4. QED
  BY <1>3

\* differ.rs:129: where comparing exactly finds a difference, the bodies differ.
LEMMA FindsDifferent ==
  ASSUME NfcOfTexts, NEW e, IsBody(e), NEW a, IsBody(a), NormalKeys(e), NormalKeys(a),
         NEW options, Exact(options)
  PROVE  \A r \in Nat : \A c \in Calls(e, a) :
           /\ Levels(c.expected)[r] = {} /\ c.depth + r <= options.maxDepth + 1
           /\ c.expected \in There(e, c.path) /\ c.actual \in There(a, c.path)
           => \A d \in Diff(e, a, options)[c] : There(e, d.path) # There(a, d.path)
<1> DEFINE D == Diff(e, a, options)
           max == options.maxDepth
           Differ(d) == There(e, d.path) # There(a, d.path)
           In(c) == c.expected \in There(e, c.path) /\ c.actual \in There(a, c.path)
           T == {r \in Nat : \A c \in Calls(e, a) :
                   Levels(c.expected)[r] = {} /\ c.depth + r <= max + 1 /\ In(c) => \A d \in D[c] : Differ(d)}
<1>0. max \in Nat
  BY DEF Exact
<1>1. 0 \in T
  BY LevelSteps
<1>2. ASSUME NEW r \in Nat, r \in T PROVE r + 1 \in T
  <2>1. ASSUME NEW c \in Calls(e, a), Levels(c.expected)[r + 1] = {}, c.depth + (r + 1) <= max + 1, In(c),
               NEW d \in D[c]
        PROVE  Differ(d)
    <3> DEFINE x == c.expected
               y == c.actual
               path == c.path
    <3>1. x \in Values(e) /\ y \in Values(a) /\ c.depth \in Nat /\ path \in Path
      BY CallTypes
    <3>2. x \in There(e, path) /\ y \in There(a, path)
      BY <2>1
    <3>3. c.depth <= max /\ (c.depth + 1) + r <= max + 1
      BY <1>0, <2>1, <3>1
    <3>4. ASSUME NEW b \in Calls(e, a), b.depth = c.depth + 1, \E s \in Children(x) : s.value = b.expected,
                 In(b), NEW f \in D[b]
          PROVE  Differ(f)
      <4>1. Levels(b.expected)[r] = {}
        BY <2>1, <3>4, ChildLower
      <4> HIDE DEF D, x, Differ, In
      <4>2. QED
        BY <1>2, <3>3, <3>4, <4>1
    <3>5. x # y => There(e, path) # There(a, path)
      BY <3>2, ThereOne
    <3>6. \A kind, t, old, new : Difference(kind, t, old, new).path = t
      BY DEF Difference
    <3>7. \A kind : x # y => Differ(Whole(kind, c))
      BY <3>5, <3>6 DEF Whole
    <3>8. CASE x.type # y.type
      <4>1. D[c] = {Whole("type", c)}
        BY <3>3, <3>8, ExactTypes
      <4> HIDE DEF D, Differ
      <4>2. QED
        BY <2>1, <3>7, <3>8, <4>1
    <3>9. CASE x.type = "object" /\ y.type = "object"
      <4>1. c.expected.type = "object" /\ c.actual.type = "object" /\ c.depth <= options.maxDepth
        BY <3>3, <3>9
      <4>2. D[c] = RemovedFields(c) \cup AddedFields(c)
               \cup UNION {D[FieldCall(c, k)] : k \in DOMAIN x.fields \cap DOMAIN y.fields}
        BY <4>1, ExactObjects
      <4> HIDE DEF D
      <4>3. /\ \A k \in DOMAIN x.fields : k \in STRING /\ x.fields[k] \in There(e, Append(path, Key(k)))
            /\ \A k \in STRING : k \notin DOMAIN x.fields => There(e, Append(path, Key(k))) = {}
        BY <3>2, <3>9, ThereField
      <4>4. /\ \A k \in DOMAIN y.fields : k \in STRING /\ y.fields[k] \in There(a, Append(path, Key(k)))
            /\ \A k \in STRING : k \notin DOMAIN y.fields => There(a, Append(path, Key(k))) = {}
        BY <3>2, <3>9, ThereField
      <4>5. CASE d \in RemovedFields(c)
        <5>1. PICK k \in DOMAIN x.fields \ DOMAIN y.fields : d.path = Append(path, Key(k))
          BY <4>5 DEF RemovedFields, Difference
        <5>2. There(e, Append(path, Key(k))) # {} /\ There(a, Append(path, Key(k))) = {}
          BY <4>3, <4>4
        <5>3. QED
          BY <5>1, <5>2
      <4>6. CASE d \in AddedFields(c)
        <5>1. PICK k \in DOMAIN y.fields \ DOMAIN x.fields : d.path = Append(path, Key(k))
          BY <4>6 DEF AddedFields, Difference
        <5>2. There(a, Append(path, Key(k))) # {} /\ There(e, Append(path, Key(k))) = {}
          BY <4>3, <4>4
        <5>3. QED
          BY <5>1, <5>2
      <4>7. ASSUME NEW k \in DOMAIN x.fields \cap DOMAIN y.fields, d \in D[FieldCall(c, k)]
            PROVE  Differ(d)
        <5> DEFINE b == FieldCall(c, k)
        <5>1. k \in DOMAIN c.expected.fields /\ k \in DOMAIN c.actual.fields
          OBVIOUS
        <5>2. /\ b \in Calls(e, a) /\ b.expected = x.fields[k] /\ b.actual = y.fields[k]
              /\ b.path = Append(path, Key(k)) /\ b.depth = c.depth + 1
              /\ \E s \in Children(x) : s.value = b.expected
          BY <4>1, <5>1, FieldCalls
        <5>3. In(b)
          BY <4>3, <4>4, <5>2
        <5> HIDE DEF x, y, path, In, Differ
        <5>4. QED
          BY <3>4, <4>7, <5>2, <5>3
      <4> HIDE DEF Differ
      <4>8. QED
        BY <2>1, <4>2, <4>5, <4>6, <4>7
    <3>10. CASE x.type = "array" /\ y.type = "array"
      <4>1. c.expected.type = "array" /\ c.actual.type = "array" /\ c.depth <= options.maxDepth
        BY <3>3, <3>10
      <4>2. D[c] = (IF Len(x.items) # Len(y.items) THEN {Whole("length", c)} ELSE {})
                     \cup AddedItems(c) \cup UNION {D[ItemCall(c, i)] : i \in CommonItems(c)}
        BY <4>1, ExactArrays
      <4> HIDE DEF D
      <4>3. /\ \A i \in 1..Len(x.items) : i \in Nat /\ x.items[i] \in There(e, Append(path, Index(i)))
            /\ \A i \in Nat : i \notin 1..Len(x.items) => There(e, Append(path, Index(i))) = {}
        BY <3>2, <3>10, ThereItem
      <4>4. \A i \in 1..Len(y.items) : i \in Nat /\ y.items[i] \in There(a, Append(path, Index(i)))
        BY <3>2, <3>10, ThereItem
      <4>5. Len(x.items) \in Nat /\ Len(y.items) \in Nat
        BY <3>1, <3>10, ItemsInside
      <4>6. CASE d = Whole("length", c) /\ Len(x.items) # Len(y.items)
        <5>1. x # y
          BY <4>6
        <5> HIDE DEF x, y, Differ
        <5>2. QED
          BY <3>7, <4>6, <5>1
      <4>7. CASE d \in AddedItems(c)
        <5>1. PICK i \in (Len(x.items) + 1)..Len(y.items) : d.path = Append(path, Index(i))
          BY <4>7 DEF AddedItems, Difference
        <5>2. i \in 1..Len(y.items) /\ i \notin 1..Len(x.items) /\ i \in Nat
          BY <4>5
        <5>3. There(a, Append(path, Index(i))) # {} /\ There(e, Append(path, Index(i))) = {}
          BY <4>3, <4>4, <5>2
        <5>4. QED
          BY <5>1, <5>3
      <4>8. ASSUME NEW i \in CommonItems(c), d \in D[ItemCall(c, i)]
            PROVE  Differ(d)
        <5> DEFINE b == ItemCall(c, i)
        <5>1. i \in 1..Len(c.expected.items) /\ i \in 1..Len(c.actual.items)
          BY <4>5 DEF CommonItems
        <5>2. /\ b \in Calls(e, a) /\ b.expected = x.items[i] /\ b.actual = y.items[i]
              /\ b.path = Append(path, Index(i)) /\ b.depth = c.depth + 1
              /\ \E s \in Children(x) : s.value = b.expected
          BY <4>1, <5>1, ItemCalls
        <5>3. In(b)
          BY <4>3, <4>4, <5>1, <5>2
        <5> HIDE DEF x, y, path, In, Differ
        <5>4. QED
          BY <3>4, <4>8, <5>2, <5>3
      <4> HIDE DEF Differ
      <4>9. QED
        BY <2>1, <4>2, <4>6, <4>7, <4>8
    <3>11. CASE x.type = y.type /\ x.type \notin {"object", "array"}
      <4>1. D[c] = IF x = y THEN {} ELSE {Whole("modified", c)}
        BY <3>3, <3>11, ExactLeaves
      <4> HIDE DEF D, Differ, x, y
      <4>2. QED
        BY <2>1, <3>7, <4>1
    <3>12. QED
      BY <3>8, <3>9, <3>10, <3>11
  <2> HIDE DEF In, Differ
  <2>2. QED
    BY <2>1
<1>3. Nat \subseteq T
  <2> HIDE DEF T
  <2>1. QED
    BY <1>1, <1>2, SetInduction
<1>4. QED
  BY <1>3

\* What a call at a path that both bodies have finds is found.
LEMMA Descent ==
  ASSUME NfcOfTexts, NEW e, IsBody(e), NEW a, IsBody(a), NormalKeys(e), NormalKeys(a),
         NEW options, Exact(options), Nesting <= options.maxDepth
  PROVE  \A n \in Nat : \A path \in Path : \A x \in There(e, path), y \in There(a, path) :
           Len(path) = n =>
             Diff(e, a, options)[Call(x, y, path, n)] \subseteq Diff(e, a, options)[Call(e, a, <<>>, 0)]
<1> DEFINE D == Diff(e, a, options)
           All == D[Call(e, a, <<>>, 0)]
           T == {n \in Nat : \A path \in Path : \A x \in There(e, path), y \in There(a, path) :
                   Len(path) = n => D[Call(x, y, path, n)] \subseteq All}
<1>0. options.maxDepth \in Nat /\ Nesting \in Nat
  BY NestingAssumption DEF Exact
<1>1. 0 \in T
  <2>1. ASSUME NEW path \in Path, NEW x \in There(e, path), NEW y \in There(a, path), Len(path) = 0
        PROVE  x = e /\ y = a /\ path = <<>>
    <3>1. path = <<>>
      BY <2>1 DEF Path
    <3>2. ASSUME NEW v, IsBody(v) PROVE v \in There(v, <<>>)
      <4>1. Position(<<>>, v) \in Positions(v) /\ Position(<<>>, v).path = <<>> /\ Position(<<>>, v).value = v
        BY <3>2, BodyPositions, Fields
      <4>2. QED
        BY <4>1 DEF There
    <3>3. QED
      BY <3>1, <3>2, ThereOne
  <2> HIDE DEF D
  <2>2. QED
    BY <2>1
<1>2. ASSUME NEW n \in Nat, n \in T PROVE n + 1 \in T
  <2>1. ASSUME NEW path \in Path, NEW x \in There(e, path), NEW y \in There(a, path), Len(path) = n + 1
        PROVE  D[Call(x, y, path, n + 1)] \subseteq All
    <3>1. PICK t \in Path, s \in Segment : path = Append(t, s)
      <4> DEFINE R == Segment
      <4>1. path \in Seq(R) /\ Len(path) = n + 1
        BY <2>1 DEF Path
      <4> HIDE DEF R
      <4>2. \E t \in Seq(R) : \E s \in R : path = Append(t, s)
        <5> DEFINE t == SubSeq(path, 1, n)
                   s == path[n + 1]
        <5>1. t \in Seq(R) /\ s \in R /\ path = Append(t, s)
          BY <4>1
        <5> HIDE DEF t, s
        <5>2. QED
          BY <5>1
      <4>3. QED
        BY <4>2 DEF R, Path
    <3>2. Len(t) = n
      BY <2>1, <3>1, LongerPath
    <3>3. PICK u \in There(e, t) : \E i \in Children(u) : i.value = x /\ i.segment = s
      BY <2>1, <3>1, ThereAbove
    <3>4. PICK w \in There(a, t) : \E i \in Children(w) : i.value = y /\ i.segment = s
      BY <2>1, <3>1, ThereAbove
    <3>5. u \in Values(e) /\ IsNode(u) /\ w \in Values(a) /\ IsNode(w) /\ n <= Nesting
      BY <3>2, ThereOne
    <3> DEFINE c == Call(u, w, t, n)
    <3>6. c \in Calls(e, a) /\ c.expected = u /\ c.actual = w /\ c.path = t /\ c.depth = n
      BY <3>5, CallIn
    <3>7. D[c] \subseteq All
      BY <1>2, <3>2
    <3>8. c.depth <= options.maxDepth
      BY <1>0, <3>5, <3>6
    <3> HIDE DEF c, D, All
    <3>9. PICK i \in Children(u) : i.value = x /\ i.segment = s
      BY <3>3
    <3>10. PICK j \in Children(w) : j.value = y /\ j.segment = s
      BY <3>4
    <3>11. CASE u.type = "object"
      <4>1. PICK k \in DOMAIN u.fields : i = [segment |-> Key(k), value |-> u.fields[k]]
        BY <3>11, ChildForms
      <4>2. s = Key(k) /\ x = u.fields[k]
        BY <3>9, <4>1
      <4>3. w.type = "object" /\ k \in DOMAIN w.fields /\ y = w.fields[k]
        <5>1. \A m \in DOMAIN w.items : Index(m) # Key(k)
          BY SegmentForms
        <5>2. PICK l \in DOMAIN w.fields : w.type = "object" /\ j = [segment |-> Key(l), value |-> w.fields[l]]
          BY <3>10, <4>2, <5>1, ChildForms
        <5>3. Key(l) = Key(k) /\ y = w.fields[l]
          BY <3>10, <4>2, <5>2
        <5>4. l = k
          BY <5>3, SegmentForms
        <5>5. QED
          BY <5>2, <5>3, <5>4
      <4>4. c.expected.type = "object" /\ c.actual.type = "object"
        BY <3>6, <3>11, <4>3
      <4>5. D[c] = RemovedFields(c) \cup AddedFields(c)
               \cup UNION {D[FieldCall(c, m)] : m \in DOMAIN c.expected.fields \cap DOMAIN c.actual.fields}
        BY <3>6, <3>8, <4>4, ExactObjects DEF D
      <4>6. D[FieldCall(c, k)] \subseteq D[c]
        BY <3>6, <4>1, <4>3, <4>5
      <4>7. FieldCall(c, k) = Call(x, y, path, n + 1)
        BY <3>1, <3>6, <4>2, <4>3 DEF FieldCall
      <4>8. QED
        BY <3>7, <4>6, <4>7
    <3>12. CASE u.type = "array"
      <4>1. PICK k \in DOMAIN u.items : i = [segment |-> Index(k), value |-> u.items[k]]
        BY <3>12, ChildForms
      <4>2. s = Index(k) /\ x = u.items[k]
        BY <3>9, <4>1
      <4>3. w.type = "array" /\ k \in DOMAIN w.items /\ y = w.items[k]
        <5>1. \A m \in DOMAIN w.fields : Index(k) # Key(m)
          BY SegmentForms
        <5>2. PICK l \in DOMAIN w.items : w.type = "array" /\ j = [segment |-> Index(l), value |-> w.items[l]]
          BY <3>10, <4>2, <5>1, ChildForms
        <5>3. Index(l) = Index(k) /\ y = w.items[l]
          BY <3>10, <4>2, <5>2
        <5>4. l = k
          BY <5>3, SegmentForms
        <5>5. QED
          BY <5>2, <5>3, <5>4
      <4>4. c.expected.type = "array" /\ c.actual.type = "array"
        BY <3>6, <3>12, <4>3
      <4>5. D[c] = (IF Len(c.expected.items) # Len(c.actual.items) THEN {Whole("length", c)} ELSE {})
                     \cup AddedItems(c) \cup UNION {D[ItemCall(c, m)] : m \in CommonItems(c)}
        BY <3>6, <3>8, <4>4, ExactArrays DEF D
      <4>6. k \in CommonItems(c)
        <5>1. /\ Len(u.items) \in Nat /\ DOMAIN u.items = 1..Len(u.items)
              /\ Len(w.items) \in Nat /\ DOMAIN w.items = 1..Len(w.items)
          BY <3>5, <3>12, <4>3, ItemOf
        <5>2. QED
          BY <3>6, <4>1, <4>3, <5>1 DEF CommonItems
      <4>7. D[ItemCall(c, k)] \subseteq D[c]
        BY <4>5, <4>6
      <4>8. ItemCall(c, k) = Call(x, y, path, n + 1)
        BY <3>1, <3>6, <4>2, <4>3 DEF ItemCall
      <4>9. QED
        BY <3>7, <4>7, <4>8
    <3>13. u.type \in {"object", "array"}
      BY <3>9, ChildForms
    <3>14. QED
      BY <3>11, <3>12, <3>13
  <2> HIDE DEF D, All
  <2>2. QED
    BY <2>1
<1>3. Nat \subseteq T
  <2> HIDE DEF T
  <2>1. QED
    BY <1>1, <1>2, SetInduction
<1>4. QED
  BY <1>3

\* blast_radius.rs: the findings, one for each consumer that something is triggered for.
LEMMA Findings ==
  ASSUME NEW diffs, NEW consumers, NEW c \in consumers
  PROVE  LET found == {f \in Calculate(diffs, consumers) : f.consumer = c}
             f == [consumer |-> c, paths |-> Triggered(diffs, c),
                   critical |-> Triggered({d \in diffs : Critical(d)}, c) # {}]
         IN  found = IF Triggered(diffs, c) = {} THEN {} ELSE {f}
<1> DEFINE Of(x) == [consumer |-> x, paths |-> Triggered(diffs, x),
                     critical |-> Triggered({d \in diffs : Critical(d)}, x) # {}]
<1>1. \A x : Of(x).consumer = x
  OBVIOUS
<1>2. Calculate(diffs, consumers) = {Of(x) : x \in {y \in consumers : Triggered(diffs, y) # {}}}
  BY DEF Calculate
<1> HIDE DEF Of
<1>3. {f \in Calculate(diffs, consumers) : f.consumer = c} = IF Triggered(diffs, c) = {} THEN {} ELSE {Of(c)}
  BY <1>1, <1>2
<1>4. QED
  BY <1>3 DEF Of

\* A field that is gone is told, as removed, at its path.
LEMMA GoneIsTold ==
  ASSUME NfcOfTexts, NEW e, IsBody(e), NEW a, IsBody(a), NormalKeys(e), NormalKeys(a),
         NEW options, Exact(options), Nesting <= options.maxDepth, NEW path,
         path # <<>>, There(e, path) # {}, There(a, path) = {},
         \E o \in There(e, SubSeq(path, 1, Len(path) - 1)) : o.type = "object",
         \E o \in There(a, SubSeq(path, 1, Len(path) - 1)) : o.type = "object"
  PROVE  \E d \in Diff(e, a, options)[Call(e, a, <<>>, 0)] : d.kind = "removed" /\ d.path = path
<1> DEFINE t == SubSeq(path, 1, Len(path) - 1)
           s == path[Len(path)]
<1>0. options.maxDepth \in Nat /\ Nesting \in Nat
  BY NestingAssumption DEF Exact
<1>1. t \in Path /\ s \in Segment /\ path = Append(t, s)
  <2> DEFINE R == Segment
  <2>1. path \in Seq(R) /\ path # <<>>
    BY ThereOne DEF Path
  <2> HIDE DEF R
  <2>2. SubSeq(path, 1, Len(path) - 1) \in Seq(R) /\ path[Len(path)] \in R
    BY <2>1
  <2>3. path = Append(SubSeq(path, 1, Len(path) - 1), path[Len(path)])
    BY <2>1
  <2>4. QED
    BY <2>2, <2>3 DEF R, Path
<1>2. PICK u \in There(e, t) : u.type = "object"
  OBVIOUS
<1>3. PICK w \in There(a, t) : w.type = "object"
  OBVIOUS
<1> HIDE DEF t, s
<1>4. PICK x \in There(e, t) : \E i \in Children(x) : i.segment = s
  BY <1>1, ThereAbove
<1>5. x = u /\ u \in Values(e) /\ w \in Values(a) /\ Len(t) \in Nat /\ Len(t) <= Nesting
  BY <1>2, <1>3, <1>4, ThereOne
<1>6. PICK k \in DOMAIN u.fields : s = Key(k)
  BY <1>2, <1>4, <1>5, ChildForms
<1>7. k \in STRING /\ k \notin DOMAIN w.fields
  <2>1. k \in STRING
    BY <1>2, <1>6, ThereField
  <2>2. k \in DOMAIN w.fields => w.fields[k] \in There(a, path)
    BY <1>1, <1>3, <1>6, ThereField
  <2>3. QED
    BY <2>1, <2>2
<1> DEFINE n == Len(t)
           c == Call(u, w, t, n)
           D == Diff(e, a, options)
<1>8. c \in Calls(e, a) /\ c.expected = u /\ c.actual = w /\ c.path = t /\ c.depth = n
  BY <1>1, <1>5, CallIn
<1>9. D[c] \subseteq D[Call(e, a, <<>>, 0)]
  BY <1>1, <1>5, Descent
<1>10. c.depth <= options.maxDepth
  BY <1>0, <1>5, <1>8
<1> HIDE DEF c, n
<1>11. RemovedFields(c) \subseteq D[c]
  <2>1. c.expected.type = "object" /\ c.actual.type = "object"
    BY <1>2, <1>3, <1>8
  <2>2. QED
    BY <1>8, <1>10, <2>1, ExactObjects
<1> HIDE DEF D
<1>12. Difference("removed", path, u.fields[k], Nothing) \in RemovedFields(c)
  BY <1>1, <1>6, <1>7, <1>8 DEF RemovedFields
<1>13. /\ Difference("removed", path, u.fields[k], Nothing).kind = "removed"
       /\ Difference("removed", path, u.fields[k], Nothing).path = path
  BY DEF Difference
<1>14. \E d \in D[Call(e, a, <<>>, 0)] : d.kind = "removed" /\ d.path = path
  BY <1>9, <1>11, <1>12, <1>13
<1>15. QED
  BY <1>14 DEF D

\* blast_radius.rs:21: each consumer hears of what concerns it, and of nothing else.
THEOREM EngineBlastTells ==
  ASSUME NfcOfTexts, Nesting <= DefaultDepth
  PROVE  EngineSpec => []BlastTells
<1>1. EngineIInv => BlastTells
  <2> DEFINE e == stored
             a == MaskValue(answered, Undepthed)
  <2> SUFFICES ASSUME EngineIInv, phase = "blasted", NormalKeys(e), NormalKeys(a),
                      NEW c \in Consumers
               PROVE  LET At(v, path) == {p.value : p \in {q \in Positions(v) : q.path = path}}
                          Gone(path) == /\ path # <<>> /\ IsKey(path[Len(path)])
                                        /\ At(e, path) # {} /\ At(a, path) = {}
                                        /\ \A v \in {e, a} :
                                             \E o \in At(v, SubSeq(path, 1, Len(path) - 1)) : o.type = "object"
                          Finding == {f \in report : f.consumer = c}
                      IN  /\ c = {} => (Finding # {} <=> e # a)
                          /\ \A path \in c : Gone(path) => \E f \in Finding : f.critical /\ path \in f.paths
                          /\ c # {} =>
                               \A f \in Finding : \A path \in f.paths : At(e, path) # At(a, path)
    BY DEF BlastTells, NormalKeys
  <2> DEFINE options == DefaultOptions
             root == Call(e, a, <<>>, 0)
             D == Diff(e, a, options)
             diffs == CompareJsonAst(e, a, options)
             Finding == {f \in report : f.consumer = c}
  <2>1. IsBody(e) /\ IsBody(a) /\ report = Calculate(diffs, Consumers)
    <3>1. /\ settings \in Settings /\ recorded \in Bodies /\ answered \in Bodies
          /\ stored = MaskValue(recorded, settings) /\ report = Calculate(diffs, Consumers)
      BY DEF EngineIInv
    <3>2. IsSettings(settings) /\ IsBody(recorded) /\ IsBody(answered)
      BY <3>1, EngineAssumption
    <3>3. settings.maxDepth \in Nat /\ Undepthed.maxDepth \in Nat
      BY <3>2 DEF IsSettings, Undepthed, DefaultDepth
    <3>4. QED
      BY <3>1, <3>2, <3>3, MaskedBody
  <2>2. Exact(options) /\ options.maxDepth = DefaultDepth
    BY DEF Exact, DefaultOptions, DefaultDepth
  <2>3. diffs = IF e = a THEN {} ELSE D[root]
    BY DEF CompareJsonAst
  <2> HIDE DEF e, a
  <2>4. /\ <<>> \in Path /\ e \in Values(e) /\ a \in Values(a)
        /\ root \in Calls(e, a) /\ root.expected = e /\ root.actual = a
        /\ root.path = <<>> /\ root.depth = 0
    BY <2>1, RootCall
  <2> DEFINE r == Nesting + 1
  <2>5. r \in Nat /\ Levels(e)[r] = {} /\ root.depth + r <= options.maxDepth + 1
        /\ Nesting <= options.maxDepth
    BY <2>1, <2>2, <2>4, NestingAssumption DEF IsBody, DefaultDepth
  <2>6. root.expected \in There(e, root.path) /\ root.actual \in There(a, root.path)
    <3>1. ASSUME NEW v, IsBody(v) PROVE v \in There(v, <<>>)
      <4>1. Position(<<>>, v) \in Positions(v) /\ Position(<<>>, v).path = <<>> /\ Position(<<>>, v).value = v
        BY <3>1, BodyPositions, Fields
      <4>2. QED
        BY <4>1 DEF There
    <3>2. QED
      BY <2>1, <2>4, <3>1
  <2> HIDE DEF root, options, r
  <2>7. diffs = {} <=> e = a
    <3>1. D[root] = {} => e = a
      BY <2>1, <2>2, <2>4, <2>5, SilentEqual
    <3> HIDE DEF D, diffs
    <3>2. QED
      BY <2>3, <3>1
  <2>8. \A d \in diffs : There(e, d.path) # There(a, d.path)
    <3>1. \A d \in D[root] : There(e, d.path) # There(a, d.path)
      BY <2>1, <2>2, <2>4, <2>5, <2>6, FindsDifferent
    <3> HIDE DEF D, diffs
    <3>2. QED
      BY <2>3, <3>1
  <2>9. ASSUME NEW path, path # <<>>, There(e, path) # {}, There(a, path) = {},
               \E o \in There(e, SubSeq(path, 1, Len(path) - 1)) : o.type = "object",
               \E o \in There(a, SubSeq(path, 1, Len(path) - 1)) : o.type = "object"
        PROVE  \E d \in diffs : d.kind = "removed" /\ d.path = path
    <3>1. \E d \in D[root] : d.kind = "removed" /\ d.path = path
      BY <2>1, <2>2, <2>5, <2>9, GoneIsTold DEF root
    <3>2. e # a
      BY <2>9
    <3> HIDE DEF D, diffs
    <3>3. QED
      BY <2>3, <3>1, <3>2
  <2> DEFINE told == [consumer |-> c, paths |-> Triggered(diffs, c),
                      critical |-> Triggered({d \in diffs : Critical(d)}, c) # {}]
  <2>10. Finding = IF Triggered(diffs, c) = {} THEN {} ELSE {told}
    BY <2>1, Findings
  <2>11. told.paths = Triggered(diffs, c) /\ told.critical = (Triggered({d \in diffs : Critical(d)}, c) # {})
    OBVIOUS
  <2> HIDE DEF diffs, Finding, told, D
  <2>12. c = {} => (Finding # {} <=> e # a)
    <3>1. c = {} => (Triggered(diffs, c) = {} <=> diffs = {})
      BY DEF Triggered
    <3>2. QED
      BY <2>7, <2>10, <3>1
  <2>13. ASSUME NEW path \in c, path # <<>>, There(e, path) # {}, There(a, path) = {},
                \E o \in There(e, SubSeq(path, 1, Len(path) - 1)) : o.type = "object",
                \E o \in There(a, SubSeq(path, 1, Len(path) - 1)) : o.type = "object"
         PROVE  \E f \in Finding : f.critical /\ path \in f.paths
    <3>1. PICK d \in diffs : d.kind = "removed" /\ d.path = path
      BY <2>9, <2>13
    <3>2. path \in Triggered(diffs, c)
      BY <3>1 DEF Triggered
    <3>3. path \in Triggered({x \in diffs : Critical(x)}, c)
      BY <3>1 DEF Triggered, Critical
    <3>4. QED
      BY <2>10, <2>11, <3>2, <3>3
  <2>14. ASSUME c # {}, NEW f \in Finding, NEW path \in f.paths
         PROVE  There(e, path) # There(a, path)
    <3>1. path \in Triggered(diffs, c)
      BY <2>10, <2>11, <2>14
    <3>2. QED
      BY <2>8, <3>1 DEF Triggered
  <2>15. QED
    BY <2>12, <2>13, <2>14 DEF There, Finding
<1>2. QED
  BY <1>1, EngineIInvInit, EngineIInvStep, PTL DEF EngineSpec
=============================================================================
