----------------------------- MODULE Recursion ------------------------------
(***************************************************************************)
(* Induction over the natural numbers, and that a function on them that is *)
(* defined by recursion exists.  Both are stated about sets and functions  *)
(* in place of predicates and operators, so that they can be cited for a   *)
(* set or a function that a proof defines.                                 *)
(***************************************************************************)
EXTENDS Integers, WellFoundedInduction, TLAPS

Smaller == {p \in Nat \X Nat : p[1] < p[2]}

\* f has the first value, and up to n each value comes from the one before it.
Follows(f, n, first, step) ==
  /\ f[0] = first
  /\ \A i \in 0..(n - 1) : f[i + 1] = step[<<i, f[i]>>]

\* Values in V: a first one, and from each the next.
StepsIn(V, first, step) == first \in V /\ step \in [Nat \X V -> V]

\* f is the function that the recursion defines.
Defines(f, first, step) ==
  f[0] = first /\ \A n \in Nat : f[n + 1] = step[<<n, f[n]>>]

\* The same up to a number.
DefinesUpTo(f, end, first, step) ==
  f[0] = first /\ \A n \in 1..end : f[n] = step[<<n - 1, f[n - 1]>>]

-----------------------------------------------------------------------------
\* A set that holds 0, and with each number the next one, holds all of them.
THEOREM SetInduction ==
  ASSUME NEW T, 0 \in T, \A n \in Nat : n \in T => n + 1 \in T
  PROVE  Nat \subseteq T
<1>1. IsWellFoundedOn(Smaller, Nat)
  BY NatLessThanWellFounded DEF OpToRel, Smaller
<1>2. SUFFICES ASSUME Nat \ T # {} PROVE FALSE
  OBVIOUS
<1>3. PICK m \in Nat \ T : \A n \in Nat \ T : <<n, m>> \notin Smaller
  BY <1>1, <1>2, WFMin
<1>4. \A n \in Nat \ T : ~(n < m)
  BY <1>3 DEF Smaller
<1>5. m - 1 \in Nat \ T
  BY <1>3
<1>6. QED
  BY <1>4, <1>5

\* However far, some function follows the steps.
LEMMA Approximation ==
  ASSUME NEW V, NEW first \in V, NEW step \in [Nat \X V -> V], NEW n \in Nat
  PROVE  \E f \in [Nat -> V] : Follows(f, n, first, step)
<1> DEFINE T == {k \in Nat : \E f \in [Nat -> V] : Follows(f, k, first, step)}
<1>1. 0 \in T
  <2>1. Follows([k \in Nat |-> first], 0, first, step)
    BY DEF Follows
  <2>2. [k \in Nat |-> first] \in [Nat -> V]
    OBVIOUS
  <2>3. QED
    BY <2>1, <2>2
<1>2. ASSUME NEW k \in Nat, k \in T PROVE k + 1 \in T
  <2>1. PICK f \in [Nat -> V] : Follows(f, k, first, step)
    BY <1>2
  <2> DEFINE g == [f EXCEPT ![k + 1] = step[<<k, f[k]>>]]
  <2>2. g \in [Nat -> V]
    OBVIOUS
  <2>3. Follows(g, k + 1, first, step)
    BY <2>1 DEF Follows
  <2> HIDE DEF g
  <2>4. QED
    BY <2>2, <2>3
<1>3. Nat \subseteq T
  <2> HIDE DEF T
  <2>1. QED
    BY <1>1, <1>2, SetInduction
<1>4. QED
  BY <1>3

\* Functions that follow the same steps agree as far as both do.
LEMMA Agreement ==
  ASSUME NEW V, NEW first \in V, NEW step \in [Nat \X V -> V],
         NEW m \in Nat, NEW n \in Nat, NEW f, NEW g,
         Follows(f, m, first, step), Follows(g, n, first, step)
  PROVE  \A k \in Nat : k <= m /\ k <= n => f[k] = g[k]
<1> DEFINE T == {k \in Nat : k <= m /\ k <= n => f[k] = g[k]}
<1>1. 0 \in T
  BY DEF Follows
<1>2. ASSUME NEW k \in Nat, k \in T PROVE k + 1 \in T
  <2> SUFFICES ASSUME k + 1 <= m, k + 1 <= n PROVE f[k + 1] = g[k + 1]
    OBVIOUS
  <2>1. f[k] = g[k] /\ k \in 0..(m - 1) /\ k \in 0..(n - 1)
    BY <1>2
  <2>2. QED
    BY <2>1 DEF Follows
<1>3. Nat \subseteq T
  <2> HIDE DEF T
  <2>1. QED
    BY <1>1, <1>2, SetInduction
<1>4. QED
  BY <1>3

\* A recursion defines a function: some function follows its steps throughout.
LEMMA RecursiveFunction ==
  ASSUME NEW V, NEW first, NEW step, StepsIn(V, first, step)
  PROVE  \E f \in [Nat -> V] : Defines(f, first, step)
<1> USE DEF StepsIn
<1> DEFINE Approx == [n \in Nat |-> CHOOSE f \in [Nat -> V] : Follows(f, n, first, step)]
           f == [n \in Nat |-> Approx[n][n]]
<1>1. \A n \in Nat : Approx[n] \in [Nat -> V] /\ Follows(Approx[n], n, first, step)
  BY Approximation
<1> HIDE DEF Approx
<1>2. f \in [Nat -> V] /\ f[0] = first
  BY <1>1 DEF Follows
<1>3. ASSUME NEW n \in Nat PROVE f[n + 1] = step[<<n, f[n]>>]
  <2>1. Approx[n + 1][n + 1] = step[<<n, Approx[n + 1][n]>>]
    BY <1>1 DEF Follows
  <2>2. n + 1 \in Nat /\ n <= n + 1 /\ n <= n
    OBVIOUS
  <2> DEFINE F == Approx[n + 1]
             G == Approx[n]
             m == n + 1
  <2>3. Follows(F, m, first, step) /\ Follows(G, n, first, step) /\ m \in Nat
    BY <1>1, <2>2
  <2> HIDE DEF F, G, m
  <2>4. \A k \in Nat : k <= m /\ k <= n => F[k] = G[k]
    BY <2>3, Agreement
  <2>5. F[n] = G[n]
    BY <2>2, <2>4 DEF m
  <2> USE DEF F, G
  <2>6. QED
    BY <2>1, <2>2, <2>5
<1>4. QED
  BY <1>2, <1>3 DEF Defines

\* The same for a recursion that ends.
THEOREM RecursiveUpTo ==
  ASSUME NEW V, NEW first, NEW step, StepsIn(V, first, step), NEW end \in Nat
  PROVE  \E f \in [0..end -> V] : DefinesUpTo(f, end, first, step)
<1>1. PICK g \in [Nat -> V] : Defines(g, first, step)
  BY RecursiveFunction
<1> DEFINE f == [n \in 0..end |-> g[n]]
<1>2. f \in [0..end -> V] /\ f[0] = first
  BY <1>1 DEF Defines
<1>3. ASSUME NEW n \in 1..end PROVE f[n] = step[<<n - 1, f[n - 1]>>]
  <2>1. n - 1 \in Nat /\ (n - 1) + 1 = n /\ n - 1 \in 0..end /\ n \in 0..end
    OBVIOUS
  <2>2. g[(n - 1) + 1] = step[<<n - 1, g[n - 1]>>]
    BY <1>1, <2>1 DEF Defines
  <2>3. QED
    BY <2>1, <2>2
<1>4. QED
  BY <1>2, <1>3 DEF DefinesUpTo
=============================================================================
