--------------------------- MODULE StorageProofs ---------------------------
(***************************************************************************)
(* Theorems about the storage behind the branches and the timeline.        *)
(*                                                                         *)
(* MerkleCas and BranchPointers, for every structure of nodes and every    *)
(* number of ingests, saves, crashes and power losses; and Timeline, for   *)
(* every number of processes, commits, roots and appends cut short: while  *)
(* one process records at a time, what can be read of the ledger is one    *)
(* linear chain whose deltas are right, nothing recent is missing, and     *)
(* what is lost is bounded by the cuts.                                    *)
(*                                                                         *)
(* For the timeline the argument follows the last line.  All that was read *)
(* is the commit on it, if it is one, before what the lines above it hold, *)
(* and no step of a recorder touches those.                                *)
(***************************************************************************)
EXTENDS BranchPointers, Timeline, Recursion, FiniteSetTheorems, FunctionTheorems

-----------------------------------------------------------------------------
(* Merkle nodes and branch pointers. *)

NodeSeqs == Seq(Nodes)
Degree(n) == Len(Children[n])
Kids(n) == {Children[n][i] : i \in DOMAIN Children[n]}
Elements(s) == {s[i] : i \in 1..Len(s)}

\* Whatever an element of the sequence refers to comes before it.
ChildrenFirst(s) ==
  \A i \in 1..Len(s) : \A m \in Kids(s[i]) : \E k \in 1..(i - 1) : s[k] = m

LEMMA NodesAreNumbers ==
  /\ Nodes = 1..Len(Children) /\ Len(Children) \in Nat
  /\ \A n \in Nodes : /\ Degree(n) \in Nat /\ n \in Nat /\ n >= 1
                      /\ DOMAIN Children[n] = 1..Degree(n)
                      /\ \A i \in 1..Degree(n) : /\ Children[n][i] \in Nodes
                                                 /\ Children[n][i] \in 1..(n - 1)
<1>1. Children \in Seq(Seq(Nat))
  BY CasAssumption
<1>2. Nodes = 1..Len(Children) /\ Len(Children) \in Nat
  BY <1>1 DEF Nodes
<1>3. ASSUME NEW n \in Nodes
      PROVE  /\ Degree(n) \in Nat /\ n \in Nat /\ n >= 1
             /\ DOMAIN Children[n] = 1..Degree(n)
             /\ \A i \in 1..Degree(n) : /\ Children[n][i] \in Nodes
                                        /\ Children[n][i] \in 1..(n - 1)
  <2>1. Children[n] \in Seq(Nat)
    BY <1>1, <1>2
  <2>2. Degree(n) \in Nat /\ DOMAIN Children[n] = 1..Degree(n)
    BY <2>1 DEF Degree
  <2>3. \A i \in 1..Degree(n) : Children[n][i] \in 1..(n - 1)
    BY <2>2, CasAssumption
  <2>4. QED
    BY <1>2, <2>2, <2>3
<1>4. QED
  BY <1>2, <1>3

\* What a visit has passed after each child, when `order` knows what is below them.
LEMMA VisitSteps ==
  ASSUME NEW order, NEW n \in Nodes, \A m \in Kids(n) : order[m] \in NodeSeqs
  PROVE  /\ Visit(order, n) \in [0..Degree(n) -> NodeSeqs]
         /\ Visit(order, n)[0] = <<>>
         /\ \A i \in 1..Degree(n) :
              Visit(order, n)[i] = Visit(order, n)[i - 1] \o order[Children[n][i]]
<1> DEFINE V == NodeSeqs
           first == <<>>
           Below(i) == IF i < Degree(n) THEN order[Children[n][i + 1]] ELSE <<>>
           step == [q \in Nat \X V |-> q[2] \o Below(q[1])]
           visited(f) == [i \in 0..Len(Children[n]) |->
                            IF i = 0 THEN <<>> ELSE f[i - 1] \o order[Children[n][i]]]
<1>1. Degree(n) \in Nat /\ Degree(n) = Len(Children[n])
  BY NodesAreNumbers DEF Degree
<1>2. \A s, t \in V : s \o t \in V
  BY DEF NodeSeqs
<1>3. first \in V
  BY DEF NodeSeqs
<1>4. \A i \in Nat : Below(i) \in V
  <2> SUFFICES ASSUME NEW i \in Nat PROVE Below(i) \in V
    OBVIOUS
  <2>1. CASE i < Degree(n)
    <3>1. Children[n][i + 1] \in Kids(n)
      BY <1>1, <2>1, NodesAreNumbers DEF Kids
    <3>2. QED
      BY <2>1, <3>1
  <2>2. CASE ~(i < Degree(n))
    BY <1>3, <2>2
  <2>3. QED
    BY <2>1, <2>2
<1>5. StepsIn(V, first, step)
  <2> HIDE DEF V, first, Below
  <2>1. step \in [Nat \X V -> V]
    BY <1>2, <1>4
  <2>2. QED
    BY <1>3, <2>1 DEF StepsIn
<1>6. PICK h \in [0..Degree(n) -> V] :
        h[0] = first /\ \A i \in 1..Degree(n) : h[i] = step[<<i - 1, h[i - 1]>>]
  <2> HIDE DEF V, first, step
  <2>1. \E h \in [0..Degree(n) -> V] : DefinesUpTo(h, Degree(n), first, step)
    BY <1>1, <1>5, RecursiveUpTo
  <2>2. QED
    BY <2>1 DEF DefinesUpTo
<1>7. h = visited(h)
  <2>1. ASSUME NEW i \in 1..Degree(n) PROVE h[i] = h[i - 1] \o order[Children[n][i]]
    <3>1. i - 1 \in Nat /\ i - 1 \in 0..Degree(n) /\ i - 1 < Degree(n) /\ (i - 1) + 1 = i
      BY <1>1
    <3>2. h[i - 1] \in V
      <4> HIDE DEF V
      <4>1. QED
        BY <3>1
    <3>3. h[i] = h[i - 1] \o Below(i - 1)
      <4> HIDE DEF V, Below
      <4>1. step[<<i - 1, h[i - 1]>>] = h[i - 1] \o Below(i - 1)
        BY <3>1, <3>2
      <4> HIDE DEF step
      <4>2. QED
        BY <1>6, <4>1
    <3>4. Below(i - 1) = order[Children[n][i]]
      BY <3>1
    <3>5. QED
      BY <3>3, <3>4
  <2> DEFINE Value(i) == IF i = 0 THEN <<>> ELSE h[i - 1] \o order[Children[n][i]]
  <2>2. \A i \in 0..Degree(n) : h[i] = Value(i)
    <3> SUFFICES ASSUME NEW i \in 0..Degree(n) PROVE h[i] = Value(i)
      OBVIOUS
    <3>1. CASE i = 0
      BY <1>6, <3>1
    <3>2. CASE i # 0
      <4>1. i \in 1..Degree(n)
        BY <1>1, <3>2
      <4>2. QED
        BY <2>1, <3>2, <4>1
    <3>3. QED
      BY <3>1, <3>2
  <2> HIDE DEF Value, V
  <2>3. h = [i \in 0..Degree(n) |-> Value(i)]
    BY <2>2
  <2>4. QED
    BY <1>1, <2>3 DEF Value
<1>8. Visit(order, n) = visited(Visit(order, n))
  <2>1. Visit(order, n) = CHOOSE f : f = visited(f)
    BY DEF Visit
  <2>2. QED
    BY <1>7, <2>1
<1> DEFINE R == Visit(order, n)
           Value(i) == IF i = 0 THEN <<>> ELSE R[i - 1] \o order[Children[n][i]]
<1>9. R = [i \in 0..Degree(n) |-> Value(i)]
  BY <1>1, <1>8
<1> HIDE DEF R
<1>10. R[0] = <<>> /\ \A i \in 1..Degree(n) : R[i] = R[i - 1] \o order[Children[n][i]]
  <2> HIDE DEF Value
  <2>1. \A i \in 0..Degree(n) : R[i] = Value(i)
    BY <1>9
  <2>2. 0 \in 0..Degree(n) /\ \A i \in 1..Degree(n) : i \in 0..Degree(n) /\ i # 0
    BY <1>1
  <2>3. QED
    BY <2>1, <2>2 DEF Value
<1> DEFINE T == {i \in Nat : i <= Degree(n) => R[i] \in V}
<1>11. 0 \in T
  <2>1. R[0] \in V
    BY <1>3, <1>10
  <2> HIDE DEF V
  <2>2. QED
    BY <2>1
<1>12. ASSUME NEW i \in Nat, i \in T PROVE i + 1 \in T
  <2> SUFFICES ASSUME i + 1 <= Degree(n) PROVE R[i + 1] \in V
    OBVIOUS
  <2>1. R[i] \in V /\ i + 1 \in 1..Degree(n) /\ (i + 1) - 1 = i
    BY <1>1, <1>12
  <2>2. order[Children[n][i + 1]] \in V
    BY <2>1, NodesAreNumbers DEF Kids
  <2>3. R[i + 1] = R[i] \o order[Children[n][i + 1]]
    BY <1>10, <2>1
  <2> HIDE DEF V
  <2>4. QED
    BY <1>2, <2>1, <2>2, <2>3
<1>13. Nat \subseteq T
  <2> HIDE DEF T
  <2>1. QED
    BY <1>11, <1>12, SetInduction
<1>14. R \in [0..Degree(n) -> V]
  <2>1. \A i \in 0..Degree(n) : R[i] \in V
    BY <1>1, <1>13
  <2> HIDE DEF V, Value
  <2>2. QED
    BY <1>9, <2>1
<1>15. QED
  BY <1>10, <1>14 DEF R

\* A visit depends on what is below the children only.
LEMMA VisitSame ==
  ASSUME NEW order, NEW other, NEW n \in Nodes,
         \A m \in Kids(n) : order[m] \in NodeSeqs /\ other[m] = order[m]
  PROVE  Visit(other, n)[Degree(n)] = Visit(order, n)[Degree(n)]
<1> DEFINE F == Visit(order, n)
           G == Visit(other, n)
           T == {i \in Nat : i <= Degree(n) => G[i] = F[i]}
<1>1. Degree(n) \in Nat /\ \A i \in 1..Degree(n) : Children[n][i] \in Kids(n)
  BY NodesAreNumbers DEF Kids
<1>2. F[0] = <<>> /\ \A i \in 1..Degree(n) : F[i] = F[i - 1] \o order[Children[n][i]]
  BY VisitSteps
<1>3. G[0] = <<>> /\ \A i \in 1..Degree(n) : G[i] = G[i - 1] \o other[Children[n][i]]
  BY VisitSteps
<1> HIDE DEF F, G
<1>4. 0 \in T
  BY <1>2, <1>3
<1>5. ASSUME NEW i \in Nat, i \in T PROVE i + 1 \in T
  <2> SUFFICES ASSUME i + 1 <= Degree(n) PROVE G[i + 1] = F[i + 1]
    OBVIOUS
  <2>1. G[i] = F[i] /\ i + 1 \in 1..Degree(n) /\ (i + 1) - 1 = i
    BY <1>1, <1>5
  <2>2. other[Children[n][i + 1]] = order[Children[n][i + 1]]
    BY <1>1, <2>1
  <2>3. /\ F[i + 1] = F[i] \o order[Children[n][i + 1]]
        /\ G[i + 1] = G[i] \o other[Children[n][i + 1]]
    BY <1>2, <1>3, <2>1
  <2>4. QED
    BY <2>1, <2>2, <2>3
<1>6. Nat \subseteq T
  <2> HIDE DEF T
  <2>1. QED
    BY <1>4, <1>5, SetInduction
<1>7. QED
  BY <1>1, <1>6 DEF F, G

\* What a node adds to a visit: what is below it, and then itself.
Below(order, n) == Visit(order, n)[Degree(n)]

LEMMA BelowType ==
  ASSUME NEW order, NEW n \in Nodes, \A m \in Kids(n) : order[m] \in NodeSeqs
  PROVE  Below(order, n) \in NodeSeqs /\ Below(order, n) \o <<n>> \in NodeSeqs
<1>1. Degree(n) \in 0..Degree(n)
  BY NodesAreNumbers
<1> DEFINE b == Below(order, n)
<1>2. b \in NodeSeqs
  BY <1>1, VisitSteps DEF Below
<1> HIDE DEF b
<1>3. b \o <<n>> \in NodeSeqs
  <2>1. <<n>> \in NodeSeqs
    BY DEF NodeSeqs
  <2>2. QED
    BY <1>2, <2>1 DEF NodeSeqs
<1>4. QED
  BY <1>2, <1>3 DEF b

\* The recursion of PostOrder defines a function.
LEMMA PostOrderIs ==
  PostOrder = [n \in Nodes |-> Below(PostOrder, n) \o <<n>>]
<1> DEFINE N == Len(Children)
           V == [Nodes -> NodeSeqs]
           first == [n \in Nodes |-> <<>>]
           More(k, t) == IF k + 1 \in Nodes
                           THEN [t EXCEPT ![k + 1] = Below(t, k + 1) \o <<k + 1>>] ELSE t
           step == [q \in Nat \X V |-> More(q[1], q[2])]
<1>1. Nodes = 1..N /\ N \in Nat
  BY NodesAreNumbers
<1> HIDE DEF N
<1>2. \A n \in Nodes : Kids(n) \subseteq Nodes /\ \A m \in Kids(n) : m \in 1..(n - 1)
  BY NodesAreNumbers DEF Kids
<1>3. StepsIn(V, first, step)
  <2>1. first \in V
    BY DEF NodeSeqs
  <2>2. ASSUME NEW k \in Nat, NEW t \in V PROVE More(k, t) \in V
    <3>1. CASE k + 1 \in Nodes
      <4> DEFINE n == k + 1
                 s == Below(t, n) \o <<n>>
      <4>1. n \in Nodes
        BY <3>1
      <4> HIDE DEF n
      <4>2. s \in NodeSeqs
        <5>1. \A m \in Kids(n) : t[m] \in NodeSeqs
          BY <1>2, <4>1
        <5>2. QED
          BY <4>1, <5>1, BelowType
      <4> HIDE DEF s
      <4>3. [t EXCEPT ![n] = s] \in V
        BY <4>2
      <4>4. QED
        BY <3>1, <4>3 DEF n, s
    <3>2. CASE k + 1 \notin Nodes
      BY <3>2
    <3>3. QED
      BY <3>1, <3>2
  <2> HIDE DEF V, More, first
  <2>3. step \in [Nat \X V -> V]
    BY <2>2
  <2>4. QED
    BY <2>1, <2>3 DEF StepsIn
<1>4. PICK g \in [0..N -> V] : \A k \in 1..N : g[k] = step[<<k - 1, g[k - 1]>>]
  <2> HIDE DEF V, first, step
  <2>1. \E g \in [0..N -> V] : DefinesUpTo(g, N, first, step)
    BY <1>1, <1>3, RecursiveUpTo
  <2>2. QED
    BY <2>1 DEF DefinesUpTo
<1>5. ASSUME NEW k \in 1..N
      PROVE  /\ g[k] \in V /\ g[k - 1] \in V
             /\ g[k] = [g[k - 1] EXCEPT ![k] = Below(g[k - 1], k) \o <<k>>]
  <2>1. k - 1 \in Nat /\ k - 1 \in 0..N /\ k \in 0..N /\ (k - 1) + 1 = k /\ k \in Nodes
    BY <1>1
  <2>2. g[k] \in V /\ g[k - 1] \in V
    <3> HIDE DEF V
    <3>1. QED
      BY <2>1
  <2>3. g[k] = More(k - 1, g[k - 1])
    <3> HIDE DEF V, More
    <3>1. step[<<k - 1, g[k - 1]>>] = More(k - 1, g[k - 1])
      BY <2>1, <2>2
    <3> HIDE DEF step
    <3>2. QED
      BY <1>4, <3>1
  <2>4. QED
    BY <2>1, <2>2, <2>3
\* An entry that has been made stays.
<1>6. ASSUME NEW n \in 1..N PROVE \A k \in n..N : g[k][n] = g[n][n]
  <2> DEFINE T == {j \in Nat : n + j <= N => g[n + j][n] = g[n][n]}
  <2>1. 0 \in T
    OBVIOUS
  <2>2. ASSUME NEW j \in Nat, j \in T PROVE j + 1 \in T
    <3> SUFFICES ASSUME n + (j + 1) <= N PROVE g[n + (j + 1)][n] = g[n][n]
      OBVIOUS
    <3> DEFINE k == n + (j + 1)
    <3>1. k \in 1..N /\ k - 1 = n + j /\ k # n /\ n + j <= N
      BY <1>1
    <3>2. g[k - 1][n] = g[n][n]
      BY <2>2, <3>1
    <3> HIDE DEF k
    <3>3. g[k][n] = g[k - 1][n]
      <4> DEFINE s == Below(g[k - 1], k) \o <<k>>
      <4>1. g[k - 1] \in V /\ g[k] = [g[k - 1] EXCEPT ![k] = s]
        BY <1>5, <3>1
      <4> HIDE DEF s
      <4>2. n \in Nodes
        BY <1>1
      <4>3. QED
        BY <3>1, <4>1, <4>2
    <3>4. QED
      BY <3>2, <3>3 DEF k
  <2>3. Nat \subseteq T
    <3> HIDE DEF T
    <3>1. QED
      BY <2>1, <2>2, SetInduction
  <2>4. ASSUME NEW k \in n..N PROVE g[k][n] = g[n][n]
    <3>1. k - n \in Nat /\ n + (k - n) = k /\ k <= N
      BY <1>1
    <3>2. k - n \in T
      BY <2>3, <3>1
    <3>3. QED
      BY <3>1, <3>2
  <2>5. QED
    BY <2>4
<1> DEFINE P == [n \in Nodes |-> g[n][n]]
<1>7. ASSUME NEW n \in Nodes PROVE g[n][n] = Below(P, n) \o <<n>>
  <2>1. n \in 1..N
    BY <1>1
  <2> DEFINE t == g[n - 1]
             s == Below(t, n) \o <<n>>
  <2>2. t \in V /\ g[n] = [t EXCEPT ![n] = s]
    BY <1>5, <2>1
  <2>3. \A m \in Kids(n) : P[m] = t[m] /\ t[m] \in NodeSeqs
    <3> SUFFICES ASSUME NEW m \in Kids(n) PROVE P[m] = t[m] /\ t[m] \in NodeSeqs
      OBVIOUS
    <3>1. m \in Nodes /\ m \in 1..(n - 1)
      BY <1>2
    <3>2. m \in 1..N /\ n - 1 \in m..N
      BY <1>1, <2>1, <3>1
    <3>3. g[n - 1][m] = g[m][m]
      BY <1>6, <3>2
    <3> HIDE DEF t
    <3>4. t[m] \in NodeSeqs
      BY <2>2, <3>1
    <3>5. QED
      BY <3>1, <3>3, <3>4 DEF t
  <2> HIDE DEF t, P, s
  <2>4. Below(P, n) = Below(t, n)
    BY <2>3, VisitSame DEF Below
  <2>5. g[n][n] = s
    BY <2>2
  <2>6. QED
    BY <2>4, <2>5 DEF s
<1> DEFINE body(f) == [n \in Nodes |-> Below(f, n) \o <<n>>]
<1>8. P = body(P)
  <2> DEFINE Value(n) == Below(P, n) \o <<n>>
  <2>1. \A n \in Nodes : g[n][n] = Value(n)
    BY <1>7
  <2> HIDE DEF Value
  <2>2. P = [n \in Nodes |-> Value(n)]
    BY <2>1
  <2>3. QED
    BY <2>2 DEF Value
<1>9. PostOrder = CHOOSE f : f = body(f)
  BY DEF PostOrder, Below, Degree
<1> HIDE DEF P
<1>10. QED
  BY <1>8, <1>9

LEMMA PostOrderType ==
  \A n \in Nodes : PostOrder[n] \in NodeSeqs /\ PostOrder[n] = Below(PostOrder, n) \o <<n>>
<1> DEFINE Value(n) == Below(PostOrder, n) \o <<n>>
           T == {k \in Nat : \A n \in Nodes : n <= k => PostOrder[n] \in NodeSeqs}
<1>1. \A n \in Nodes : PostOrder[n] = Value(n)
  <2>1. PostOrder = [n \in Nodes |-> Value(n)]
    BY PostOrderIs
  <2> HIDE DEF Value
  <2>2. QED
    BY <2>1
<1>2. 0 \in T
  BY NodesAreNumbers
<1>3. ASSUME NEW k \in Nat, k \in T PROVE k + 1 \in T
  <2> SUFFICES ASSUME NEW n \in Nodes, n <= k + 1 PROVE PostOrder[n] \in NodeSeqs
    BY NodesAreNumbers
  <2>1. \A m \in Kids(n) : PostOrder[m] \in NodeSeqs
    <3> SUFFICES ASSUME NEW m \in Kids(n) PROVE PostOrder[m] \in NodeSeqs
      OBVIOUS
    <3>1. n \in Nat /\ m \in Nodes /\ m \in 1..(n - 1)
      BY NodesAreNumbers DEF Kids
    <3>2. m <= k
      BY <3>1
    <3>3. QED
      BY <1>3, <3>1, <3>2
  <2>2. Value(n) \in NodeSeqs
    BY <2>1, BelowType
  <2>3. QED
    BY <1>1, <2>2
<1>4. Nat \subseteq T
  <2> HIDE DEF T
  <2>1. QED
    BY <1>2, <1>3, SetInduction
<1>5. \A n \in Nodes : PostOrder[n] \in NodeSeqs
  <2> SUFFICES ASSUME NEW n \in Nodes PROVE PostOrder[n] \in NodeSeqs
    OBVIOUS
  <2>1. n \in Nat /\ n <= n
    BY NodesAreNumbers
  <2>2. QED
    BY <1>4, <2>1
<1>6. QED
  BY <1>1, <1>5

LEMMA SeqElements ==
  ASSUME NEW S, NEW s \in Seq(S)
  PROVE  /\ Len(s) \in Nat /\ DOMAIN s = 1..Len(s)
         /\ \A i \in 1..Len(s) : s[i] \in S
OBVIOUS

\* One sequence after another.
LEMMA Concatenated ==
  ASSUME NEW S, NEW s \in Seq(S), NEW t \in Seq(S)
  PROVE  /\ s \o t \in Seq(S) /\ Len(s \o t) = Len(s) + Len(t)
         /\ Len(s) \in Nat /\ Len(t) \in Nat
         /\ \A i \in 1..Len(s) : (s \o t)[i] = s[i]
         /\ \A i \in 1..Len(t) : (s \o t)[Len(s) + i] = t[i]
         /\ Elements(s \o t) = Elements(s) \cup Elements(t)
<1> DEFINE u == s \o t
           m == Len(s)
           n == Len(t)
<1>1. /\ u \in Seq(S) /\ Len(u) = m + n /\ m \in Nat /\ n \in Nat
      /\ \A i \in 1..m : u[i] = s[i]
      /\ \A i \in 1..n : u[m + i] = t[i]
  OBVIOUS
<1> HIDE DEF u, m, n
<1>2. \A i \in 1..(m + n) : u[i] \in Elements(s) \cup Elements(t)
  <2> SUFFICES ASSUME NEW i \in 1..(m + n) PROVE u[i] \in Elements(s) \cup Elements(t)
    OBVIOUS
  <2>1. CASE i <= m
    <3>1. i \in 1..m
      BY <1>1, <2>1
    <3>2. QED
      BY <1>1, <3>1 DEF Elements, m
  <2>2. CASE ~(i <= m)
    <3>1. i - m \in 1..n /\ m + (i - m) = i
      BY <1>1, <2>2
    <3>2. u[i] = t[i - m]
      BY <1>1, <3>1
    <3>3. QED
      BY <3>1, <3>2 DEF Elements, n
  <2>3. QED
    BY <2>1, <2>2
<1>3. \A i \in 1..m : s[i] \in Elements(u)
  <2>1. \A i \in 1..m : i \in 1..Len(u)
    BY <1>1
  <2>2. QED
    BY <1>1, <2>1 DEF Elements
<1>4. \A i \in 1..n : t[i] \in Elements(u)
  <2>1. \A i \in 1..n : m + i \in 1..Len(u)
    BY <1>1
  <2>2. QED
    BY <1>1, <2>1 DEF Elements
<1>5. Elements(u) = Elements(s) \cup Elements(t)
  <2>1. Elements(s) = {s[i] : i \in 1..m} /\ Elements(t) = {t[i] : i \in 1..n}
    BY DEF Elements, m, n
  <2>2. Elements(u) = {u[i] : i \in 1..(m + n)}
    BY <1>1 DEF Elements
  <2> HIDE DEF Elements
  <2>3. Elements(u) \subseteq Elements(s) \cup Elements(t)
    BY <1>2, <2>2
  <2>4. Elements(s) \subseteq Elements(u) /\ Elements(t) \subseteq Elements(u)
    BY <1>3, <1>4, <2>1
  <2>5. QED
    BY <2>3, <2>4
<1>6. QED
  BY <1>1, <1>5 DEF u, m, n

LEMMA ConcatenatedFirst ==
  ASSUME NEW s \in NodeSeqs, NEW t \in NodeSeqs, ChildrenFirst(s), ChildrenFirst(t)
  PROVE  ChildrenFirst(s \o t)
<1> DEFINE u == s \o t
           p == Len(s)
           q == Len(t)
<1>1. /\ Len(u) = p + q /\ p \in Nat /\ q \in Nat
      /\ \A i \in 1..p : u[i] = s[i]
      /\ \A i \in 1..q : u[p + i] = t[i]
  BY Concatenated DEF NodeSeqs
<1>2. /\ \A i \in 1..p : \A m \in Kids(s[i]) : \E k \in 1..(i - 1) : s[k] = m
      /\ \A i \in 1..q : \A m \in Kids(t[i]) : \E k \in 1..(i - 1) : t[k] = m
  BY DEF ChildrenFirst
<1> HIDE DEF u, p, q
<1>3. ASSUME NEW i \in 1..(p + q), NEW m \in Kids(u[i]) PROVE \E k \in 1..(i - 1) : u[k] = m
  <2>1. CASE i <= p
    <3>1. i \in 1..p /\ u[i] = s[i]
      BY <1>1, <2>1
    <3>2. PICK k \in 1..(i - 1) : s[k] = m
      BY <1>2, <3>1
    <3>3. k \in 1..p
      BY <1>1, <3>1
    <3>4. QED
      BY <1>1, <3>2, <3>3
  <2>2. CASE ~(i <= p)
    <3>1. i - p \in 1..q /\ p + (i - p) = i
      BY <1>1, <2>2
    <3>2. u[i] = t[i - p]
      BY <1>1, <3>1
    <3>3. PICK k \in 1..((i - p) - 1) : t[k] = m
      BY <1>2, <3>1, <3>2
    <3>4. k \in 1..q /\ p + k \in 1..(i - 1)
      BY <1>1, <3>1
    <3>5. u[p + k] = m
      BY <1>1, <3>3, <3>4
    <3>6. QED
      BY <3>4, <3>5
  <2>3. QED
    BY <2>1, <2>2
<1>4. QED
  BY <1>1, <1>3 DEF ChildrenFirst, u

\* ingest visits whatever a node refers to before the node, and the root last.
LEMMA PostOrderChildrenFirst ==
  \A n \in Nodes : ChildrenFirst(PostOrder[n])
<1> DEFINE T == {k \in Nat : \A n \in Nodes : n <= k => ChildrenFirst(PostOrder[n])}
<1>1. 0 \in T
  BY NodesAreNumbers
<1>2. ASSUME NEW k \in Nat, k \in T PROVE k + 1 \in T
  <2> SUFFICES ASSUME NEW n \in Nodes, n <= k + 1 PROVE ChildrenFirst(PostOrder[n])
    BY NodesAreNumbers
  <2>1. \A m \in Kids(n) : m \in Nodes /\ PostOrder[m] \in NodeSeqs /\ ChildrenFirst(PostOrder[m])
    <3> SUFFICES ASSUME NEW m \in Kids(n)
                 PROVE  m \in Nodes /\ PostOrder[m] \in NodeSeqs /\ ChildrenFirst(PostOrder[m])
      OBVIOUS
    <3>1. n \in Nat /\ m \in Nodes /\ m \in 1..(n - 1)
      BY NodesAreNumbers DEF Kids
    <3>2. m <= k
      BY <3>1
    <3>3. QED
      BY <1>2, <3>1, <3>2, PostOrderType
  <2> DEFINE R == Visit(PostOrder, n)
             d == Degree(n)
             Child(i) == Children[n][i]
             J == {i \in Nat : i <= d =>
                     /\ R[i] \in NodeSeqs /\ ChildrenFirst(R[i])
                     /\ \A c \in 1..i : Child(c) \in Elements(R[i])}
  <2>2. /\ R[0] = <<>> /\ \A i \in 1..d : R[i] = R[i - 1] \o PostOrder[Child(i)]
        /\ \A i \in 0..d : R[i] \in NodeSeqs
    BY <2>1, VisitSteps
  <2>3. d \in Nat /\ \A i \in 1..d : Child(i) \in Kids(n)
    BY NodesAreNumbers DEF Kids
  <2>4. Kids(n) = {Child(i) : i \in 1..d}
    BY NodesAreNumbers DEF Kids
  <2> HIDE DEF R, d, Child
  <2>5. 0 \in J
    <3>1. R[0] \in NodeSeqs /\ Len(R[0]) = 0
      BY <2>2, <2>3
    <3>2. QED
      BY <3>1 DEF ChildrenFirst
  <2>6. ASSUME NEW i \in Nat, i \in J PROVE i + 1 \in J
    <3> SUFFICES ASSUME i + 1 <= d
                 PROVE  /\ R[i + 1] \in NodeSeqs /\ ChildrenFirst(R[i + 1])
                        /\ \A c \in 1..(i + 1) : Child(c) \in Elements(R[i + 1])
      OBVIOUS
    <3> DEFINE s == R[i]
               m == Child(i + 1)
               t == PostOrder[m]
    <3>1. i + 1 \in 1..d /\ (i + 1) - 1 = i /\ i <= d
      BY <2>3
    <3>2. /\ s \in NodeSeqs /\ ChildrenFirst(s) /\ \A c \in 1..i : Child(c) \in Elements(s)
      BY <2>6, <3>1
    <3>3. m \in Kids(n)
      BY <2>3, <3>1
    <3>4. m \in Nodes /\ t \in NodeSeqs /\ ChildrenFirst(t)
      BY <2>1, <3>3
    <3>5. m \in Elements(t)
      <4> DEFINE b == Below(PostOrder, m)
      <4>1. t = b \o <<m>> /\ b \in NodeSeqs
        <5>1. \A x \in Kids(m) : PostOrder[x] \in NodeSeqs
          <6>1. Kids(m) \subseteq Nodes
            BY <3>4, NodesAreNumbers DEF Kids
          <6>2. QED
            BY <6>1, PostOrderType
        <5> HIDE DEF m
        <5>2. QED
          BY <3>4, <5>1, BelowType, PostOrderType
      <4> HIDE DEF b, m, t
      <4>2. Len(t) = Len(b) + 1 /\ Len(b) \in Nat /\ t[Len(b) + 1] = m
        BY <3>4, <4>1 DEF NodeSeqs
      <4>3. Len(b) + 1 \in 1..Len(t)
        BY <4>2
      <4>4. QED
        BY <4>2, <4>3 DEF Elements
    <3>6. R[i + 1] = s \o t
      BY <2>2, <3>1
    <3> HIDE DEF s, t, m
    <3>7. s \o t \in NodeSeqs /\ Elements(s \o t) = Elements(s) \cup Elements(t)
      BY <3>2, <3>4, Concatenated DEF NodeSeqs
    <3>8. ChildrenFirst(s \o t)
      BY <3>2, <3>4, ConcatenatedFirst
    <3>9. \A c \in 1..(i + 1) : c \in 1..i \/ Child(c) = m
      BY DEF m
    <3>10. \A c \in 1..(i + 1) : Child(c) \in Elements(s \o t)
      BY <3>2, <3>5, <3>7, <3>9
    <3>11. QED
      BY <3>6, <3>7, <3>8, <3>10
  <2>7. Nat \subseteq J
    <3> HIDE DEF J
    <3>1. QED
      BY <2>5, <2>6, SetInduction
  <2> DEFINE b == R[d]
             u == PostOrder[n]
  <2>8. b \in NodeSeqs /\ ChildrenFirst(b) /\ \A m \in Kids(n) : m \in Elements(b)
    BY <2>3, <2>4, <2>7
  <2>9. u = b \o <<n>>
    BY PostOrderType DEF Below, R, d
  <2> HIDE DEF b, u
  <2>10. /\ Len(u) = Len(b) + 1 /\ Len(b) \in Nat /\ u[Len(b) + 1] = n
         /\ \A i \in 1..Len(b) : u[i] = b[i]
    BY <2>8, <2>9 DEF NodeSeqs
  <2>11. ASSUME NEW i \in 1..Len(u), NEW m \in Kids(u[i]) PROVE \E j \in 1..(i - 1) : u[j] = m
    <3>1. CASE i \in 1..Len(b)
      <4>1. PICK j \in 1..(i - 1) : b[j] = m
        BY <2>8, <2>10, <3>1 DEF ChildrenFirst
      <4>2. j \in 1..Len(b)
        BY <2>10, <3>1
      <4>3. QED
        BY <2>10, <4>1, <4>2
    <3>2. CASE i \notin 1..Len(b)
      <4>1. i = Len(b) + 1 /\ u[i] = n
        BY <2>10, <3>2
      <4>2. m \in Elements(b)
        BY <2>8, <4>1
      <4>3. PICK j \in 1..Len(b) : b[j] = m
        BY <4>2 DEF Elements
      <4>4. j \in 1..(i - 1)
        BY <2>10, <4>1
      <4>5. QED
        BY <2>10, <4>3, <4>4
    <3>3. QED
      BY <3>1, <3>2
  <2>12. ChildrenFirst(u)
    BY <2>11 DEF ChildrenFirst
  <2>13. QED
    BY <2>12 DEF u
<1>3. Nat \subseteq T
  <2> HIDE DEF T
  <2>1. QED
    BY <1>1, <1>2, SetInduction
<1>4. ASSUME NEW n \in Nodes PROVE ChildrenFirst(PostOrder[n])
  <2>1. n \in Nat /\ n <= n
    BY NodesAreNumbers
  <2>2. QED
    BY <1>3, <2>1
<1>5. QED
  BY <1>4

\* The last node that ingest visits is the root.
LEMMA PostOrderEnds ==
  ASSUME NEW n \in Nodes
  PROVE  /\ PostOrder[n] \in NodeSeqs /\ Len(PostOrder[n]) \in Nat \ {0}
         /\ PostOrder[n][Len(PostOrder[n])] = n
<1> DEFINE b == Below(PostOrder, n)
           u == PostOrder[n]
<1>1. \A x \in Kids(n) : PostOrder[x] \in NodeSeqs
  <2>1. Kids(n) \subseteq Nodes
    BY NodesAreNumbers DEF Kids
  <2>2. QED
    BY <2>1, PostOrderType
<1>2. u = b \o <<n>> /\ u \in NodeSeqs /\ b \in NodeSeqs
  BY <1>1, BelowType, PostOrderType
<1> HIDE DEF u, b
<1>3. Len(u) = Len(b) + 1 /\ Len(b) \in Nat /\ u[Len(b) + 1] = n
  BY <1>2 DEF NodeSeqs
<1>4. Len(u) \in Nat \ {0} /\ u[Len(u)] = n
  BY <1>3
<1>5. QED
  BY <1>2, <1>4 DEF u
-----------------------------------------------------------------------------
(* The invariants of the store. *)

InodesOf(n) == {n} \X Slots
Running == {"check", "missed", "opened", "written"}
Left(w) == Elements(todo[w])
Written(w) == Elements(wrote[w])

CasTypeOK ==
  /\ final \in [Nodes -> Inodes \cup {Absent}]
  /\ tmp \in [Nodes -> Inodes \cup {Absent}]
  /\ \A n \in Nodes : final[n] \in InodesOf(n) \cup {Absent} /\ tmp[n] \in InodesOf(n) \cup {Absent}
  /\ content \in [Inodes -> {"empty", "whole"}]
  /\ cache \in [Writers -> SUBSET Nodes]
  /\ todo \in [Writers -> NodeSeqs]
  /\ pc \in [Writers -> {"idle"} \cup Running]
  /\ fd \in [Writers -> Inodes \cup {Absent}]
  /\ wrote \in [Writers -> NodeSeqs]
  /\ fresh \in [Writers -> SUBSET Nodes]
  /\ acked \subseteq Nodes
  /\ ingests \in Nat /\ crashes \in Nat /\ losses \in Nat

\* Of any number of writers: what is cached is present; whatever a node that is left
\* to write refers to is present, or left to write before it; and what an ingest has
\* passed is present.
InOrder(w) ==
  \A i \in 1..Len(todo[w]) : \A m \in Kids(todo[w][i]) :
    m \in Present \/ \E k \in 1..(i - 1) : todo[w][k] = m
WriterOK(w) ==
  /\ cache[w] \subseteq Present
  /\ InOrder(w)
  /\ pc[w] # "idle" =>
       /\ Len(todo[w]) > 0
       /\ Subtrees(todo[w][Len(todo[w])]) \subseteq Present \cup Left(w)

\* A root that was returned has all its nodes.
AckedPresent == \A n \in acked : Subtrees(n) \subseteq Present

ContentIInv == CasTypeOK /\ AckedPresent /\ \A w \in Writers : WriterOK(w)

\* Of one writer: the node it is about to write has no object file, so that the
\* temporary file it has open is no object file either; that file is whole when it
\* is renamed.
OwnFile(w) ==
  /\ pc[w] \in {"missed", "opened", "written"} => Head(todo[w]) \notin Present
  /\ pc[w] \in {"opened", "written"} => fd[w] = tmp[Head(todo[w])] /\ fd[w] # Absent
  /\ pc[w] = "written" /\ losses = 0 => content[fd[w]] = "whole"
ObjectsInv ==
  /\ losses = 0 => Present \subseteq Whole
  /\ \A w \in Writers : OwnFile(w)

\* Of one writer: what it wrote since its ingest began are the nodes that have become
\* present since, and what is left was absent when it began or is present.
WroteWhatAppeared(w) ==
  pc[w] # "idle" =>
    /\ IsFiniteSet(Written(w)) /\ Cardinality(Written(w)) = Len(wrote[w])
    /\ Written(w) = fresh[w] \cap Present
    /\ fresh[w] \subseteq Left(w) \cup Written(w)
    /\ Left(w) \subseteq fresh[w] \cup Present

\* One process works on the store: writers of its own share no temporary file.
OneWriter == \A v, w \in Writers : v = w

-----------------------------------------------------------------------------
(* Inodes. *)

\* There is always an inode that nothing refers to: one object file, one temporary
\* file that is absent, and a descriptor for each writer leave one of the slots.
LEMMA InodeFree ==
  ASSUME CasTypeOK, NEW n \in Nodes, tmp[n] = Absent
  PROVE  NewInode(n) \in InodesOf(n) /\ ~Referenced(NewInode(n)) /\ NewInode(n) # Absent
<1> DEFINE W == Cardinality(Writers)
           used == {final[n][2]} \cup {fd[w][2] : w \in Writers}
<1>1. IsFiniteSet(Writers) /\ W \in Nat
  BY CasAssumption, FS_CardinalityType
<1>2. IsFiniteSet(used) /\ Cardinality(used) \in Nat /\ Cardinality(used) <= W + 1
  <2> DEFINE fds == {fd[w][2] : w \in Writers}
  <2>1. IsFiniteSet(fds) /\ Cardinality(fds) <= W
    <3> DEFINE f == [w \in Writers |-> fd[w][2]]
    <3>1. f \in [Writers -> fds] /\ \A t \in fds : \E w \in Writers : f[w] = t
      OBVIOUS
    <3>2. f \in Surjection(Writers, fds)
      <4> HIDE DEF f, fds
      <4>1. QED
        BY <3>1, Fun_IsSurj
    <3> HIDE DEF f, fds
    <3>3. QED
      BY <1>1, <3>2, FS_Surjection
  <2>2. IsFiniteSet(fds \cup {final[n][2]}) /\ Cardinality(fds) \in Nat
        /\ Cardinality(fds \cup {final[n][2]}) \in {Cardinality(fds), Cardinality(fds) + 1}
    BY <2>1, FS_AddElement, FS_CardinalityType
  <2>3. used = fds \cup {final[n][2]}
    OBVIOUS
  <2> HIDE DEF used, fds, W
  <2>4. QED
    BY <1>1, <2>1, <2>2, <2>3
<1>3. IsFiniteSet(Slots) /\ Cardinality(Slots) = W + 2
  <2>1. 1 \in Int /\ W + 2 \in Int /\ 1 <= W + 2
    BY <1>1
  <2>2. IsFiniteSet(1..(W + 2)) /\ Cardinality(1..(W + 2)) = (W + 2) - 1 + 1
    BY <1>1, <2>1, FS_Interval
  <2>3. QED
    BY <1>1, <2>2 DEF Slots
<1>4. PICK k \in Slots : k \notin used
  <2> SUFFICES ASSUME Slots \subseteq used PROVE FALSE
    OBVIOUS
  <2>1. Cardinality(Slots) <= Cardinality(used)
    BY <1>2, FS_Subset
  <2>2. QED
    BY <1>1, <1>2, <1>3, <2>1
<1>5. n \in Nat /\ n >= 1 /\ \A j \in Slots : j \in Nat
  BY <1>1, NodesAreNumbers DEF Slots
<1>6. ~Referenced(<<n, k>>)
  <2>1. final[n] # <<n, k>>
    BY <1>4
  <2>2. tmp[n] # <<n, k>>
    BY <1>5 DEF Absent
  <2>3. \A w \in Writers : fd[w] # <<n, k>>
    BY <1>4
  <2>4. QED
    BY <2>1, <2>2, <2>3 DEF Referenced
<1> DEFINE j == CHOOSE j \in Slots : ~Referenced(<<n, j>>)
<1>7. NewInode(n) = <<n, j>>
  BY DEF NewInode
<1>8. j \in Slots /\ ~Referenced(<<n, j>>)
  BY <1>6
<1> HIDE DEF j
<1>9. <<n, j>> \in InodesOf(n) /\ <<n, j>> # <<0, 0>>
  BY <1>5, <1>8 DEF InodesOf
<1>10. QED
  BY <1>7, <1>8, <1>9 DEF Absent

LEMMA InodesAreOfNodes ==
  /\ \A n \in Nodes : InodesOf(n) \subseteq Inodes
  /\ \A n \in Nodes : \A i \in InodesOf(n) : i \in Inodes /\ i[1] = n /\ i # Absent
<1>1. \A n \in Nodes : n # 0
  BY NodesAreNumbers
<1>2. QED
  BY <1>1 DEF InodesOf, Inodes, Absent

LEMMA HeadAndTail ==
  ASSUME NEW S, NEW s \in Seq(S), Len(s) > 0
  PROVE  /\ Head(s) \in S /\ Head(s) = s[1] /\ Tail(s) \in Seq(S)
         /\ Len(s) \in Nat /\ Len(Tail(s)) = Len(s) - 1
         /\ \A i \in 1..(Len(s) - 1) : Tail(s)[i] = s[i + 1]
<1>1. s # <<>>
  OBVIOUS
<1>2. QED
  BY <1>1

\* What a writer at work has at its head.
LEMMA HeadNode ==
  ASSUME CasTypeOK, NEW w \in Writers, Len(todo[w]) > 0
  PROVE  Head(todo[w]) \in Nodes /\ Tail(todo[w]) \in NodeSeqs
<1>1. todo[w] \in Seq(Nodes)
  BY DEF CasTypeOK, NodeSeqs
<1>2. QED
  BY <1>1, HeadAndTail DEF NodeSeqs

LEMMA NodeDoneTypes ==
  ASSUME CasTypeOK, NEW w \in Writers, Len(todo[w]) > 0, NodeDone(w)
  PROVE  /\ cache' \in [Writers -> SUBSET Nodes]
         /\ todo' \in [Writers -> NodeSeqs]
         /\ pc' \in [Writers -> {"idle"} \cup Running]
         /\ acked' \subseteq Nodes
<1>1. Head(todo[w]) \in Nodes /\ Tail(todo[w]) \in NodeSeqs
  BY HeadNode
<1>2. /\ cache' = [cache EXCEPT ![w] = cache[w] \cup {Head(todo[w])}]
      /\ todo' = [todo EXCEPT ![w] = Tail(todo[w])]
      /\ pc' = [pc EXCEPT ![w] = "idle"] \/ pc' = [pc EXCEPT ![w] = "check"]
      /\ acked' = acked \cup {Head(todo[w])} \/ acked' = acked
  BY DEF NodeDone
<1> DEFINE n == Head(todo[w])
           t == Tail(todo[w])
<1> HIDE DEF n, t
<1>3. n \in Nodes /\ t \in NodeSeqs /\ cache' = [cache EXCEPT ![w] = cache[w] \cup {n}]
      /\ todo' = [todo EXCEPT ![w] = t] /\ (acked' = acked \cup {n} \/ acked' = acked)
  BY <1>1, <1>2 DEF n, t
<1>4. /\ cache \in [Writers -> SUBSET Nodes] /\ todo \in [Writers -> NodeSeqs]
      /\ pc \in [Writers -> {"idle"} \cup Running] /\ acked \subseteq Nodes
  BY DEF CasTypeOK
<1>5. cache[w] \cup {n} \in SUBSET Nodes
  BY <1>3, <1>4
<1>6. cache' \in [Writers -> SUBSET Nodes]
  BY <1>3, <1>4, <1>5
<1>7. todo' \in [Writers -> NodeSeqs]
  BY <1>3, <1>4
<1>8. pc' \in [Writers -> {"idle"} \cup Running]
  BY <1>2, <1>4 DEF Running
<1>9. QED
  BY <1>3, <1>4, <1>6, <1>7, <1>8

LEMMA GiveUpTypes ==
  ASSUME CasTypeOK, NEW w \in Writers, GiveUp(w)
  PROVE  /\ pc' \in [Writers -> {"idle"} \cup Running] /\ todo' \in [Writers -> NodeSeqs]
         /\ fd' \in [Writers -> Inodes \cup {Absent}]
<1>1. <<>> \in NodeSeqs
  BY DEF NodeSeqs
<1> HIDE DEF NodeSeqs
<1>2. QED
  BY <1>1 DEF GiveUp, CasTypeOK

LEMMA CasInitTypes == CasInit => CasTypeOK
<1> SUFFICES ASSUME CasInit PROVE CasTypeOK
  OBVIOUS
<1>1. <<>> \in NodeSeqs /\ {} \in SUBSET Nodes
  BY DEF NodeSeqs
<1>2. /\ todo \in [Writers -> NodeSeqs] /\ wrote \in [Writers -> NodeSeqs]
      /\ cache \in [Writers -> SUBSET Nodes] /\ fresh \in [Writers -> SUBSET Nodes]
  <2> HIDE DEF NodeSeqs
  <2>1. QED
    BY <1>1 DEF CasInit
<1>3. QED
  BY <1>2 DEF CasInit, CasTypeOK

\* Every step keeps the types, whatever the number of writers.
LEMMA IngestTypes ==
  ASSUME CasTypeOK, NEW w \in Writers, NEW root \in Nodes, Ingest(w, root)
  PROVE  CasTypeOK'
<1> DEFINE p == PostOrder[root]
           f == Subtrees(root) \ Present
<1>1. p \in NodeSeqs /\ <<>> \in NodeSeqs /\ f \in SUBSET Nodes
  <2>1. p \in NodeSeqs
    BY PostOrderEnds
  <2>2. Subtrees(root) \subseteq Nodes
    BY <2>1, SeqElements DEF NodeSeqs, Subtrees
  <2>3. QED
    BY <2>1, <2>2 DEF NodeSeqs
<1>2. /\ ingests' = ingests + 1 /\ todo' = [todo EXCEPT ![w] = p]
      /\ pc' = [pc EXCEPT ![w] = "check"] /\ wrote' = [wrote EXCEPT ![w] = <<>>]
      /\ fresh' = [fresh EXCEPT ![w] = f]
      /\ UNCHANGED <<final, tmp, content, cache, fd, acked, crashes, losses>>
  BY DEF Ingest
<1> HIDE DEF p, f
<1>3. todo' \in [Writers -> NodeSeqs] /\ wrote' \in [Writers -> NodeSeqs]
  BY <1>1, <1>2 DEF CasTypeOK
<1>4. fresh' \in [Writers -> SUBSET Nodes]
  BY <1>1, <1>2 DEF CasTypeOK
<1>5. pc' \in [Writers -> {"idle"} \cup Running] /\ ingests' \in Nat
  BY <1>2 DEF CasTypeOK, Running
<1>6. QED
  BY <1>2, <1>3, <1>4, <1>5 DEF CasTypeOK

LEMMA OpenTypes ==
  ASSUME CasTypeOK, NEW w \in Writers, Len(todo[w]) > 0, Open(w)
  PROVE  /\ CasTypeOK'
         /\ tmp'[Head(todo[w])] \in InodesOf(Head(todo[w])) /\ fd'[w] = tmp'[Head(todo[w])]
         /\ content' = [content EXCEPT ![fd'[w]] = "empty"]
<1> DEFINE n == Head(todo[w])
           inode == IF tmp[n] = Absent THEN NewInode(n) ELSE tmp[n]
<1>1. n \in Nodes
  BY HeadNode
<1>2. /\ tmp' = [tmp EXCEPT ![n] = inode] /\ content' = [content EXCEPT ![inode] = "empty"]
      /\ fd' = [fd EXCEPT ![w] = inode] /\ pc' = [pc EXCEPT ![w] = "opened"]
      /\ UNCHANGED <<final, cache, todo, wrote, fresh, acked, ingests, crashes, losses>>
  BY DEF Open
<1> HIDE DEF n
<1>3. inode \in InodesOf(n)
  <2>1. CASE tmp[n] = Absent
    BY <1>1, <2>1, InodeFree
  <2>2. CASE tmp[n] # Absent
    BY <1>1, <2>2 DEF CasTypeOK
  <2>3. QED
    BY <2>1, <2>2
<1> HIDE DEF inode
<1>4. inode \in Inodes
  BY <1>1, <1>3, InodesAreOfNodes
<1>5. /\ tmp' \in [Nodes -> Inodes \cup {Absent}] /\ fd' \in [Writers -> Inodes \cup {Absent}]
      /\ content' \in [Inodes -> {"empty", "whole"}]
      /\ pc' \in [Writers -> {"idle"} \cup Running]
  BY <1>2, <1>4 DEF CasTypeOK, Running
<1>6. tmp'[n] = inode /\ fd'[w] = inode /\ \A m \in Nodes : m # n => tmp'[m] = tmp[m]
  BY <1>1, <1>2 DEF CasTypeOK
<1>7. \A m \in Nodes : /\ final'[m] \in InodesOf(m) \cup {Absent}
                       /\ tmp'[m] \in InodesOf(m) \cup {Absent}
  BY <1>2, <1>3, <1>6 DEF CasTypeOK
<1>8. CasTypeOK'
  BY <1>2, <1>5, <1>7 DEF CasTypeOK, InodesOf, Slots
<1>9. QED
  BY <1>2, <1>3, <1>6, <1>8 DEF n

LEMMA WriteTypes ==
  ASSUME CasTypeOK, NEW w \in Writers, Write(w)
  PROVE  CasTypeOK'
<1>1. UNCHANGED <<final, tmp, cache, wrote, fresh, acked, ingests, crashes, losses>>
  BY DEF Write
<1>2. CASE /\ content' = [content EXCEPT ![fd[w]] = "whole"]
           /\ pc' = [pc EXCEPT ![w] = "written"] /\ UNCHANGED <<todo, fd>>
  <2>1. content' \in [Inodes -> {"empty", "whole"}] /\ pc' \in [Writers -> {"idle"} \cup Running]
    BY <1>2 DEF CasTypeOK, Running
  <2>2. QED
    BY <1>1, <1>2, <2>1 DEF CasTypeOK
<1>3. CASE GiveUp(w) /\ UNCHANGED content
  <2>1. /\ pc' \in [Writers -> {"idle"} \cup Running] /\ todo' \in [Writers -> NodeSeqs]
        /\ fd' \in [Writers -> Inodes \cup {Absent}]
    BY <1>3, GiveUpTypes
  <2>2. QED
    BY <1>1, <1>3, <2>1 DEF CasTypeOK
<1>4. QED
  BY <1>2, <1>3 DEF Write

LEMMA RenameTypes ==
  ASSUME CasTypeOK, NEW w \in Writers, Len(todo[w]) > 0, Rename(w)
  PROVE  CasTypeOK'
<1> DEFINE n == Head(todo[w])
<1>1. n \in Nodes
  BY HeadNode
<1>2. UNCHANGED <<content, fresh, ingests, crashes, losses>>
  BY DEF Rename
<1>3. CASE /\ tmp[n] # Absent
           /\ final' = [final EXCEPT ![n] = tmp[n]]
           /\ tmp' = [tmp EXCEPT ![n] = Absent]
           /\ wrote' = [wrote EXCEPT ![w] = Append(@, n)]
           /\ fd' = [fd EXCEPT ![w] = Absent]
           /\ NodeDone(w)
  <2>1. /\ cache' \in [Writers -> SUBSET Nodes] /\ todo' \in [Writers -> NodeSeqs]
        /\ pc' \in [Writers -> {"idle"} \cup Running] /\ acked' \subseteq Nodes
    BY <1>3, NodeDoneTypes
  <2> HIDE DEF n
  <2>2. wrote' \in [Writers -> NodeSeqs]
    <3> DEFINE s == Append(wrote[w], n)
    <3>1. s \in NodeSeqs
      BY <1>1 DEF CasTypeOK, NodeSeqs
    <3>2. wrote' = [wrote EXCEPT ![w] = s]
      BY <1>3
    <3> HIDE DEF s
    <3>3. QED
      BY <3>1, <3>2 DEF CasTypeOK
  <2>3. /\ final' \in [Nodes -> Inodes \cup {Absent}] /\ tmp' \in [Nodes -> Inodes \cup {Absent}]
        /\ fd' \in [Writers -> Inodes \cup {Absent}]
    BY <1>1, <1>3 DEF CasTypeOK
  <2>4. \A m \in Nodes : /\ final'[m] \in InodesOf(m) \cup {Absent}
                         /\ tmp'[m] \in InodesOf(m) \cup {Absent}
    BY <1>1, <1>3 DEF CasTypeOK
  <2>5. QED
    BY <1>2, <2>1, <2>2, <2>3, <2>4 DEF CasTypeOK, InodesOf, Slots
<1>4. CASE tmp[n] = Absent /\ GiveUp(w) /\ UNCHANGED <<final, tmp, wrote, cache, acked>>
  <2>1. /\ pc' \in [Writers -> {"idle"} \cup Running] /\ todo' \in [Writers -> NodeSeqs]
        /\ fd' \in [Writers -> Inodes \cup {Absent}]
    BY <1>4, GiveUpTypes
  <2>2. QED
    BY <1>2, <1>4, <2>1 DEF CasTypeOK
<1>5. QED
  BY <1>3, <1>4 DEF Rename

LEMMA CrashTypes ==
  ASSUME CasTypeOK, NEW w \in Writers, Crash(w)
  PROVE  CasTypeOK'
<1>1. /\ pc' \in [Writers -> {"idle"} \cup Running] /\ todo' \in [Writers -> NodeSeqs]
      /\ fd' \in [Writers -> Inodes \cup {Absent}]
  BY GiveUpTypes DEF Crash
<1>2. /\ crashes' = crashes + 1 /\ cache' = [cache EXCEPT ![w] = {}]
      /\ UNCHANGED <<final, tmp, content, wrote, fresh, acked, ingests, losses>>
  BY DEF Crash
<1>3. cache' \in [Writers -> SUBSET Nodes] /\ crashes' \in Nat
  BY <1>2 DEF CasTypeOK
<1>4. QED
  BY <1>1, <1>2, <1>3 DEF CasTypeOK

LEMMA PowerLossTypes ==
  ASSUME CasTypeOK, PowerLoss
  PROVE  CasTypeOK' /\ Present' \subseteq Present
<1>1. PICK gone \in SUBSET Present :
        \E undone \in SUBSET gone :
          /\ final' = [n \in Nodes |-> IF n \in gone THEN Absent ELSE final[n]]
          /\ \E dropped \in SUBSET {n \in Nodes : tmp[n] # Absent} :
               tmp' = [n \in Nodes |-> CASE n \in undone -> final[n]
                                         [] n \in dropped \ undone -> Absent
                                         [] OTHER -> tmp[n]]
  BY Zenon DEF PowerLoss
<1>0. /\ final' = [n \in Nodes |-> IF n \in gone THEN Absent ELSE final[n]]
      /\ \E undone, dropped :
           tmp' = [n \in Nodes |-> CASE n \in undone -> final[n]
                                     [] n \in dropped \ undone -> Absent
                                     [] OTHER -> tmp[n]]
  BY <1>1
<1>2. \A n \in Nodes : final[n] \in Inodes \cup {Absent} /\ tmp[n] \in Inodes \cup {Absent}
        /\ final[n] \in InodesOf(n) \cup {Absent} /\ tmp[n] \in InodesOf(n) \cup {Absent}
  BY DEF CasTypeOK
<1>3. \A n \in Nodes : final'[n] \in {final[n], Absent} /\ tmp'[n] \in {final[n], tmp[n], Absent}
  BY <1>0
<1>4. final' \in [Nodes -> Inodes \cup {Absent}] /\ tmp' \in [Nodes -> Inodes \cup {Absent}]
  BY <1>0, <1>2
<1>5. \A n \in Nodes : final'[n] \in InodesOf(n) \cup {Absent} /\ tmp'[n] \in InodesOf(n) \cup {Absent}
  BY <1>2, <1>3
<1>6. content' \in [Inodes -> {"empty", "whole"}]
  <2>1. PICK intact : content' = [i \in Inodes |-> IF i \in intact THEN "whole" ELSE "empty"]
    BY DEF PowerLoss
  <2>2. QED
    BY <2>1
<1>7. <<>> \in NodeSeqs /\ {} \in SUBSET Nodes
  BY DEF NodeSeqs
<1>8. /\ todo' \in [Writers -> NodeSeqs] /\ cache' \in [Writers -> SUBSET Nodes]
      /\ pc' \in [Writers -> {"idle"} \cup Running] /\ fd' \in [Writers -> Inodes \cup {Absent}]
      /\ wrote' \in [Writers -> NodeSeqs] /\ fresh' \in [Writers -> SUBSET Nodes]
      /\ acked' = {} /\ losses' \in Nat
  <2> HIDE DEF NodeSeqs
  <2>1. QED
    BY <1>7 DEF PowerLoss, CasTypeOK
<1>9. ingests' \in Nat /\ crashes' \in Nat
  BY DEF PowerLoss, CasTypeOK
<1>10. CasTypeOK'
  BY <1>4, <1>5, <1>6, <1>8, <1>9 DEF CasTypeOK, Inodes, InodesOf, Slots
<1>11. Present' \subseteq Present
  BY <1>3 DEF Present
<1>12. QED
  BY <1>10, <1>11

-----------------------------------------------------------------------------
(* The order in which nodes appear, of any number of writers. *)

\* A writer whose own state stays is not disturbed by nodes that appear.
LEMMA BystanderOK ==
  ASSUME NEW v \in Writers, WriterOK(v), Present \subseteq Present',
         UNCHANGED <<todo[v], cache[v], pc[v]>>
  PROVE  WriterOK(v)'
<1>1. InOrder(v)'
  BY DEF WriterOK, InOrder
<1>2. QED
  BY <1>1 DEF WriterOK, Left, Elements

\* A writer with nothing to do.
LEMMA IdleOK ==
  ASSUME NEW v \in Writers, todo'[v] = <<>>, pc'[v] = "idle", cache'[v] \subseteq Present'
  PROVE  WriterOK(v)'
<1>1. Len(todo'[v]) = 0
  OBVIOUS
<1>2. InOrder(v)'
  BY <1>1 DEF InOrder
<1>3. QED
  BY <1>2 DEF WriterOK

\* A writer that moves on in the writing of its node.
LEMMA MovingOK ==
  ASSUME NEW v \in Writers, WriterOK(v), pc[v] # "idle", Present \subseteq Present',
         UNCHANGED <<todo[v], cache[v]>>
  PROVE  WriterOK(v)'
<1>1. InOrder(v)'
  BY DEF WriterOK, InOrder
<1>2. QED
  BY <1>1 DEF WriterOK, Left, Elements

LEMMA AckedKept ==
  ASSUME AckedPresent, Present \subseteq Present', UNCHANGED acked
  PROVE  AckedPresent'
BY DEF AckedPresent, Subtrees

\* The elements of a sequence are its head and those of its tail.
LEMMA HeadTailElements ==
  ASSUME NEW S, NEW s \in Seq(S), Len(s) > 0
  PROVE  Elements(s) = {Head(s)} \cup Elements(Tail(s))
<1> DEFINE t == Tail(s)
           n == Len(s)
<1>1. /\ Head(s) = s[1] /\ n \in Nat /\ n > 0 /\ Len(t) = n - 1
      /\ \A i \in 1..(n - 1) : t[i] = s[i + 1]
  BY HeadAndTail
<1>2. Elements(s) = {s[i] : i \in 1..n}
  BY DEF Elements
<1>3. Elements(t) = {t[i] : i \in 1..(n - 1)}
  BY <1>1 DEF Elements
<1> HIDE DEF t, n
<1>4. \A i \in 1..n : i = 1 \/ (i - 1 \in 1..(n - 1) /\ (i - 1) + 1 = i)
  BY <1>1
<1>5. \A i \in 1..(n - 1) : i + 1 \in 1..n
  BY <1>1
<1>6. 1 \in 1..n
  BY <1>1
<1>7. ASSUME NEW x \in Elements(s) PROVE x = s[1] \/ x \in Elements(t)
  <2>1. PICK i \in 1..n : x = s[i]
    BY <1>2
  <2>2. CASE i # 1
    <3>1. i - 1 \in 1..(n - 1) /\ t[i - 1] = x
      BY <1>1, <1>4, <2>1, <2>2
    <3>2. QED
      BY <1>3, <3>1
  <2>3. QED
    BY <2>1, <2>2
<1>8. \A x \in Elements(t) : x \in Elements(s)
  BY <1>1, <1>2, <1>3, <1>5
<1>9. s[1] \in Elements(s)
  BY <1>2, <1>6
<1>10. QED
  BY <1>1, <1>7, <1>8, <1>9 DEF t

\* A node is done when it is present: then the rest is still in order, and a root
\* whose last node is done has them all.
LEMMA NodeDoneOK ==
  ASSUME ContentIInv, NEW w \in Writers, pc[w] # "idle", NodeDone(w),
         Present \subseteq Present', Head(todo[w]) \in Present'
  PROVE  AckedPresent' /\ \A v \in Writers : WriterOK(v)'
<1> DEFINE s == todo[w]
           n == Head(s)
           t == Tail(s)
<1>1. /\ CasTypeOK /\ WriterOK(w) /\ Len(s) > 0 /\ s \in Seq(Nodes)
  BY DEF ContentIInv, WriterOK, CasTypeOK, NodeSeqs
<1>2. /\ n = s[1] /\ Len(s) \in Nat /\ Len(t) = Len(s) - 1
      /\ \A i \in 1..(Len(s) - 1) : t[i] = s[i + 1]
      /\ Elements(s) = {n} \cup Elements(t)
  BY <1>1, HeadAndTail, HeadTailElements
<1>3. /\ cache' = [cache EXCEPT ![w] = cache[w] \cup {n}] /\ todo' = [todo EXCEPT ![w] = t]
      /\ n \in Present'
  BY DEF NodeDone
<1>4. /\ Len(s) = 1 => pc' = [pc EXCEPT ![w] = "idle"] /\ acked' = acked \cup {n}
      /\ Len(s) # 1 => pc' = [pc EXCEPT ![w] = "check"] /\ acked' = acked
  BY DEF NodeDone
<1>5. /\ cache \in [Writers -> SUBSET Nodes] /\ todo \in [Writers -> NodeSeqs]
      /\ pc \in [Writers -> {"idle"} \cup Running]
  BY <1>1 DEF CasTypeOK
<1>6. /\ \A i \in 1..Len(s) : \A m \in Kids(s[i]) : m \in Present \/ \E k \in 1..(i - 1) : s[k] = m
      /\ cache[w] \subseteq Present
      /\ Subtrees(s[Len(s)]) \subseteq Present \cup Elements(s)
  BY <1>1 DEF WriterOK, InOrder, Left
<1> HIDE DEF s, n, t
<1>7. cache'[w] = cache[w] \cup {n} /\ todo'[w] = t
  BY <1>3, <1>5
<1>8. InOrder(w)'
  <2>1. ASSUME NEW i \in 1..Len(t), NEW m \in Kids(t[i])
        PROVE  m \in Present' \/ \E k \in 1..(i - 1) : t[k] = m
    <3>1. i + 1 \in 1..Len(s) /\ t[i] = s[i + 1] /\ (i + 1) - 1 = i
      BY <1>2
    <3>2. m \in Present \/ \E k \in 1..i : s[k] = m
      BY <1>6, <3>1
    <3>3. CASE m \in Present
      BY <3>3
    <3>4. ASSUME NEW k \in 1..i, s[k] = m PROVE m \in Present' \/ \E j \in 1..(i - 1) : t[j] = m
      <4>1. CASE k = 1
        BY <1>2, <1>3, <3>4, <4>1
      <4>2. CASE k # 1
        <5>1. k - 1 \in 1..(i - 1) /\ k - 1 \in 1..(Len(s) - 1) /\ (k - 1) + 1 = k
          BY <1>2, <4>2
        <5>2. t[k - 1] = m
          BY <1>2, <3>4, <5>1
        <5>3. QED
          BY <5>1, <5>2
      <4>3. QED
        BY <4>1, <4>2
    <3>5. QED
      BY <3>2, <3>3, <3>4
  <2>2. QED
    BY <1>7, <2>1 DEF InOrder
<1>9. /\ Present' = Present \cup Present' /\ Elements(s) \subseteq Present' \cup Elements(t)
  BY <1>2, <1>3
<1>10. WriterOK(w)'
  <2>1. cache'[w] \subseteq Present'
    BY <1>3, <1>6, <1>7
  <2>2. ASSUME pc'[w] # "idle"
        PROVE  Len(t) > 0 /\ Subtrees(t[Len(t)]) \subseteq Present' \cup Elements(t)
    <3>1. Len(s) # 1
      BY <1>4, <1>5, <2>2
    <3> DEFINE j == Len(s)
               k == Len(t)
    <3>2. j > 0 /\ j \in Nat /\ k = j - 1 /\ j # 1
      BY <1>1, <1>2, <3>1
    <3> HIDE DEF j, k
    <3>3. k > 0 /\ k \in 1..(j - 1) /\ k + 1 = j
      BY <3>2
    <3> USE DEF j, k
    <3>4. t[Len(t)] = s[Len(s)]
      BY <1>2, <3>3
    <3>5. QED
      BY <1>6, <1>9, <3>3, <3>4
  <2>3. QED
    BY <1>7, <1>8, <2>1, <2>2 DEF WriterOK, Left, Subtrees
<1>11. ASSUME NEW v \in Writers PROVE WriterOK(v)'
  <2>1. CASE v = w
    BY <1>10, <2>1
  <2>2. CASE v # w
    <3>1. UNCHANGED <<todo[v], cache[v], pc[v]>>
      <4>1. todo'[v] = todo[v] /\ cache'[v] = cache[v]
        BY <1>3, <1>5, <2>2
      <4>2. pc'[v] = pc[v]
        BY <1>4, <1>5, <2>2
      <4>3. QED
        BY <4>1, <4>2
    <3>2. QED
      BY <3>1, BystanderOK DEF ContentIInv
  <2>3. QED
    BY <2>1, <2>2
<1>12. AckedPresent'
  <2>1. ASSUME NEW m \in acked' PROVE Subtrees(m)' \subseteq Present'
    <3>1. CASE m \in acked
      BY <3>1 DEF ContentIInv, AckedPresent, Subtrees
    <3>2. CASE m \notin acked
      <4>1. Len(s) = 1 /\ m = n
        BY <1>4, <2>1, <3>2
      <4>2. s[Len(s)] = n
        BY <1>2, <4>1
      <4>3. Elements(t) = {}
        BY <1>2, <4>1 DEF Elements
      <4>4. Subtrees(n) \subseteq Present'
        BY <1>6, <1>9, <4>2, <4>3
      <4>5. QED
        BY <4>1, <4>4 DEF Subtrees
    <3>3. QED
      BY <3>1, <3>2
  <2>2. QED
    BY <2>1 DEF AckedPresent
<1>13. QED
  BY <1>11, <1>12

\* Nodes appear by a rename only.
LEMMA SameFinal ==
  ASSUME UNCHANGED final
  PROVE  Present' = Present
BY DEF Present

LEMMA RenamedPresent ==
  ASSUME CasTypeOK, NEW n \in Nodes, tmp[n] # Absent, final' = [final EXCEPT ![n] = tmp[n]]
  PROVE  Present' = Present \cup {n}
<1>1. \A m \in Nodes : final'[m] = IF m = n THEN tmp[n] ELSE final[m]
  BY DEF CasTypeOK
<1>2. QED
  BY <1>1 DEF Present

LEMMA IngestOK ==
  ASSUME ContentIInv, NEW w \in Writers, NEW root \in Nodes, Ingest(w, root)
  PROVE  ContentIInv'
<1> DEFINE p == PostOrder[root]
<1>1. CasTypeOK' /\ CasTypeOK
  BY IngestTypes DEF ContentIInv
<1>2. Present' = Present /\ UNCHANGED <<cache, acked>>
  BY SameFinal DEF Ingest
<1>3. AckedPresent'
  BY <1>2, AckedKept DEF ContentIInv
<1>4. /\ todo' = [todo EXCEPT ![w] = p] /\ pc' = [pc EXCEPT ![w] = "check"]
      /\ todo \in [Writers -> NodeSeqs] /\ pc \in [Writers -> {"idle"} \cup Running]
  BY <1>1 DEF Ingest, CasTypeOK
<1>5. /\ p \in NodeSeqs /\ Len(p) \in Nat \ {0} /\ p[Len(p)] = root /\ ChildrenFirst(p)
  BY PostOrderEnds, PostOrderChildrenFirst
<1>6. Subtrees(root) = Elements(p)
  <2>1. DOMAIN p = 1..Len(p)
    BY <1>5, SeqElements DEF NodeSeqs
  <2>2. QED
    BY <2>1 DEF Subtrees, Elements
<1> HIDE DEF p
<1>7. WriterOK(w)'
  <2>1. todo'[w] = p /\ cache'[w] \subseteq Present'
    BY <1>2, <1>4 DEF ContentIInv, WriterOK
  <2>2. InOrder(w)'
    BY <1>5, <2>1 DEF InOrder, ChildrenFirst
  <2>3. Subtrees(p[Len(p)])' \subseteq Elements(p)
    BY <1>5, <1>6 DEF Subtrees
  <2>4. Left(w)' = Elements(p)
    BY <2>1 DEF Left, Elements
  <2>5. QED
    BY <1>5, <2>1, <2>2, <2>3, <2>4 DEF WriterOK, Subtrees
<1>8. ASSUME NEW v \in Writers, v # w PROVE WriterOK(v)'
  <2>1. UNCHANGED <<todo[v], cache[v], pc[v]>>
    BY <1>2, <1>4, <1>8
  <2>2. QED
    BY <1>2, <2>1, BystanderOK DEF ContentIInv
<1>9. QED
  BY <1>1, <1>3, <1>7, <1>8 DEF ContentIInv

\* A step of a writer within its node, and one that ends its ingest.
LEMMA MoveOK ==
  ASSUME ContentIInv, CasTypeOK', NEW w \in Writers, pc[w] # "idle", NEW to,
         pc' = [pc EXCEPT ![w] = to], UNCHANGED <<final, cache, todo, acked>>
  PROVE  ContentIInv'
<1>1. Present' = Present
  BY SameFinal
<1>2. AckedPresent'
  BY <1>1, AckedKept DEF ContentIInv
<1>3. ASSUME NEW v \in Writers PROVE WriterOK(v)'
  <2>1. CASE v = w
    BY <1>1, <2>1, MovingOK DEF ContentIInv
  <2>2. CASE v # w
    <3>1. UNCHANGED <<todo[v], cache[v], pc[v]>>
      BY <2>2 DEF ContentIInv, CasTypeOK
    <3>2. QED
      BY <1>1, <3>1, BystanderOK DEF ContentIInv
  <2>3. QED
    BY <2>1, <2>2
<1>4. QED
  BY <1>2, <1>3 DEF ContentIInv

LEMMA GiveUpOK ==
  ASSUME ContentIInv, CasTypeOK', NEW w \in Writers, GiveUp(w),
         cache' = cache \/ cache' = [cache EXCEPT ![w] = {}], UNCHANGED <<final, acked>>
  PROVE  ContentIInv'
<1>1. Present' = Present
  BY SameFinal
<1>2. AckedPresent'
  BY <1>1, AckedKept DEF ContentIInv
<1>3. /\ todo' = [todo EXCEPT ![w] = <<>>] /\ pc' = [pc EXCEPT ![w] = "idle"]
      /\ DOMAIN todo = Writers /\ DOMAIN pc = Writers /\ DOMAIN cache = Writers
  BY DEF GiveUp, ContentIInv, CasTypeOK
<1>4. ASSUME NEW v \in Writers PROVE WriterOK(v)'
  <2>1. CASE v = w
    <3>1. todo'[v] = <<>> /\ pc'[v] = "idle"
      BY <1>3, <2>1
    <3>2. cache'[v] \subseteq Present'
      BY <1>1, <1>3, <2>1 DEF ContentIInv, WriterOK
    <3>3. QED
      BY <3>1, <3>2, IdleOK
  <2>2. CASE v # w
    <3>1. UNCHANGED <<todo[v], cache[v], pc[v]>>
      BY <1>3, <2>2
    <3>2. QED
      BY <1>1, <3>1, BystanderOK DEF ContentIInv
  <2>3. QED
    BY <2>1, <2>2
<1>5. QED
  BY <1>2, <1>4 DEF ContentIInv

\* Nothing appears, or one node that was absent and whose children are present.
OneAppears ==
  \/ Present' = Present
  \/ \E n \in Nodes : n \notin Present /\ Kids(n) \subseteq Present /\ Present' = Present \cup {n}

LEMMA RenameOK ==
  ASSUME ContentIInv, NEW w \in Writers, Rename(w)
  PROVE  ContentIInv' /\ OneAppears
<1> DEFINE n == Head(todo[w])
<1>1. CasTypeOK /\ WriterOK(w) /\ pc[w] # "idle" /\ Len(todo[w]) > 0
  BY DEF ContentIInv, WriterOK, Rename
<1>2. CasTypeOK' /\ n \in Nodes
  BY <1>1, RenameTypes, HeadNode
<1>3. CASE /\ tmp[n] # Absent
           /\ final' = [final EXCEPT ![n] = tmp[n]]
           /\ NodeDone(w)
  <2>1. Present' = Present \cup {n}
    <3> HIDE DEF n
    <3>1. QED
      BY <1>1, <1>2, <1>3, RenamedPresent
  <2>2. AckedPresent' /\ \A v \in Writers : WriterOK(v)'
    BY <1>1, <1>3, <2>1, NodeDoneOK
  <2>3. Kids(n) \subseteq Present
    <3>1. todo[w] \in Seq(Nodes)
      BY <1>1 DEF CasTypeOK, NodeSeqs
    <3>2. n = todo[w][1] /\ 1 \in 1..Len(todo[w])
      BY <1>1, <3>1, HeadAndTail
    <3>3. \A m \in Kids(todo[w][1]) : m \in Present \/ \E k \in 1..(1 - 1) : todo[w][k] = m
      BY <1>1, <3>2 DEF WriterOK, InOrder
    <3> HIDE DEF n
    <3>4. QED
      BY <3>2, <3>3
  <2>4. OneAppears
    <3> HIDE DEF n
    <3>1. CASE n \in Present
      BY <2>1, <3>1 DEF OneAppears
    <3>2. CASE n \notin Present
      BY <1>2, <2>1, <2>3, <3>2 DEF OneAppears
    <3>3. QED
      BY <3>1, <3>2
  <2>5. QED
    BY <1>2, <2>2, <2>4 DEF ContentIInv
<1>4. CASE GiveUp(w) /\ UNCHANGED <<final, tmp, wrote, cache, acked>>
  <2>1. ContentIInv'
    BY <1>2, <1>4, GiveUpOK
  <2>2. QED
    BY <1>4, <2>1, SameFinal DEF OneAppears
<1>5. QED
  BY <1>3, <1>4 DEF Rename

LEMMA SkipOK ==
  ASSUME ContentIInv, NEW w \in Writers, Skip(w)
  PROVE  ContentIInv'
<1> DEFINE n == Head(todo[w])
<1>1. CasTypeOK /\ WriterOK(w) /\ pc[w] # "idle" /\ Len(todo[w]) > 0
  BY DEF ContentIInv, WriterOK, Skip
<1>2. /\ NodeDone(w) /\ n \in cache[w] \cup Present
      /\ UNCHANGED <<final, tmp, content, fd, wrote, fresh, ingests, crashes, losses>>
  BY DEF Skip
<1>3. Present' = Present
  BY <1>2, SameFinal
<1>4. n \in Present
  BY <1>1, <1>2 DEF WriterOK
<1>5. AckedPresent' /\ \A v \in Writers : WriterOK(v)'
  BY <1>1, <1>2, <1>3, <1>4, NodeDoneOK
<1>6. CasTypeOK'
  <2>1. /\ cache' \in [Writers -> SUBSET Nodes] /\ todo' \in [Writers -> NodeSeqs]
        /\ pc' \in [Writers -> {"idle"} \cup Running] /\ acked' \subseteq Nodes
    BY <1>1, <1>2, NodeDoneTypes
  <2>2. QED
    BY <1>1, <1>2, <2>1 DEF CasTypeOK, InodesOf, Slots
<1>7. QED
  BY <1>5, <1>6 DEF ContentIInv

LEMMA MissOK ==
  ASSUME ContentIInv, NEW w \in Writers, Miss(w)
  PROVE  ContentIInv'
<1>1. /\ pc[w] # "idle" /\ pc' = [pc EXCEPT ![w] = "missed"]
      /\ UNCHANGED <<final, tmp, content, cache, todo, fd, wrote, fresh, acked,
                     ingests, crashes, losses>>
  BY DEF Miss
<1>2. CasTypeOK'
  <2>1. pc' \in [Writers -> {"idle"} \cup Running]
    BY <1>1 DEF ContentIInv, CasTypeOK, Running
  <2>2. QED
    BY <1>1, <2>1 DEF ContentIInv, CasTypeOK, InodesOf, Slots
<1>3. QED
  BY <1>1, <1>2, MoveOK

LEMMA OpenOK ==
  ASSUME ContentIInv, NEW w \in Writers, Open(w)
  PROVE  ContentIInv'
<1>1. /\ pc[w] # "idle" /\ pc' = [pc EXCEPT ![w] = "opened"]
      /\ UNCHANGED <<final, cache, todo, acked>>
  BY DEF Open
<1>2. CasTypeOK'
  BY <1>1, OpenTypes DEF ContentIInv, WriterOK
<1>3. QED
  BY <1>1, <1>2, MoveOK

LEMMA WriteOK ==
  ASSUME ContentIInv, NEW w \in Writers, Write(w)
  PROVE  ContentIInv'
<1>1. pc[w] # "idle" /\ UNCHANGED <<final, cache, acked>>
  BY DEF Write
<1>2. CasTypeOK'
  BY WriteTypes DEF ContentIInv
<1>3. CASE pc' = [pc EXCEPT ![w] = "written"] /\ UNCHANGED todo
  BY <1>1, <1>2, <1>3, MoveOK
<1>4. CASE GiveUp(w)
  BY <1>1, <1>2, <1>4, GiveUpOK
<1>5. QED
  BY <1>3, <1>4 DEF Write

LEMMA PowerLossOK ==
  ASSUME ContentIInv, PowerLoss
  PROVE  ContentIInv'
<1>1. CasTypeOK'
  BY PowerLossTypes DEF ContentIInv
<1>2. AckedPresent'
  BY DEF PowerLoss, AckedPresent
<1>3. ASSUME NEW v \in Writers PROVE WriterOK(v)'
  <2>1. todo'[v] = <<>> /\ pc'[v] = "idle" /\ cache'[v] \subseteq Present'
    BY DEF PowerLoss
  <2>2. QED
    BY <2>1, IdleOK
<1>4. QED
  BY <1>1, <1>2, <1>3 DEF ContentIInv

LEMMA ContentStep ==
  ASSUME ContentIInv, [CasNext]_casVars
  PROVE  ContentIInv' /\ (PowerLoss \/ OneAppears)
<1>1. ASSUME NEW w \in Writers, NEW root \in Nodes, Ingest(w, root) PROVE ContentIInv' /\ OneAppears
  BY <1>1, IngestOK, SameFinal DEF OneAppears, Ingest
<1>2. ASSUME NEW w \in Writers, Skip(w) PROVE ContentIInv' /\ OneAppears
  BY <1>2, SkipOK, SameFinal DEF OneAppears, Skip
<1>3. ASSUME NEW w \in Writers, Miss(w) PROVE ContentIInv' /\ OneAppears
  BY <1>3, MissOK, SameFinal DEF OneAppears, Miss
<1>4. ASSUME NEW w \in Writers, Open(w) PROVE ContentIInv' /\ OneAppears
  BY <1>4, OpenOK, SameFinal DEF OneAppears, Open
<1>5. ASSUME NEW w \in Writers, Write(w) PROVE ContentIInv' /\ OneAppears
  BY <1>5, WriteOK, SameFinal DEF OneAppears, Write
<1>6. ASSUME NEW w \in Writers, Rename(w) PROVE ContentIInv' /\ OneAppears
  BY <1>6, RenameOK
<1>7. ASSUME NEW w \in Writers, Crash(w) PROVE ContentIInv' /\ OneAppears
  <2>1. CasTypeOK'
    BY <1>7, CrashTypes DEF ContentIInv
  <2>2. /\ GiveUp(w) /\ cache' = [cache EXCEPT ![w] = {}]
        /\ UNCHANGED <<final, tmp, content, wrote, fresh, acked, ingests, losses>>
    BY <1>7 DEF Crash
  <2>3. ContentIInv'
    BY <2>1, <2>2, GiveUpOK
  <2>4. QED
    BY <2>2, <2>3, SameFinal DEF OneAppears
<1>8. ASSUME PowerLoss PROVE ContentIInv'
  BY <1>8, PowerLossOK
<1>9. CASE UNCHANGED casVars
  <2>1. UNCHANGED <<final, tmp, content, cache, todo, pc, fd, wrote, fresh, acked,
                    ingests, crashes, losses>>
    BY <1>9 DEF casVars
  <2>2. Present' = Present
    BY <2>1, SameFinal
  <2>3. CasTypeOK'
    BY <2>1 DEF ContentIInv, CasTypeOK, InodesOf, Slots
  <2>4. AckedPresent'
    BY <2>1, <2>2, AckedKept DEF ContentIInv
  <2>5. ASSUME NEW v \in Writers PROVE WriterOK(v)'
    BY <2>1, <2>2, BystanderOK DEF ContentIInv
  <2>6. QED
    BY <2>2, <2>3, <2>4, <2>5 DEF ContentIInv, OneAppears
<1>10. QED
  BY <1>1, <1>2, <1>3, <1>4, <1>5, <1>6, <1>7, <1>8, <1>9 DEF CasNext

LEMMA ContentInitIInv == CasInit => ContentIInv /\ Present = {}
<1> SUFFICES ASSUME CasInit PROVE ContentIInv /\ Present = {}
  OBVIOUS
<1>1. CasTypeOK
  BY CasInitTypes
<1>2. Present = {}
  BY DEF CasInit, Present
<1>3. AckedPresent
  BY DEF CasInit, AckedPresent
<1>4. ASSUME NEW v \in Writers PROVE WriterOK(v)
  <2>1. todo[v] = <<>> /\ pc[v] = "idle" /\ cache[v] = {}
    BY DEF CasInit
  <2>2. Len(todo[v]) = 0
    BY <2>1
  <2>3. QED
    BY <2>1, <2>2 DEF WriterOK, InOrder
<1>5. QED
  BY <1>1, <1>2, <1>3, <1>4 DEF ContentIInv

-----------------------------------------------------------------------------
(* The files of one writer. *)

LEMMA ObjectsInit == CasInit => ObjectsInv
BY ContentInitIInv DEF ObjectsInv, OwnFile, CasInit

\* A step that leaves the files: what the writer knows of them depends on where it is.
LEMMA ObjectsQuiet ==
  ASSUME ObjectsInv, UNCHANGED <<final, content>>, losses' = 0 => losses = 0,
         \A w \in Writers : OwnFile(w)'
  PROVE  ObjectsInv'
<1>1. Present' = Present
  BY SameFinal
<1>2. losses' = 0 => Present' \subseteq Whole'
  BY <1>1 DEF ObjectsInv, Whole
<1>3. QED
  BY <1>2 DEF ObjectsInv

LEMMA ObjectsStep ==
  ASSUME OneWriter, ContentIInv, ObjectsInv, ContentIInv', [CasNext]_casVars
  PROVE  ObjectsInv'
<1>1. CasTypeOK /\ CasTypeOK'
  BY DEF ContentIInv
<1>2. ASSUME NEW w \in Writers, NEW root \in Nodes, Ingest(w, root) PROVE ObjectsInv'
  <2>1. /\ UNCHANGED <<final, tmp, content, cache, fd, acked, crashes, losses>>
        /\ pc' = [pc EXCEPT ![w] = "check"]
    BY <1>2 DEF Ingest
  <2>2. \A v \in Writers : pc'[v] = "check"
    BY <1>1, <2>1 DEF OneWriter, CasTypeOK
  <2>3. \A v \in Writers : OwnFile(v)'
    BY <2>2 DEF OwnFile
  <2>4. QED
    BY <2>1, <2>3, ObjectsQuiet
<1>3. ASSUME NEW w \in Writers, Skip(w) PROVE ObjectsInv'
  <2>1. /\ UNCHANGED <<final, content, losses>>
        /\ pc' = [pc EXCEPT ![w] = "check"] \/ pc' = [pc EXCEPT ![w] = "idle"]
    BY <1>3 DEF Skip, NodeDone
  <2>2. \A v \in Writers : pc'[v] \in {"check", "idle"}
    BY <1>1, <2>1 DEF OneWriter, CasTypeOK
  <2>3. \A v \in Writers : OwnFile(v)'
    BY <2>2 DEF OwnFile
  <2>4. QED
    BY <2>1, <2>3, ObjectsQuiet
<1>4. ASSUME NEW w \in Writers, Miss(w) PROVE ObjectsInv'
  <2>1. /\ UNCHANGED <<final, content, todo, losses>> /\ pc' = [pc EXCEPT ![w] = "missed"]
        /\ Head(todo[w]) \notin Present
    BY <1>4 DEF Miss
  <2>2. \A v \in Writers : v = w
    BY DEF OneWriter
  <2>3. pc'[w] = "missed" /\ Head(todo'[w]) \notin Present'
    BY <1>1, <2>1, SameFinal DEF CasTypeOK
  <2>4. \A v \in Writers : OwnFile(v)'
    BY <2>2, <2>3 DEF OwnFile
  <2>5. QED
    BY <2>1, <2>4, ObjectsQuiet
<1>5. ASSUME NEW w \in Writers, Open(w) PROVE ObjectsInv'
  <2> DEFINE n == Head(todo[w])
             i == fd'[w]
  <2>1. /\ pc[w] = "missed" /\ Len(todo[w]) > 0 /\ n \in Nodes
        /\ n \notin Present
    BY <1>1, <1>5, HeadNode DEF Open, ContentIInv, WriterOK, ObjectsInv, OwnFile
  <2>2. UNCHANGED <<final, todo, losses>> /\ pc' = [pc EXCEPT ![w] = "opened"]
    BY <1>5 DEF Open
  <2>3. i = tmp'[n] /\ i \in InodesOf(n) /\ content' = [content EXCEPT ![i] = "empty"]
    BY <1>1, <1>5, <2>1, OpenTypes
  <2> HIDE DEF n, i
  <2>4. i # Absent /\ i[1] = n
    BY <2>1, <2>3, InodesAreOfNodes
  <2>5. Present' = Present
    BY <2>2, SameFinal
  <2>6. losses' = 0 => Present' \subseteq Whole'
    <3> SUFFICES ASSUME losses' = 0, NEW m \in Present PROVE m \in Whole'
      BY <2>5
    <3>1. m \in Nodes /\ final[m] # Absent /\ content[final[m]] = "whole"
      BY <2>2 DEF ObjectsInv, Whole, Present
    <3>2. final[m] \in InodesOf(m)
      BY <1>1, <3>1 DEF CasTypeOK
    <3>3. final[m] # i /\ final[m] \in Inodes
      BY <2>1, <2>4, <3>1, <3>2, InodesAreOfNodes
    <3>4. content'[final[m]] = "whole"
      BY <1>1, <2>3, <3>1, <3>3 DEF CasTypeOK
    <3>5. final' = final
      BY <2>2
    <3>6. QED
      BY <2>5, <3>4, <3>5 DEF Whole
  <2>7. pc'[w] = "opened"
    BY <1>1, <2>2 DEF CasTypeOK
  <2>8. OwnFile(w)'
    BY <2>1, <2>2, <2>3, <2>4, <2>5, <2>7 DEF OwnFile, n, i
  <2>9. \A v \in Writers : OwnFile(v)'
    BY <2>8 DEF OneWriter
  <2>10. QED
    BY <2>6, <2>9 DEF ObjectsInv
<1>6. ASSUME NEW w \in Writers, Write(w) PROVE ObjectsInv'
  <2> DEFINE n == Head(todo[w])
             i == fd[w]
  <2>1. /\ pc[w] = "opened" /\ n \notin Present
        /\ i = tmp[n] /\ i # Absent
    BY <1>6 DEF Write, ObjectsInv, OwnFile
  <2>2. UNCHANGED <<final, tmp, losses>>
    BY <1>6 DEF Write
  <2>3. Present' = Present
    BY <2>2, SameFinal
  <2>4. CASE GiveUp(w) /\ UNCHANGED content
    <3>1. \A v \in Writers : pc'[v] = "idle"
      BY <1>1, <2>4 DEF GiveUp, OneWriter, CasTypeOK
    <3>2. \A v \in Writers : OwnFile(v)'
      BY <3>1 DEF OwnFile
    <3>3. QED
      BY <2>2, <2>4, <3>2, ObjectsQuiet
  <2>5. CASE /\ content' = [content EXCEPT ![i] = "whole"]
             /\ pc' = [pc EXCEPT ![w] = "written"] /\ UNCHANGED <<todo, fd>>
    <3>1. i \in Inodes
      BY <1>1, <2>1 DEF CasTypeOK
    <3>2. content'[i] = "whole" /\ \A j \in Inodes : content[j] = "whole" => content'[j] = "whole"
      <4> HIDE DEF i
      <4>1. QED
        BY <1>1, <2>5, <3>1 DEF CasTypeOK
    <3>3. losses' = 0 => Present' \subseteq Whole'
      <4> SUFFICES ASSUME losses' = 0, NEW m \in Present PROVE m \in Whole'
        BY <2>3
      <4>1. m \in Nodes /\ final[m] # Absent /\ content[final[m]] = "whole"
        BY <2>2 DEF ObjectsInv, Whole, Present
      <4>2. final[m] \in Inodes
        BY <1>1, <4>1 DEF CasTypeOK
      <4>3. content'[final'[m]] = "whole"
        BY <2>2, <3>2, <4>1, <4>2
      <4>4. QED
        BY <2>3, <4>3 DEF Whole
    <3>4. pc'[w] = "written" /\ fd'[w] = i /\ Head(todo'[w]) = n
      BY <1>1, <2>5 DEF CasTypeOK
    <3>5. OwnFile(w)'
      BY <2>1, <2>2, <2>3, <3>2, <3>4 DEF OwnFile
    <3>6. \A v \in Writers : OwnFile(v)'
      BY <3>5 DEF OneWriter
    <3>7. QED
      BY <3>3, <3>6 DEF ObjectsInv
  <2>6. QED
    BY <1>6, <2>4, <2>5 DEF Write
<1>7. ASSUME NEW w \in Writers, Rename(w) PROVE ObjectsInv'
  <2> DEFINE n == Head(todo[w])
  <2>1. /\ pc[w] = "written" /\ Len(todo[w]) > 0 /\ n \in Nodes
        /\ n \notin Present /\ fd[w] = tmp[n] /\ tmp[n] # Absent
        /\ losses = 0 => content[tmp[n]] = "whole"
    BY <1>1, <1>7, HeadNode DEF Rename, ContentIInv, WriterOK, ObjectsInv, OwnFile
  <2>2. /\ final' = [final EXCEPT ![n] = tmp[n]] /\ UNCHANGED <<content, losses>>
        /\ NodeDone(w)
    BY <1>7, <2>1 DEF Rename
  <2>3. pc' = [pc EXCEPT ![w] = "check"] \/ pc' = [pc EXCEPT ![w] = "idle"]
    BY <2>2 DEF NodeDone
  <2>4. \A v \in Writers : pc'[v] \in {"check", "idle"}
    BY <1>1, <2>3 DEF OneWriter, CasTypeOK
  <2>5. \A v \in Writers : OwnFile(v)'
    BY <2>4 DEF OwnFile
  <2> HIDE DEF n
  <2>6. Present' = Present \cup {n}
    BY <1>1, <2>1, <2>2, RenamedPresent
  <2>7. losses' = 0 => Present' \subseteq Whole'
    <3> SUFFICES ASSUME losses' = 0, NEW m \in Present' PROVE m \in Whole'
      OBVIOUS
    <3>1. CASE m = n
      <4>1. final'[m] = tmp[n]
        BY <1>1, <2>1, <2>2, <3>1 DEF CasTypeOK
      <4>2. QED
        BY <2>1, <2>2, <4>1 DEF Whole
    <3>2. CASE m # n
      <4>1. m \in Present /\ m \in Nodes
        BY <2>6, <3>2 DEF Present
      <4>2. final'[m] = final[m] /\ content[final[m]] = "whole"
        BY <1>1, <2>2, <3>2, <4>1 DEF CasTypeOK, ObjectsInv, Whole
      <4>3. QED
        BY <2>2, <4>2 DEF Whole
    <3>3. QED
      BY <3>1, <3>2
  <2>8. QED
    BY <2>5, <2>7 DEF ObjectsInv
<1>8. ASSUME NEW w \in Writers, Crash(w) PROVE ObjectsInv'
  <2>1. UNCHANGED <<final, content, losses>> /\ pc' = [pc EXCEPT ![w] = "idle"]
    BY <1>8 DEF Crash, GiveUp
  <2>2. \A v \in Writers : pc'[v] = "idle"
    BY <1>1, <2>1 DEF OneWriter, CasTypeOK
  <2>3. \A v \in Writers : OwnFile(v)'
    BY <2>2 DEF OwnFile
  <2>4. QED
    BY <2>1, <2>3, ObjectsQuiet
<1>9. ASSUME PowerLoss PROVE ObjectsInv'
  <2>1. losses' # 0 /\ \A v \in Writers : pc'[v] = "idle"
    BY <1>1, <1>9 DEF PowerLoss, CasTypeOK
  <2>2. QED
    BY <2>1 DEF ObjectsInv, OwnFile
<1>10. CASE UNCHANGED casVars
  <2>1. UNCHANGED <<final, tmp, content, todo, pc, fd, losses>>
    BY <1>10 DEF casVars
  <2>2. Present' = Present
    BY <2>1, SameFinal
  <2>3. \A v \in Writers : OwnFile(v)'
    BY <2>1, <2>2 DEF ObjectsInv, OwnFile
  <2>4. QED
    BY <2>1, <2>3, ObjectsQuiet
<1>11. QED
  BY <1>2, <1>3, <1>4, <1>5, <1>6, <1>7, <1>8, <1>9, <1>10 DEF CasNext

-----------------------------------------------------------------------------
(* The writes of one writer. *)

\* A step in which the writer writes no node and goes on with what it has left, or
\* with all but a node that is present.
LEMMA NothingWritten ==
  ASSUME NEW w \in Writers, WroteWhatAppeared(w), pc[w] # "idle",
         Present' = Present, UNCHANGED <<wrote, fresh>>,
         Left(w)' \subseteq Left(w), Left(w) \subseteq Left(w)' \cup Present
  PROVE  WroteWhatAppeared(w)'
<1>1. Written(w)' = Written(w)
  BY DEF Written
<1>2. QED
  BY <1>1 DEF WroteWhatAppeared

\* A writer with one more node written.
LEMMA OneWritten ==
  ASSUME NEW w \in Writers, CasTypeOK, WroteWhatAppeared(w), pc[w] # "idle",
         NEW n \in Nodes, n \in Left(w), n \notin Present, Present' = Present \cup {n},
         wrote' = [wrote EXCEPT ![w] = Append(wrote[w], n)], UNCHANGED fresh,
         Left(w) = {n} \cup Left(w)'
  PROVE  WroteWhatAppeared(w)'
<1> DEFINE s == wrote[w]
           t == <<n>>
           u == Append(s, n)
<1>1. s \in Seq(Nodes)
  BY DEF CasTypeOK, NodeSeqs
<1>2. t \in Seq(Nodes) /\ Len(t) = 1 /\ u = s \o t /\ Elements(t) = {n}
  BY <1>1 DEF Elements
<1>3. wrote'[w] = u
  BY DEF CasTypeOK
<1> HIDE DEF u, s, t
<1>4. Len(u) = Len(s) + 1 /\ Elements(u) = Elements(s) \cup {n}
  BY <1>1, <1>2, Concatenated
<1>5. Written(w)' = Written(w) \cup {n} /\ Len(wrote'[w]) = Len(wrote[w]) + 1
  BY <1>3, <1>4 DEF Written, s
<1>6. /\ IsFiniteSet(Written(w)) /\ Cardinality(Written(w)) = Len(wrote[w])
      /\ Written(w) = fresh[w] \cap Present
      /\ fresh[w] \subseteq Left(w) \cup Written(w)
      /\ Left(w) \subseteq fresh[w] \cup Present
  BY DEF WroteWhatAppeared
<1>7. n \notin Written(w) /\ n \in fresh[w]
  BY <1>6
<1>8. IsFiniteSet(Written(w)') /\ Cardinality(Written(w)') = Cardinality(Written(w)) + 1
  <2> DEFINE before == Written(w)
             after == Written(w)'
  <2>1. IsFiniteSet(before) /\ n \notin before /\ after = before \cup {n}
    BY <1>5, <1>6, <1>7
  <2> HIDE DEF before, after
  <2>2. IsFiniteSet(after) /\ Cardinality(after) = Cardinality(before) + 1
    BY <2>1, FS_AddElement
  <2>3. QED
    BY <2>2 DEF before, after
<1>9. Written(w)' = fresh'[w] \cap Present'
  BY <1>5, <1>6, <1>7
<1>10. fresh'[w] \subseteq Left(w)' \cup Written(w)' /\ Left(w)' \subseteq fresh'[w] \cup Present'
  BY <1>5, <1>6
<1>11. QED
  BY <1>5, <1>6, <1>8, <1>9, <1>10 DEF WroteWhatAppeared

\* What is left after a node is done.
LEMMA NodeDoneLeft ==
  ASSUME CasTypeOK, NEW w \in Writers, Len(todo[w]) > 0, NodeDone(w)
  PROVE  Left(w) = {Head(todo[w])} \cup Left(w)'
<1>1. todo[w] \in Seq(Nodes) /\ todo'[w] = Tail(todo[w])
  BY DEF CasTypeOK, NodeSeqs, NodeDone
<1>2. Elements(todo[w]) = {Head(todo[w])} \cup Elements(Tail(todo[w]))
  BY <1>1, HeadTailElements
<1>3. QED
  BY <1>1, <1>2 DEF Left

LEMMA WritesInit == CasInit => \A w \in Writers : WroteWhatAppeared(w)
BY DEF CasInit, WroteWhatAppeared

LEMMA WritesStep ==
  ASSUME OneWriter, ContentIInv, ObjectsInv, \A w \in Writers : WroteWhatAppeared(w),
         [CasNext]_casVars
  PROVE  (\A w \in Writers : WroteWhatAppeared(w))'
<1>1. CasTypeOK
  BY DEF ContentIInv
<1>2. ASSUME NEW w \in Writers, NEW root \in Nodes, Ingest(w, root)
      PROVE  WroteWhatAppeared(w)'
  <2> DEFINE p == PostOrder[root]
  <2>1. Present' = Present
    BY <1>2, SameFinal DEF Ingest
  <2>2. /\ todo'[w] = p /\ wrote'[w] = <<>> /\ fresh'[w] = Subtrees(root) \ Present
    BY <1>1, <1>2 DEF Ingest, CasTypeOK
  <2>3. p \in Seq(Nodes)
    BY PostOrderEnds DEF NodeSeqs
  <2>4. Subtrees(root) = Elements(p)
    BY <2>3, SeqElements DEF Subtrees, Elements
  <2>5. Left(w)' = Subtrees(root)
    BY <2>2, <2>4 DEF Left
  <2>6. Written(w)' = {} /\ Len(wrote'[w]) = 0
    BY <2>2 DEF Written, Elements
  <2>7. IsFiniteSet({}) /\ Cardinality({}) = 0
    BY FS_EmptySet
  <2>8. QED
    BY <2>1, <2>2, <2>5, <2>6, <2>7 DEF WroteWhatAppeared
<1>3. ASSUME NEW w \in Writers, Skip(w) PROVE WroteWhatAppeared(w)'
  <2>1. pc[w] # "idle" /\ Len(todo[w]) > 0 /\ cache[w] \subseteq Present
    BY <1>3 DEF Skip, ContentIInv, WriterOK
  <2>2. NodeDone(w) /\ Head(todo[w]) \in Present /\ UNCHANGED <<final, wrote, fresh>>
    BY <1>3, <2>1 DEF Skip
  <2>3. Left(w) = {Head(todo[w])} \cup Left(w)'
    BY <1>1, <2>1, <2>2, NodeDoneLeft
  <2>4. QED
    BY <2>1, <2>2, <2>3, SameFinal, NothingWritten
<1>4. ASSUME NEW w \in Writers, Miss(w) \/ Open(w) PROVE WroteWhatAppeared(w)'
  <2>1. pc[w] # "idle" /\ UNCHANGED <<final, todo, wrote, fresh>>
    BY <1>4 DEF Miss, Open
  <2>2. Left(w)' = Left(w)
    BY <2>1 DEF Left
  <2>3. QED
    BY <2>1, <2>2, SameFinal, NothingWritten
<1>5. ASSUME NEW w \in Writers, Write(w) PROVE WroteWhatAppeared(w)'
  <2>1. pc[w] # "idle" /\ UNCHANGED <<final, wrote, fresh>>
    BY <1>5 DEF Write
  <2>2. CASE UNCHANGED todo
    <3>1. Left(w)' = Left(w)
      BY <2>2 DEF Left
    <3>2. QED
      BY <2>1, <3>1, SameFinal, NothingWritten
  <2>3. CASE GiveUp(w)
    BY <1>1, <2>3 DEF GiveUp, WroteWhatAppeared, CasTypeOK
  <2>4. QED
    BY <1>5, <2>2, <2>3 DEF Write
<1>6. ASSUME NEW w \in Writers, Rename(w) PROVE WroteWhatAppeared(w)'
  <2> DEFINE n == Head(todo[w])
  <2>1. /\ pc[w] = "written" /\ Len(todo[w]) > 0 /\ n \in Nodes
        /\ n \notin Present /\ fd[w] = tmp[n] /\ tmp[n] # Absent
    BY <1>1, <1>6, HeadNode DEF Rename, ContentIInv, WriterOK, ObjectsInv, OwnFile
  <2>2. /\ final' = [final EXCEPT ![n] = tmp[n]] /\ NodeDone(w)
        /\ wrote' = [wrote EXCEPT ![w] = Append(wrote[w], n)] /\ UNCHANGED fresh
    BY <1>6, <2>1 DEF Rename
  <2>3. Left(w) = {n} \cup Left(w)'
    BY <1>1, <2>1, <2>2, NodeDoneLeft
  <2> HIDE DEF n
  <2>4. Present' = Present \cup {n}
    BY <1>1, <2>1, <2>2, RenamedPresent
  <2>5. n \in Left(w)
    BY <2>3
  <2>6. QED
    BY <1>1, <2>1, <2>2, <2>3, <2>4, <2>5, OneWritten
<1>7. ASSUME NEW w \in Writers, Crash(w) \/ PowerLoss PROVE WroteWhatAppeared(w)'
  <2>1. pc'[w] = "idle"
    BY <1>1, <1>7 DEF Crash, GiveUp, PowerLoss, CasTypeOK
  <2>2. QED
    BY <2>1 DEF WroteWhatAppeared
<1>8. CASE UNCHANGED casVars
  <2>1. UNCHANGED <<final, todo, pc, wrote, fresh>>
    BY <1>8 DEF casVars
  <2>2. QED
    BY <2>1, SameFinal DEF WroteWhatAppeared, Left, Written
<1>9. ASSUME NEW w \in Writers PROVE WroteWhatAppeared(w)'
  <2>1. CASE CasNext
    BY <1>2, <1>3, <1>4, <1>5, <1>6, <1>7, <2>1 DEF CasNext, OneWriter
  <2>2. QED
    BY <1>8, <2>1
<1>10. QED
  BY <1>9

-----------------------------------------------------------------------------
(* The theorems about the store. *)

LEMMA ContentInvariant == CasSpec => []ContentIInv
<1>1. CasInit => ContentIInv
  BY ContentInitIInv
<1>2. ContentIInv /\ [CasNext]_casVars => ContentIInv'
  BY ContentStep
<1>3. QED
  BY <1>1, <1>2, PTL DEF CasSpec

\* What the store's files, caches and writers hold, whatever the number of writers.
THEOREM CasTypes == CasSpec => []CasTypeOK
<1>1. ContentIInv => CasTypeOK
  BY DEF ContentIInv
<1>2. QED
  BY <1>1, ContentInvariant, PTL

\* Only a power loss counts as one.
LEMMA LossesCounted ==
  ASSUME [CasNext]_casVars, ~PowerLoss
  PROVE  losses' = losses
BY DEF CasNext, Ingest, Skip, Miss, Open, Write, Rename, Crash, casVars

\* write_if_absent and ingest implement the abstract store: whatever the writers do,
\* through their crashes and failed writes, a node appears after its children, once, and
\* goes in a power loss only; which nodes the power loss takes is left open, and what is
\* ingested after it is again put in after what it refers to.
THEOREM CasImplementsContent == CasSpec => ContentSpec
<1>1. CasInit => Content!ContentInit
  BY ContentInitIInv DEF CasInit, Content!ContentInit
<1>2. ContentIInv /\ [CasNext]_casVars => [Content!ContentNext]_(Content!contentVars)
  <2> SUFFICES ASSUME ContentIInv, [CasNext]_casVars
               PROVE  [Content!ContentNext]_(Content!contentVars)
    OBVIOUS
  <2>1. CASE PowerLoss
    <3>1. Present' \subseteq Present /\ losses' = losses + 1
      BY <2>1, PowerLossTypes DEF ContentIInv, PowerLoss
    <3>2. QED
      BY <3>1 DEF Content!ContentNext, Content!Lose
  <2>2. CASE ~PowerLoss
    <3>1. OneAppears /\ losses' = losses
      BY <2>2, ContentStep, LossesCounted
    <3>2. QED
      BY <3>1 DEF OneAppears, Content!ContentNext, Content!contentVars, Content!Add,
                  Content!ChildrenOf, Kids, Nodes
  <2>3. QED
    BY <2>1, <2>2
<1>3. QED
  BY <1>1, <1>2, ContentInvariant, PTL DEF CasSpec, ContentSpec, Content!ContentSpec

\* The inductive invariant of a store with one writer.
OwnIInv ==
  ContentIInv /\ ObjectsInv /\ \A w \in Writers : WroteWhatAppeared(w)

LEMMA OwnInvariant ==
  ASSUME OneWriter
  PROVE  CasSpec => []OwnIInv
<1>1. CasInit => OwnIInv
  BY ContentInitIInv, ObjectsInit, WritesInit DEF OwnIInv
<1>2. OwnIInv /\ [CasNext]_casVars => OwnIInv'
  BY ContentStep, ObjectsStep, WritesStep DEF OwnIInv
<1>3. QED
  BY <1>1, <1>2, PTL DEF CasSpec

LEMMA ObjectsWholeFromInv == ObjectsInv => ObjectsWhole
BY DEF ObjectsInv, ObjectsWhole, Whole

LEMMA AckedFromInv == ContentIInv /\ ObjectsInv => AckedReconstruct
BY DEF ContentIInv, AckedPresent, ObjectsInv, AckedReconstruct, Reconstructs

LEMMA WritesFromInv ==
  ASSUME ContentIInv, \A w \in Writers : WroteWhatAppeared(w)
  PROVE  WritesAreTheNewSubtrees
<1> SUFFICES ASSUME NEW w \in Writers, pc[w] # "idle"
             PROVE  LET written == {wrote[w][i] : i \in DOMAIN wrote[w]}
                        left == {todo[w][i] : i \in DOMAIN todo[w]}
                    IN  /\ Cardinality(written) = Len(wrote[w])
                        /\ fresh[w] \ left \subseteq written
                        /\ written \subseteq fresh[w]
  BY DEF WritesAreTheNewSubtrees
<1>1. wrote[w] \in Seq(Nodes) /\ todo[w] \in Seq(Nodes)
  BY DEF ContentIInv, CasTypeOK, NodeSeqs
<1>2. /\ Written(w) = {wrote[w][i] : i \in DOMAIN wrote[w]}
      /\ Left(w) = {todo[w][i] : i \in DOMAIN todo[w]}
  BY <1>1, SeqElements DEF Written, Left, Elements
<1>3. QED
  BY <1>2 DEF WroteWhatAppeared

\* merkle.rs:70: with one process an object file never holds less than its object, until
\* the power is lost, through its crashes and failed writes.
THEOREM ObjectsWholeTheorem ==
  ASSUME OneWriter
  PROVE  CasSpec => []ObjectsWhole
<1>1. OwnIInv => ObjectsWhole
  BY ObjectsWholeFromInv DEF OwnIInv
<1>2. QED
  BY <1>1, OwnInvariant, PTL

\* With one process a hash that ingest returned can be reconstructed from then on, until
\* the power is lost.
THEOREM AckedReconstructTheorem ==
  ASSUME OneWriter
  PROVE  CasSpec => []AckedReconstruct
<1>1. OwnIInv => AckedReconstruct
  BY AckedFromInv DEF OwnIInv
<1>2. QED
  BY <1>1, OwnInvariant, PTL

\* With one process an ingest writes exactly the nodes of the body that were absent when
\* it began, each once.
THEOREM WritesAreTheNewSubtreesTheorem ==
  ASSUME OneWriter
  PROVE  CasSpec => []WritesAreTheNewSubtrees
<1>1. OwnIInv => WritesAreTheNewSubtrees
  BY WritesFromInv DEF OwnIInv
<1>2. QED
  BY <1>1, OwnInvariant, PTL

-----------------------------------------------------------------------------
(* The pointers. *)

\* Every step of the pointers is a step of the store, or leaves it: what is proved of
\* CasSpec holds of the store under the pointers.
LEMMA PointersStep ==
  [PointersNext]_<<casVars, pointerVars>> => [CasNext]_casVars
BY DEF PointersNext, StoreStep, PowerStep, CrashStep, EndSave, BeginSave, CasNext

THEOREM PointersImplementCas == PointersSpec => CasSpec
<1>1. PointersInit => CasInit
  BY DEF PointersInit
<1>2. QED
  BY <1>1, PointersStep, PTL DEF PointersSpec, CasSpec

\* The pointers to roots that were returned.
Saved == [root: acked, status: Statuses]

\* Until the power is lost: what a writer saves was returned to it; and where the last
\* save returned, the pointer file is what it saved.
PointersTypeOK ==
  /\ saving \in [Writers -> [place: Places, new: Saved] \cup {Idle}]
  /\ kept \in [Places -> Saved \cup {NoFile, Unsure}]
  /\ pointer \in [Places -> Saved \cup {NoFile, Torn}]
KeptAsSaved == \A p \in Places : kept[p] # Unsure => pointer[p] = kept[p]
PointersIInv == losses = 0 => PointersTypeOK /\ KeptAsSaved

LEMMA Markers ==
  /\ NoFile # Torn /\ NoFile # Unsure /\ Torn # Unsure
  /\ \A s \in Saved : s # NoFile /\ s # Torn /\ s # Unsure
  /\ \A s \in [place: Places, new: Saved] : s # Idle
  /\ \A r, s \in Saved : r = s <=> r.root = s.root /\ r.status = s.status
BY DEF NoFile, Torn, Unsure, Idle, Saved

\* A returned root stays returned, until the power is lost.
LEMMA AckedGrows ==
  ASSUME [CasNext]_casVars, ~PowerLoss
  PROVE  acked \subseteq acked'
BY DEF CasNext, Ingest, Skip, NodeDone, Miss, Open, Write, Rename, Crash, casVars

LEMMA PointersIInvStep ==
  ASSUME PointersIInv, losses \in Nat, [PointersNext]_<<casVars, pointerVars>>
  PROVE  PointersIInv'
<1> SUFFICES ASSUME losses' = 0 PROVE PointersIInv'
  BY DEF PointersIInv
<1>0. ~PowerLoss /\ losses = 0
  BY PointersStep, LossesCounted DEF PowerLoss
<1>1. Saved \subseteq Saved'
  BY <1>0, PointersStep, AckedGrows DEF Saved
<1>2. /\ saving \in [Writers -> [place: Places, new: Saved] \cup {Idle}]
      /\ kept \in [Places -> Saved \cup {NoFile, Unsure}]
      /\ pointer \in [Places -> Saved \cup {NoFile, Torn}]
      /\ KeptAsSaved
  BY <1>0 DEF PointersIInv, PointersTypeOK
<1> DEFINE S == Saved
           T == Saved'
           SavingOK == saving' \in [Writers -> [place: Places, new: T] \cup {Idle}]
           KeptOK == kept' \in [Places -> T \cup {NoFile, Unsure}]
           PointerOK == pointer' \in [Places -> T \cup {NoFile, Torn}]
<1>3. S \subseteq T /\ \A w \in Writers : saving[w] # Idle =>
        saving[w].place \in Places /\ saving[w].new \in S
  BY <1>1, <1>2
<1>4. SavingOK /\ KeptOK /\ PointerOK /\ KeptAsSaved' => PointersIInv'
  BY DEF PointersIInv, PointersTypeOK, Places
<1>5. /\ UNCHANGED saving => SavingOK
      /\ UNCHANGED kept => KeptOK
      /\ UNCHANGED pointer => PointerOK
  <2> HIDE DEF S, T
  <2>1. QED
    BY <1>2, <1>3 DEF S
<1>6. UNCHANGED <<pointer, kept>> => KeptAsSaved'
  BY <1>2 DEF KeptAsSaved, Places
<1> HIDE DEF SavingOK, KeptOK, PointerOK
<1>7. ASSUME NEW w \in Writers, NEW place \in Places, NEW status \in Statuses,
             BeginSave(w, place, status)
      PROVE  PointersIInv'
  <2>1. PICK root \in acked :
          /\ saving' = [saving EXCEPT ![w] = [place |-> place, new |-> Pointer(root, status)]]
          /\ pointer' = [pointer EXCEPT ![place] = Torn]
          /\ kept' = [kept EXCEPT ![place] = Unsure] /\ UNCHANGED casVars
    BY <1>7 DEF BeginSave
  <2>2. Pointer(root, status) \in S
    BY DEF Pointer, Saved
  <2> HIDE DEF S, T
  <2>3. SavingOK
    BY <1>2, <1>3, <2>1, <2>2 DEF SavingOK, S
  <2>4. KeptOK /\ PointerOK
    BY <1>2, <1>3, <2>1 DEF KeptOK, PointerOK, S
  <2>5. KeptAsSaved'
    <3> SUFFICES ASSUME NEW p \in Places, kept'[p] # Unsure
                 PROVE  pointer'[p] = kept'[p]
      BY DEF KeptAsSaved, Places
    <3>1. p # place
      BY <1>2, <2>1
    <3>2. kept'[p] = kept[p] /\ pointer'[p] = pointer[p]
      BY <1>2, <2>1, <3>1 DEF casVars
    <3>3. QED
      BY <1>2, <3>2 DEF KeptAsSaved
  <2>6. QED
    BY <1>4, <2>3, <2>4, <2>5
<1>8. ASSUME NEW w \in Writers, EndSave(w) PROVE PointersIInv'
  <2> DEFINE s == saving[w]
  <2>1. saving' = [saving EXCEPT ![w] = Idle] /\ UNCHANGED casVars /\ s # Idle
    BY <1>8 DEF EndSave
  <2>2. SavingOK
    <3> HIDE DEF S, T
    <3>1. QED
      BY <1>2, <1>3, <2>1 DEF SavingOK, S
  <2>3. CASE UNCHANGED <<pointer, kept>>
    BY <1>4, <1>5, <1>6, <2>1, <2>2, <2>3 DEF casVars
  <2>4. CASE /\ pointer' = [pointer EXCEPT ![s.place] = s.new]
             /\ kept' = [kept EXCEPT ![s.place] = s.new]
    <3>1. s.place \in Places /\ s.new \in S
      BY <1>3, <2>1
    <3> HIDE DEF S, T, s
    <3>2. KeptOK /\ PointerOK
      BY <1>2, <1>3, <2>4, <3>1 DEF KeptOK, PointerOK, S
    <3>3. KeptAsSaved'
      <4> SUFFICES ASSUME NEW p \in Places, kept'[p] # Unsure
                   PROVE  pointer'[p] = kept'[p]
        BY DEF KeptAsSaved, Places
      <4>1. CASE p = s.place
        BY <1>2, <2>4, <4>1
      <4>2. CASE p # s.place
        <5>1. kept'[p] = kept[p] /\ pointer'[p] = pointer[p]
          BY <1>2, <2>1, <2>4, <4>2 DEF casVars
        <5>2. QED
          BY <1>2, <5>1 DEF KeptAsSaved
      <4>3. QED
        BY <4>1, <4>2
    <3>4. QED
      BY <1>4, <2>2, <3>2, <3>3
  <2>5. QED
    BY <1>8, <2>3, <2>4 DEF EndSave
<1>9. ASSUME StoreStep PROVE PointersIInv'
  <2>1. UNCHANGED <<pointer, saving, kept>>
    BY <1>9 DEF StoreStep, pointerVars
  <2>2. QED
    BY <1>4, <1>5, <1>6, <2>1
<1>10. ASSUME NEW w \in Writers, CrashStep(w) PROVE PointersIInv'
  <2>1. saving' = [saving EXCEPT ![w] = Idle] /\ UNCHANGED <<pointer, kept>>
    BY <1>10 DEF CrashStep
  <2>2. SavingOK
    <3> HIDE DEF S, T
    <3>1. QED
      BY <1>2, <1>3, <2>1 DEF SavingOK, S
  <2>3. QED
    BY <1>4, <1>5, <1>6, <2>1, <2>2
<1>11. CASE UNCHANGED <<casVars, pointerVars>>
  BY <1>4, <1>5, <1>6, <1>11 DEF casVars, pointerVars
<1>12. QED
  BY <1>0, <1>7, <1>8, <1>9, <1>10, <1>11 DEF PointersNext, PowerStep

\* What the verdict is to tell of two saved pointers.
Differs(e, r, s) == r.status # s.status \/ <<e, r.root, s.root>> \notin Agree

\* With the store's invariant, branches that were saved compare as they were saved.
LEMMA VerdictFromInv ==
  ASSUME PointersIInv, AckedReconstruct
  PROVE  BranchVerdict
<1> SUFFICES ASSUME losses = 0, NEW base \in Branches, NEW cand \in Branches,
                    \A e \in Endpoints : Unsure \notin {kept[base, e], kept[cand, e]}
             PROVE  TestBranches(base, cand) =
                      {e \in Endpoints : /\ NoFile \notin {kept[base, e], kept[cand, e]}
                                         /\ Differs(e, kept[base, e], kept[cand, e])}
  BY DEF BranchVerdict, Differs
<1>1. ASSUME NEW b \in {base, cand}, NEW e \in Endpoints
      PROVE  pointer[b, e] = kept[b, e] /\ kept[b, e] \in Saved \cup {NoFile}
  <2>1. <<b, e>> \in Places
    BY DEF Places
  <2>2. QED
    BY <2>1 DEF PointersIInv, PointersTypeOK, KeptAsSaved
<1> DEFINE compared == {e \in Endpoints : pointer[base, e] # NoFile /\ pointer[cand, e] # NoFile}
           Intact(p) == p # Torn /\ Reconstructs(p.root)
<1>2. \A s \in Saved : Intact(s)
  BY Markers DEF Saved, AckedReconstruct
<1>3. \A e \in compared : pointer[base, e] \in Saved /\ pointer[cand, e] \in Saved
  BY <1>1
<1>4. \A e \in compared : Intact(pointer[base, e]) /\ Intact(pointer[cand, e])
  BY <1>2, <1>3
<1>5. TestBranches(base, cand) = {e \in compared : ~Passed(e, pointer[base, e], pointer[cand, e])}
  BY <1>4 DEF TestBranches
<1>6. \A e \in compared : ~Passed(e, pointer[base, e], pointer[cand, e])
                            <=> Differs(e, kept[base, e], kept[cand, e])
  BY <1>1 DEF Passed, Differs
<1>7. \A e \in Endpoints : e \in compared <=> NoFile \notin {kept[base, e], kept[cand, e]}
  BY <1>1
<1>8. QED
  BY <1>5, <1>6, <1>7

\* pointer.rs:72: with one process, branches whose pointers were saved compare without
\* an error, and exactly the endpoints fail that were saved on both with another status or
\* with bodies in which the comparison finds a difference, whatever the process is doing
\* and after its crashes, until the power is lost.
THEOREM BranchVerdictTheorem ==
  ASSUME OneWriter
  PROVE  PointersSpec => []BranchVerdict
<1>1. PointersInit => OwnIInv /\ PointersIInv
  <2> SUFFICES ASSUME PointersInit PROVE OwnIInv /\ PointersIInv
    OBVIOUS
  <2>1. OwnIInv
    BY ContentInitIInv, ObjectsInit, WritesInit DEF PointersInit, OwnIInv
  <2>2. PointersIInv
    BY DEF PointersInit, PointersIInv, PointersTypeOK, KeptAsSaved
  <2>3. QED
    BY <2>1, <2>2
<1>2. OwnIInv /\ PointersIInv /\ [PointersNext]_<<casVars, pointerVars>>
        => (OwnIInv /\ PointersIInv)'
  <2> SUFFICES ASSUME OwnIInv, PointersIInv, [PointersNext]_<<casVars, pointerVars>>
               PROVE  (OwnIInv /\ PointersIInv)'
    OBVIOUS
  <2>1. OwnIInv'
    BY PointersStep, ContentStep, ObjectsStep, WritesStep DEF OwnIInv
  <2>2. losses \in Nat
    BY DEF OwnIInv, ContentIInv, CasTypeOK
  <2>3. PointersIInv'
    BY <2>2, PointersIInvStep
  <2>4. QED
    BY <2>1, <2>3
<1>3. OwnIInv /\ PointersIInv => BranchVerdict
  BY AckedFromInv, VerdictFromInv DEF OwnIInv
<1>4. QED
  BY <1>1, <1>2, <1>3, PTL DEF PointersSpec

-----------------------------------------------------------------------------
(* The timeline. *)

Files == Seq(Seq(Int))
LastLine == lines[Len(lines)]
Above == ReadIn(lines)[Len(lines) - 1]
Newest(s) == IF s = <<>> THEN NoCommit ELSE s[1]

\* What Last contributes, before what is read above it.
With(line, above) == IF IsCommit(line) THEN <<line[1]>> \o above ELSE above

Known == 1..Len(made)
Appending == \E p \in Recorders : stage[p] = "text"

TimelineTypeOK ==
  /\ lines \in Files /\ Len(lines) > 0
  /\ made \in Seq([parent : Nat, root : Roots, compared : BOOLEAN, changed : BOOLEAN])
  /\ acknowledged \in Seq(Known)
  /\ stage \in [Recorders -> {"idle", "read", "text"}]
  /\ parent \in [Recorders -> {NoCommit} \cup Known]
  /\ building \in [Recorders -> {NoCommit} \cup Known]
  /\ broken \in BOOLEAN
  /\ cuts \in Nat
  /\ Above \in Seq(Known)
  /\ LastLine \in Seq(Known \cup {Fragment})

\* A commit's parent is older, and its delta is against that parent.
DeltaOfParent ==
  \A c \in Known :
    /\ made[c].parent < c
    /\ made[c].changed <=>
         /\ made[c].compared /\ made[c].parent # NoCommit
         /\ made[made[c].parent].root # made[c].root

OneAtWork == \A p, q \in Working : p = q

\* Who has read the parent knows the newest commit, and who has appended the text
\* of a commit finds it at the end of the last line.
RecorderKnows ==
  \A p \in Recorders :
    /\ stage[p] = "read" => parent[p] = Newest(Standing)
    /\ stage[p] = "text" => /\ LastLine # <<>>
                         /\ LastLine[Len(LastLine)] = building[p]

\* The chain goes on above the last line.
ChainOf(s) ==
  \A i \in 1..Len(s) : made[s[i]].parent = IF i < Len(s) THEN s[i + 1] ELSE NoCommit
ChainHolds ==
  ChainOf(Above) /\ (IsCommit(LastLine) => made[LastLine[1]].parent = Newest(Above))

\* Without a cut, the file is text, what is above are the acknowledged commits, and the last line
\* is empty or the commit that is being appended.
NothingLost ==
  cuts = 0 => /\ ~broken
              /\ Above = Reverse(acknowledged)
              /\ Appending <=> LastLine # <<>>
              /\ Len(LastLine) <= 1

\* A line on which a later commit will be lost, or is being lost.
Spoiled == IF Appending THEN Len(LastLine) > 1 ELSE LastLine # <<>>
Losses ==
  Cardinality(ToSet(acknowledged) \ ToSet(Above)) + (IF Spoiled THEN 1 ELSE 0) <= cuts

TimelineIInv ==
  /\ TimelineTypeOK /\ DeltaOfParent /\ OneAtWork /\ RecorderKnows
  /\ ChainHolds /\ NothingLost /\ Losses

-----------------------------------------------------------------------------
\* What get_timeline reads of n lines is what it reads of one line less, with that
\* line's commit in front if it holds one.
LEMMA ReadInSteps ==
  ASSUME NEW file \in Seq(Seq(Int))
  PROVE  /\ ReadIn(file)[0] = <<>>
         /\ \A n \in 1..Len(file) :
              ReadIn(file)[n] = IF IsCommit(file[n]) THEN <<file[n][1]>> \o ReadIn(file)[n - 1]
                                                     ELSE ReadIn(file)[n - 1]
         /\ \A n \in 0..Len(file) : ReadIn(file)[n] \in Seq(Int)
<1> DEFINE V == Seq(Int)
           More(k, s) == IF k < Len(file) /\ IsCommit(file[k + 1]) THEN <<file[k + 1][1]>> \o s ELSE s
           step == [q \in Nat \X V |-> More(q[1], q[2])]
           upTo(f) == [n \in 0..Len(file) |->
                         IF n = 0 THEN <<>>
                         ELSE IF IsCommit(file[n]) THEN <<file[n][1]>> \o f[n - 1]
                         ELSE f[n - 1]]
<1>1. step \in [Nat \X V -> V]
  <2>1. ASSUME NEW k \in Nat, NEW s \in V PROVE More(k, s) \in V
    <3>1. CASE k < Len(file) /\ IsCommit(file[k + 1])
      <4>1. file[k + 1] \in Seq(Int) /\ Len(file[k + 1]) = 1
        BY <3>1 DEF IsCommit
      <4>2. file[k + 1][1] \in Int
        BY <4>1
      <4>3. QED
        BY <3>1, <4>2
    <3>2. CASE ~(k < Len(file) /\ IsCommit(file[k + 1]))
      BY <3>2
    <3>3. QED
      BY <3>1, <3>2
  <2> HIDE DEF V, More
  <2>2. QED
    BY <2>1
<1> DEFINE first == <<>>
<1>2. first \in V
  OBVIOUS
<1>3. PICK h \in [0..Len(file) -> V] :
        h[0] = first /\ \A n \in 1..Len(file) : h[n] = step[<<n - 1, h[n - 1]>>]
  <2>1. StepsIn(V, first, step)
    BY <1>1, <1>2 DEF StepsIn
  <2>2. Len(file) \in Nat
    OBVIOUS
  <2> HIDE DEF V, step, first
  <2>3. \E h \in [0..Len(file) -> V] : DefinesUpTo(h, Len(file), first, step)
    BY <2>1, <2>2, RecursiveUpTo
  <2>4. QED
    BY <2>3 DEF DefinesUpTo
<1>4. h = upTo(h)
  <2>1. ASSUME NEW n \in 1..Len(file)
        PROVE  h[n] = IF IsCommit(file[n]) THEN <<file[n][1]>> \o h[n - 1] ELSE h[n - 1]
    <3>1. n - 1 \in Nat /\ n - 1 \in 0..Len(file) /\ (n - 1) + 1 = n /\ n - 1 < Len(file)
      OBVIOUS
    <3>2. h[n - 1] \in V
      <4> HIDE DEF V
      <4>1. QED
        BY <3>1
    <3>3. step[<<n - 1, h[n - 1]>>] = More(n - 1, h[n - 1])
      <4> HIDE DEF V, More
      <4>1. QED
        BY <3>1, <3>2
    <3>4. h[n] = More(n - 1, h[n - 1])
      <4> HIDE DEF V, More, step
      <4>1. QED
        BY <1>3, <3>3
    <3>5. QED
      BY <3>1, <3>4
  <2> DEFINE Value(n) == IF n = 0 THEN <<>>
                         ELSE IF IsCommit(file[n]) THEN <<file[n][1]>> \o h[n - 1]
                         ELSE h[n - 1]
  <2>2. \A n \in 0..Len(file) : h[n] = Value(n)
    <3> SUFFICES ASSUME NEW n \in 0..Len(file) PROVE h[n] = Value(n)
      OBVIOUS
    <3>1. CASE n = 0
      BY <1>3, <3>1
    <3>2. CASE n # 0
      <4>1. n \in 1..Len(file)
        BY <3>2
      <4>2. QED
        BY <2>1, <3>2, <4>1
    <3>3. QED
      BY <3>1, <3>2
  <2> HIDE DEF Value, V
  <2>3. h = [n \in 0..Len(file) |-> Value(n)]
    BY <2>2
  <2>4. QED
    BY <2>3 DEF Value
<1>5. ReadIn(file) = upTo(ReadIn(file))
  <2>1. ReadIn(file) = CHOOSE f : f = upTo(f)
    BY DEF ReadIn
  <2>2. QED
    BY <1>4, <2>1
<1> DEFINE R == ReadIn(file)
<1> HIDE DEF R
<1>6. R[0] = <<>> /\ \A n \in 1..Len(file) : R[n] = IF IsCommit(file[n])
                                                THEN <<file[n][1]>> \o R[n - 1]
                                                ELSE R[n - 1]
  <2> DEFINE Value(n) == IF n = 0 THEN <<>>
                         ELSE IF IsCommit(file[n]) THEN <<file[n][1]>> \o R[n - 1]
                         ELSE R[n - 1]
  <2>1. R = [n \in 0..Len(file) |-> Value(n)]
    BY <1>5 DEF R
  <2> HIDE DEF Value
  <2>2. \A n \in 0..Len(file) : R[n] = Value(n)
    BY <2>1
  <2>3. 0 \in 0..Len(file) /\ \A n \in 1..Len(file) : n \in 0..Len(file) /\ n # 0
    OBVIOUS
  <2>4. QED
    BY <2>2, <2>3 DEF Value
<1> DEFINE T == {k \in Nat : k <= Len(file) => R[k] \in V}
<1>7. 0 \in T
  <2>1. R[0] \in V
    BY <1>2, <1>6
  <2> HIDE DEF V
  <2>2. QED
    BY <2>1
<1>8. ASSUME NEW k \in Nat, k \in T PROVE k + 1 \in T
  <2> SUFFICES ASSUME k + 1 <= Len(file) PROVE R[k + 1] \in V
    OBVIOUS
  <2>1. R[k] \in V /\ k + 1 \in 1..Len(file) /\ (k + 1) - 1 = k /\ k < Len(file)
    BY <1>8
  <2>2. More(k, R[k]) \in V
    <3>1. step[<<k, R[k]>>] \in V
      <4> HIDE DEF V, step
      <4>1. QED
        BY <1>1, <2>1
    <3>2. step[<<k, R[k]>>] = More(k, R[k])
      <4> HIDE DEF V, More
      <4>1. QED
        BY <2>1
    <3>3. QED
      BY <3>1, <3>2
  <2>3. R[k + 1] = More(k, R[k])
    BY <1>6, <2>1
  <2>4. QED
    BY <2>2, <2>3
<1>9. Nat \subseteq T
  <2> HIDE DEF T
  <2>1. QED
    BY <1>7, <1>8, SetInduction
<1>10. QED
  BY <1>6, <1>9 DEF R

\* What is read of the first n lines depends on these lines only.
LEMMA ReadInPrefix ==
  ASSUME NEW file \in Files, NEW other \in Files, NEW n \in Nat,
         n <= Len(file), n <= Len(other), \A i \in 1..n : file[i] = other[i]
  PROVE  ReadIn(file)[n] = ReadIn(other)[n]
<1> DEFINE F == ReadIn(file)
           G == ReadIn(other)
           T == {k \in Nat : k <= n => F[k] = G[k]}
<1>1. F[0] = <<>> /\ \A k \in 1..Len(file) : F[k] = With(file[k], F[k - 1])
  BY ReadInSteps DEF Files, With
<1>2. G[0] = <<>> /\ \A k \in 1..Len(other) : G[k] = With(other[k], G[k - 1])
  BY ReadInSteps DEF Files, With
<1> HIDE DEF F, G
<1>3. 0 \in T
  BY <1>1, <1>2
<1>4. ASSUME NEW k \in Nat, k \in T PROVE k + 1 \in T
  <2> SUFFICES ASSUME k + 1 <= n PROVE F[k + 1] = G[k + 1]
    OBVIOUS
  <2>1. /\ k + 1 \in 1..n /\ k + 1 \in 1..Len(file) /\ k + 1 \in 1..Len(other)
        /\ (k + 1) - 1 = k /\ F[k] = G[k]
    <3>1. Len(file) \in Nat /\ Len(other) \in Nat
      BY DEF Files
    <3>2. QED
      BY <1>4, <3>1
  <2>2. F[k + 1] = With(file[k + 1], F[k]) /\ G[k + 1] = With(other[k + 1], G[k])
    BY <1>1, <1>2, <2>1
  <2>3. QED
    BY <2>1, <2>2
<1>5. Nat \subseteq T
  <2> HIDE DEF T
  <2>1. QED
    BY <1>3, <1>4, SetInduction
<1>6. QED
  BY <1>5 DEF F, G

\* All that can be read: the last line, before what is above it.
LEMMA StandingIsWith ==
  ASSUME NEW file \in Files, Len(file) > 0
  PROVE  ReadIn(file)[Len(file)] = With(file[Len(file)], ReadIn(file)[Len(file) - 1])
<1>1. Len(file) \in 1..Len(file)
  BY DEF Files
<1>2. QED
  BY <1>1, ReadInSteps DEF Files, With

\* More text on the last line leaves what is above as it was.
LastLineLonger(file, c, new) == new = [file EXCEPT ![Len(file)] = Append(@, c)]

LEMMA TextOnLastLine ==
  ASSUME NEW file \in Files, Len(file) > 0, NEW c \in Int, NEW new,
         LastLineLonger(file, c, new)
  PROVE  /\ new \in Files /\ Len(new) = Len(file)
         /\ new[Len(new)] = Append(file[Len(file)], c)
         /\ ReadIn(new)[Len(new) - 1] = ReadIn(file)[Len(file) - 1]
<1> USE DEF LastLineLonger
<1>1. file[Len(file)] \in Seq(Int)
  BY DEF Files
<1>2. Append(file[Len(file)], c) \in Seq(Int)
  BY <1>1
<1> DEFINE line == Append(file[Len(file)], c)
<1> HIDE DEF line
<1>3. new = [file EXCEPT ![Len(file)] = line] /\ line \in Seq(Int)
  BY <1>2 DEF line
<1>4. new \in Files /\ Len(new) = Len(file) /\ new[Len(new)] = line
  BY <1>3 DEF Files
<1>5. /\ Len(file) - 1 \in Nat /\ Len(file) - 1 <= Len(file)
      /\ \A i \in 1..(Len(file) - 1) : new[i] = file[i]
  BY <1>3 DEF Files
<1>6. ReadIn(new)[Len(file) - 1] = ReadIn(file)[Len(file) - 1]
  BY <1>4, <1>5, ReadInPrefix
<1>7. QED
  BY <1>4, <1>6 DEF line

\* After a newline, what is above is all that could be read before.
LEMMA NewlineAfterLast ==
  ASSUME NEW file \in Files, Len(file) > 0, NEW new, new = Append(file, <<>>)
  PROVE  /\ new \in Files /\ Len(new) = Len(file) + 1 /\ new[Len(new)] = <<>>
         /\ ReadIn(new)[Len(new) - 1] = ReadIn(file)[Len(file)]
<1>1. <<>> \in Seq(Int)
  OBVIOUS
<1>2. new \in Files /\ Len(new) = Len(file) + 1 /\ new[Len(new)] = <<>>
  BY <1>1 DEF Files
<1>3. /\ Len(file) \in Nat /\ Len(file) <= Len(new)
      /\ \A i \in 1..Len(file) : new[i] = file[i]
  BY <1>2 DEF Files
<1>4. ReadIn(new)[Len(file)] = ReadIn(file)[Len(file)]
  <2> DEFINE n == Len(file)
  <2>1. /\ new \in Files /\ n \in Nat /\ n <= Len(new) /\ n <= Len(file)
        /\ \A i \in 1..n : new[i] = file[i]
    BY <1>2, <1>3
  <2> HIDE DEF n
  <2>2. ReadIn(new)[n] = ReadIn(file)[n]
    BY <2>1, ReadInPrefix
  <2>3. QED
    BY <2>2 DEF n
<1>5. QED
  BY <1>2, <1>3, <1>4

LEMMA KnownNumbers ==
  ASSUME TimelineTypeOK
  PROVE  /\ Len(made) \in Nat
         /\ \A c \in Known : c \in Nat /\ c # Fragment /\ c # NoCommit
         /\ \A c \in Known : made[c] \in [parent : Nat, root : Roots, compared : BOOLEAN, changed : BOOLEAN]
         /\ NoCommit = 0 /\ Fragment = -1
<1>1. made \in Seq([parent : Nat, root : Roots, compared : BOOLEAN, changed : BOOLEAN])
  BY DEF TimelineTypeOK
<1>2. Len(made) \in Nat /\ \A c \in 1..Len(made) : made[c] \in [parent : Nat, root : Roots, compared : BOOLEAN, changed : BOOLEAN]
  BY <1>1, SeqElements
<1>3. NoCommit = 0 /\ Fragment = -1
  BY DEF NoCommit, Fragment
<1>4. QED
  BY <1>2, <1>3 DEF Known

\* What can be read are commits.
LEMMA StandingNow ==
  ASSUME TimelineTypeOK
  PROVE  Standing = With(LastLine, Above) /\ Standing \in Seq(Known)
<1>1. Standing = With(LastLine, Above)
  BY StandingIsWith DEF TimelineTypeOK, Standing, LastLine, Above
<1>2. LastLine \in Seq(Known \cup {Fragment}) /\ Above \in Seq(Known)
  BY DEF TimelineTypeOK
<1>3. CASE IsCommit(LastLine)
  <2> DEFINE S == Known \cup {Fragment}
  <2> HIDE DEF S
  <2>1. LastLine \in Seq(S) /\ Len(LastLine) = 1 /\ LastLine[1] # Fragment
    BY <1>2, <1>3 DEF IsCommit, S
  <2>2. LastLine[1] \in S
    <3>1. 1 \in 1..Len(LastLine)
      BY <2>1
    <3>2. QED
      BY <2>1, <3>1, SeqElements
  <2> USE DEF S
  <2>3. LastLine[1] \in Known
    BY <2>1, <2>2
  <2>4. <<LastLine[1]>> \in Seq(Known)
    BY <2>3
  <2>5. <<LastLine[1]>> \o Above \in Seq(Known)
    BY <1>2, <2>4
  <2>6. QED
    BY <1>1, <1>3, <2>5 DEF With
<1>4. CASE ~IsCommit(LastLine)
  BY <1>1, <1>2, <1>4 DEF With
<1>5. QED
  BY <1>1, <1>3, <1>4

LEMMA NewestType ==
  ASSUME NEW S, NEW s \in Seq(S)
  PROVE  /\ s = <<>> => Newest(s) = NoCommit
         /\ s # <<>> => Newest(s) = s[1] /\ s[1] \in S
         /\ Newest(s) \in {NoCommit} \cup S
BY DEF Newest

\* get_timeline(1) has the newest commit, if there is one.
LEMMA NewestRead ==
  ASSUME TimelineTypeOK, ~broken
  PROVE  (IF GetTimeline(1) = <<>> THEN NoCommit ELSE GetTimeline(1)[1]) = Newest(Standing)
<1>1. Standing \in Seq(Known) /\ Readable = Standing
  BY StandingNow DEF Readable
<1>2. CASE Standing = <<>>
  <2>1. Len(Standing) = 0
    BY <1>2
  <2>2. GetTimeline(1) = SubSeq(Standing, 1, 0)
    BY <1>1, <2>1 DEF GetTimeline
  <2>3. GetTimeline(1) = <<>>
    BY <1>1, <2>2
  <2>4. QED
    BY <1>2, <2>3 DEF Newest
<1>3. CASE Standing # <<>>
  <2>1. Len(Standing) \in Nat /\ Len(Standing) >= 1
    BY <1>1, <1>3
  <2>2. GetTimeline(1) = SubSeq(Standing, 1, 1)
    <3> DEFINE n == Len(Standing)
    <3>0. n \in Nat /\ n >= 1
      BY <2>1
    <3> HIDE DEF n
    <3>1. (IF 1 < n THEN 1 ELSE n) = 1
      BY <3>0
    <3>2. QED
      BY <1>1, <3>1 DEF GetTimeline, n
  <2>3. Len(GetTimeline(1)) = 1 /\ GetTimeline(1)[1] = Standing[1]
    BY <1>1, <2>1, <2>2
  <2>4. GetTimeline(1) # <<>>
    BY <2>3
  <2>5. QED
    BY <1>3, <2>3, <2>4 DEF Newest
<1>4. QED
  BY <1>2, <1>3

\* With at most one recorder, one begins when none is at work.
LEMMA NoneAtWork ==
  ASSUME TimelineTypeOK, MaxRecorders <= 1, Cardinality(Working) < MaxRecorders
  PROVE  Working = {}
<1>1. IsFiniteSet(Working)
  BY TimelineAssumption, FS_Subset DEF Working
<1>2. Cardinality(Working) \in Nat
  BY <1>1, FS_CardinalityType
<1>3. Cardinality(Working) = 0
  BY <1>2, TimelineAssumption
<1>4. QED
  BY <1>1, <1>3, FS_EmptySet

\* The recorder that is at work is alone.
LEMMA OthersIdle ==
  ASSUME TimelineIInv, NEW p \in Recorders, stage[p] # "idle"
  PROVE  \A q \in Recorders : q # p => stage[q] = "idle"
BY DEF TimelineIInv, OneAtWork, Working

\* The chain of what stands whole on a line, from the chain above the last line.
LEMMA ChainOfStanding ==
  ASSUME TimelineTypeOK, ChainHolds
  PROVE  ChainOf(Standing)
<1>1. Standing = With(LastLine, Above) /\ Above \in Seq(Known)
  BY StandingNow DEF TimelineTypeOK
<1>2. CASE ~IsCommit(LastLine)
  BY <1>1, <1>2 DEF ChainHolds, With
<1>3. CASE IsCommit(LastLine)
  <2> DEFINE c == LastLine[1]
             a == Above
             s == <<c>> \o a
  <2>1. Standing = s /\ a \in Seq(Known) /\ ChainOf(a) /\ made[c].parent = Newest(a)
    BY <1>1, <1>3 DEF With, ChainHolds
  <2> HIDE DEF a, c
  <2>2. /\ Len(a) \in Nat /\ Len(s) = Len(a) + 1
        /\ s[1] = c /\ \A i \in 1..Len(a) : s[i + 1] = a[i]
    BY <2>1
  <2>3. Newest(a) = IF 1 < Len(s) THEN s[2] ELSE NoCommit
    <3>1. CASE a = <<>>
      <4>1. Len(s) = 1
        BY <2>2, <3>1
      <4>2. QED
        BY <3>1, <4>1 DEF Newest
    <3>2. CASE a # <<>>
      <4>1. 1 \in 1..Len(a)
        BY <2>1, <3>2
      <4>2. s[2] = a[1] /\ 1 < Len(s)
        BY <2>2, <4>1
      <4>3. QED
        BY <3>2, <4>2 DEF Newest
    <3>3. QED
      BY <3>1, <3>2
  <2> HIDE DEF s
  <2>4. ASSUME NEW i \in 1..Len(s)
        PROVE  made[s[i]].parent = IF i < Len(s) THEN s[i + 1] ELSE NoCommit
    <3>1. CASE i = 1
      BY <2>1, <2>2, <2>3, <3>1
    <3>2. CASE i # 1
      <4>1. i - 1 \in 1..Len(a) /\ (i - 1) + 1 = i
        BY <2>2, <3>2
      <4>2. made[a[i - 1]].parent = IF i - 1 < Len(a) THEN a[(i - 1) + 1] ELSE NoCommit
        BY <2>1, <4>1 DEF ChainOf
      <4>3. s[i] = a[i - 1]
        BY <2>2, <4>1
      <4>4. CASE i < Len(s)
        <5>1. i \in 1..Len(a) /\ i - 1 < Len(a)
          BY <2>2, <4>4
        <5>2. s[i + 1] = a[i]
          BY <2>2, <5>1
        <5>3. QED
          BY <4>1, <4>2, <4>3, <4>4, <5>1, <5>2
      <4>5. CASE ~(i < Len(s))
        BY <2>2, <4>2, <4>3, <4>5
      <4>6. QED
        BY <4>4, <4>5
    <3>3. QED
      BY <3>1, <3>2
  <2>5. QED
    BY <2>1, <2>4 DEF ChainOf
<1>4. QED
  BY <1>2, <1>3

LEMMA OneElement ==
  ASSUME NEW S, NEW s \in Seq(S), Len(s) = 1
  PROVE  s = <<s[1]>>
OBVIOUS

\* An element put in front joins the elements, and none is lost.
LEMMA PutInFront ==
  ASSUME NEW S, NEW s \in Seq(S), NEW x, NEW t, t = <<x>> \o s
  PROVE  ToSet(s) \subseteq ToSet(t) /\ x \in ToSet(t)
<1>1. /\ Len(s) \in Nat /\ Len(t) = Len(s) + 1 /\ t[1] = x
      /\ \A i \in 1..Len(s) : t[i + 1] = s[i]
      /\ DOMAIN s = 1..Len(s) /\ DOMAIN t = 1..(Len(s) + 1)
  OBVIOUS
<1>2. 1 \in DOMAIN t /\ \A i \in DOMAIN s : i + 1 \in DOMAIN t /\ t[i + 1] = s[i]
  BY <1>1
<1>3. ToSet(s) = {s[i] : i \in DOMAIN s} /\ ToSet(t) = {t[i] : i \in DOMAIN t}
  BY DEF ToSet
<1> HIDE DEF ToSet
<1>4. x \in ToSet(t)
  BY <1>1, <1>2, <1>3, Zenon
<1>5. ToSet(s) \subseteq ToSet(t)
  BY <1>2, <1>3, Zenon
<1>6. QED
  BY <1>4, <1>5

LEMMA WiderSeq ==
  ASSUME NEW S, NEW T, S \subseteq T, NEW s \in Seq(S)
  PROVE  s \in Seq(T)
OBVIOUS

\* What was acknowledged is finite, and so is any part of it.
LEMMA AckedFinite ==
  ASSUME TimelineTypeOK
  PROVE  /\ IsFiniteSet(ToSet(acknowledged)) /\ ToSet(acknowledged) \subseteq Known
         /\ \A S : Cardinality(ToSet(acknowledged) \ S) \in Nat /\ IsFiniteSet(ToSet(acknowledged) \ S)
<1>1. ToSet(acknowledged) \subseteq Known
  BY SeqElements DEF TimelineTypeOK, ToSet
<1>2. IsFiniteSet(Known)
  BY KnownNumbers, FS_Interval DEF Known
<1>3. IsFiniteSet(ToSet(acknowledged))
  BY <1>1, <1>2, FS_Subset
<1>4. ASSUME NEW S PROVE IsFiniteSet(ToSet(acknowledged) \ S)
  BY <1>3, FS_Subset
<1>5. QED
  BY <1>1, <1>3, <1>4, FS_CardinalityType

\* What can be read is all that stands whole on a line, or nothing.
LEMMA ReadableChain ==
  ASSUME TimelineTypeOK, ChainHolds
  PROVE  ChainOf(Readable) /\ Readable \in Seq(Known)
<1>1. ChainOf(Standing) /\ Standing \in Seq(Known)
  BY ChainOfStanding, StandingNow
<1>2. CASE broken
  <2>1. Readable = <<>>
    BY <1>2 DEF Readable
  <2>2. <<>> \in Seq(Known)
    OBVIOUS
  <2>3. QED
    BY <2>1, <2>2 DEF ChainOf
<1>3. CASE ~broken
  BY <1>1, <1>3 DEF Readable
<1>4. QED
  BY <1>2, <1>3

-----------------------------------------------------------------------------
(* The steps. *)

LEMMA TimelineInitIInv == TimelineInit => TimelineIInv
<1> SUFFICES ASSUME TimelineInit PROVE TimelineIInv
  OBVIOUS
<1>1. lines = << <<>> >> /\ made = <<>> /\ acknowledged = <<>> /\ cuts = 0 /\ broken = FALSE
  BY DEF TimelineInit
<1>2. lines \in Files /\ Len(lines) = 1 /\ LastLine = <<>>
  <2>1. <<>> \in Seq(Int)
    OBVIOUS
  <2>2. QED
    BY <1>1, <2>1 DEF Files, LastLine
<1>3. Above = <<>>
  <2>1. Above = ReadIn(lines)[0]
    BY <1>2 DEF Above
  <2>2. QED
    BY <1>2, <2>1, ReadInSteps DEF Files
<1>4. Known = {} /\ Len(made) = 0
  BY <1>1 DEF Known
<1>5. \A p \in Recorders : stage[p] = "idle"
  BY DEF TimelineInit
<1>6. TimelineTypeOK
  <2>1. /\ stage \in [Recorders -> {"idle", "read", "text"}]
        /\ parent \in [Recorders -> {NoCommit} \cup Known]
        /\ building \in [Recorders -> {NoCommit} \cup Known]
    BY DEF TimelineInit
  <2>2. made \in Seq([parent : Nat, root : Roots, compared : BOOLEAN, changed : BOOLEAN])
    <3> DEFINE S == [parent : Nat, root : Roots, compared : BOOLEAN, changed : BOOLEAN]
    <3> HIDE DEF S
    <3>1. <<>> \in Seq(S)
      OBVIOUS
    <3>2. QED
      BY <1>1, <3>1 DEF S
  <2>3. acknowledged \in Seq(Known) /\ Above \in Seq(Known) /\ LastLine \in Seq(Known \cup {Fragment})
    <3> DEFINE S == Known \cup {Fragment}
    <3> HIDE DEF S
    <3>1. QED
      BY <1>1, <1>2, <1>3 DEF S
  <2>4. broken \in BOOLEAN /\ cuts \in Nat
    BY <1>1
  <2>5. lines \in Files /\ Len(lines) > 0
    BY <1>2
  <2>6. QED
    BY <2>1, <2>2, <2>3, <2>4, <2>5 DEF TimelineTypeOK
<1>7. DeltaOfParent
  BY <1>4 DEF DeltaOfParent
<1>8. OneAtWork /\ RecorderKnows
  BY <1>5 DEF OneAtWork, Working, RecorderKnows
<1>9. ~IsCommit(LastLine) /\ Len(LastLine) = 0
  BY <1>2 DEF IsCommit
<1>10. ChainHolds
  BY <1>3, <1>9 DEF ChainHolds, ChainOf
<1>11. NothingLost
  <2>1. Reverse(acknowledged) = <<>>
    BY <1>1 DEF Reverse
  <2>2. QED
    BY <1>1, <1>2, <1>3, <1>5, <1>9, <2>1 DEF NothingLost, Appending
<1>12. Losses
  <2>1. ToSet(acknowledged) \ ToSet(Above) = {}
    BY <1>1 DEF ToSet
  <2>2. ~Spoiled
    BY <1>2, <1>9 DEF Spoiled
  <2>3. QED
    BY <1>1, <2>1, <2>2, FS_EmptySet DEF Losses
<1>13. QED
  BY <1>6, <1>7, <1>8, <1>10, <1>11, <1>12 DEF TimelineIInv

\* What is read does not change while the file does not.
LEMMA SameFile ==
  ASSUME UNCHANGED lines
  PROVE  LastLine' = LastLine /\ Above' = Above /\ Standing' = Standing
BY DEF LastLine, Above, Standing

\* The file and the commits stay, no recorder begins to append or to leave, and
\* the cuts stay: what does not depend on the recorders is kept.
LEMMA LedgerKept ==
  ASSUME TimelineIInv, UNCHANGED <<lines, broken, made, acknowledged, building, cuts>>,
         Appending' = Appending,
         stage' \in [Recorders -> {"idle", "read", "text"}],
         parent' \in [Recorders -> {NoCommit} \cup Known],
         OneAtWork', RecorderKnows'
  PROVE  TimelineIInv'
<1>1. LastLine' = LastLine /\ Above' = Above /\ Known' = Known
  BY SameFile DEF Known
<1>2. TimelineTypeOK'
  BY <1>1 DEF TimelineIInv, TimelineTypeOK
<1>3. DeltaOfParent'
  BY <1>1 DEF TimelineIInv, DeltaOfParent
<1>4. ChainHolds'
  BY <1>1 DEF TimelineIInv, ChainHolds, ChainOf, IsCommit, Newest
<1>5. NothingLost'
  BY <1>1 DEF TimelineIInv, NothingLost
<1>6. Losses'
  BY <1>1 DEF TimelineIInv, Losses, Spoiled
<1>7. QED
  BY <1>2, <1>3, <1>4, <1>5, <1>6 DEF TimelineIInv

LEMMA ReadParentStep ==
  ASSUME TimelineIInv, MaxRecorders <= 1, NEW p \in Recorders, ReadParent(p)
  PROVE  TimelineIInv'
<1>1. TimelineTypeOK
  BY DEF TimelineIInv
<1>2. Working = {}
  BY <1>1, NoneAtWork DEF ReadParent
<1>3. \A q \in Recorders : stage[q] = "idle"
  BY <1>2 DEF Working
<1>4. /\ UNCHANGED <<lines, broken, made, acknowledged, building, cuts>>
      /\ stage' = [stage EXCEPT ![p] = "read"]
      /\ parent' = [parent EXCEPT ![p] = Newest(Standing)]
  BY <1>1, NewestRead DEF ReadParent
<1>5. Newest(Standing) \in {NoCommit} \cup Known
  BY <1>1, StandingNow, NewestType
<1>6. /\ stage' \in [Recorders -> {"idle", "read", "text"}]
      /\ parent' \in [Recorders -> {NoCommit} \cup Known]
      /\ stage'[p] = "read" /\ parent'[p] = Newest(Standing)
      /\ \A q \in Recorders : q # p => stage'[q] = "idle"
  BY <1>1, <1>3, <1>4, <1>5 DEF TimelineTypeOK
<1>7. Appending' = Appending
  BY <1>3, <1>6 DEF Appending
<1>8. OneAtWork'
  BY <1>6 DEF OneAtWork, Working
<1>9. RecorderKnows'
  <2>1. Standing' = Standing
    BY <1>4, SameFile
  <2>2. \A q \in Recorders : stage'[q] # "text" /\ (stage'[q] = "read" => parent'[q] = Newest(Standing'))
    BY <1>6, <2>1
  <2>3. QED
    BY <2>2 DEF RecorderKnows
<1>10. QED
  BY <1>4, <1>6, <1>7, <1>8, <1>9, LedgerKept

LEMMA StopStep ==
  ASSUME TimelineIInv, NEW p \in Recorders, Stop(p)
  PROVE  TimelineIInv'
<1>1. /\ UNCHANGED <<lines, broken, made, acknowledged, building, cuts, parent>>
      /\ stage' = [stage EXCEPT ![p] = "idle"] /\ stage[p] = "read"
      /\ stage \in [Recorders -> {"idle", "read", "text"}]
      /\ parent \in [Recorders -> {NoCommit} \cup Known]
  BY DEF Stop, TimelineIInv, TimelineTypeOK
<1>2. \A q \in Recorders : q # p => stage[q] = "idle"
  BY <1>1, OthersIdle
<1>3. \A q \in Recorders : stage'[q] = "idle"
  BY <1>1, <1>2
<1>4. Appending' = Appending
  BY <1>1, <1>2, <1>3 DEF Appending
<1>5. OneAtWork' /\ RecorderKnows'
  BY <1>3 DEF OneAtWork, Working, RecorderKnows
<1>6. QED
  BY <1>1, <1>4, <1>5, LedgerKept

LEMMA AppendTextStep ==
  ASSUME TimelineIInv, NEW p \in Recorders, NEW r \in Roots, AppendText(p, r)
  PROVE  TimelineIInv'
<1> DEFINE c == Len(made) + 1
<1>0. PICK seen \in BOOLEAN :
        made' = Append(made, [parent |-> parent[p], root |-> r, compared |-> seen,
                              changed |-> Delta(p, r, seen)])
  BY DEF AppendText
<1> DEFINE commit == [parent |-> parent[p], root |-> r, compared |-> seen,
                      changed |-> Delta(p, r, seen)]
<1>1. TimelineTypeOK
  BY DEF TimelineIInv
<1>2. c \in Nat \ {0} /\ Len(made) \in Nat /\ made \in Seq([parent : Nat, root : Roots, compared : BOOLEAN, changed : BOOLEAN])
  BY <1>1, KnownNumbers DEF TimelineTypeOK
<1>3. parent[p] \in {NoCommit} \cup Known /\ parent[p] \in Nat /\ parent[p] < c
  BY <1>1, <1>2, KnownNumbers DEF TimelineTypeOK, Known
<1>4. commit \in [parent : Nat, root : Roots, compared : BOOLEAN, changed : BOOLEAN]
  BY <1>3 DEF Delta
<1>5. made' = Append(made, commit) /\ made' \in Seq([parent : Nat, root : Roots, compared : BOOLEAN, changed : BOOLEAN])
  <2>1. made' = Append(made, commit)
    BY <1>0
  <2> DEFINE S == [parent : Nat, root : Roots, compared : BOOLEAN, changed : BOOLEAN]
  <2> HIDE DEF S, commit
  <2>2. Append(made, commit) \in Seq(S)
    BY <1>2, <1>4 DEF S
  <2>3. QED
    BY <2>1, <2>2 DEF S
<1>6. Len(made') = c /\ made'[c] = commit /\ \A k \in Known : made'[k] = made[k]
  <2> HIDE DEF commit
  <2>1. QED
    BY <1>2, <1>5 DEF Known
<1>7. /\ Known' = Known \cup {c} /\ c \notin Known
      /\ \A k \in Known : k \in Nat /\ k < c
  BY <1>2, <1>6 DEF Known
<1>8. c \in Int /\ lines' = [lines EXCEPT ![Len(lines)] = Append(@, c)]
  BY <1>2 DEF AppendText
<1>9. /\ lines' \in Files /\ Len(lines') > 0
      /\ LastLine' = Append(LastLine, c) /\ Above' = Above
  <2> HIDE DEF c
  <2>1. lines \in Files /\ Len(lines) > 0
    BY <1>1 DEF TimelineTypeOK
  <2>2. /\ lines' \in Files /\ Len(lines') = Len(lines)
        /\ lines'[Len(lines')] = Append(lines[Len(lines)], c)
        /\ ReadIn(lines')[Len(lines') - 1] = ReadIn(lines)[Len(lines) - 1]
    <3>1. c \in Int /\ LastLineLonger(lines, c, lines')
      BY <1>8 DEF LastLineLonger
    <3>2. QED
      BY <2>1, <3>1, TextOnLastLine
  <2>3. QED
    BY <2>1, <2>2 DEF LastLine, Above
<1>10. /\ UNCHANGED <<broken, acknowledged, parent, cuts>>
       /\ building' = [building EXCEPT ![p] = c] /\ stage' = [stage EXCEPT ![p] = "text"]
       /\ stage[p] = "read"
  BY DEF AppendText
<1>11. \A q \in Recorders : q # p => stage[q] = "idle"
  BY <1>10, OthersIdle
<1>12. /\ stage'[p] = "text" /\ building'[p] = c
       /\ \A q \in Recorders : q # p => stage'[q] = "idle"
  BY <1>1, <1>10, <1>11 DEF TimelineTypeOK
<1>13. Appending' /\ ~Appending
  BY <1>10, <1>11, <1>12 DEF Appending
<1>14. parent[p] = Newest(Standing)
  BY <1>10 DEF TimelineIInv, RecorderKnows
<1> DEFINE line == LastLine
           above == Above
<1>15. line \in Seq(Known \cup {Fragment}) /\ above \in Seq(Known) /\ acknowledged \in Seq(Known)
  BY <1>1 DEF TimelineTypeOK
<1> HIDE DEF c, commit, line, above
<1>16. Len(line) \in Nat /\ Len(LastLine') = Len(line) + 1 /\ LastLine'[Len(line) + 1] = c
  <2>1. c \in Known \cup {Fragment, c}
    OBVIOUS
  <2>2. line \in Seq(Known \cup {Fragment, c})
    <3>1. Known \cup {Fragment} \subseteq Known \cup {Fragment, c}
      OBVIOUS
    <3>2. QED
      BY <1>15, <3>1, WiderSeq
  <2>3. LastLine' = Append(line, c)
    BY <1>9 DEF line
  <2> DEFINE S == Known \cup {Fragment, c}
  <2> HIDE DEF S
  <2>4. line \in Seq(S) /\ c \in S
    BY <2>1, <2>2 DEF S
  <2>5. QED
    BY <2>3, <2>4
<1>17. TimelineTypeOK'
  <2>1. acknowledged' \in Seq(Known') /\ Above' \in Seq(Known')
    <3>1. Known \subseteq Known'
      BY <1>7
    <3>2. acknowledged \in Seq(Known') /\ above \in Seq(Known')
      BY <1>15, <3>1, WiderSeq
    <3>3. QED
      BY <1>9, <1>10, <3>2 DEF above
  <2>2. LastLine' \in Seq(Known' \cup {Fragment})
    <3> DEFINE S == Known' \cup {Fragment}
    <3>1. Known \cup {Fragment} \subseteq S /\ c \in S
      BY <1>7
    <3> HIDE DEF S
    <3>2. line \in Seq(S)
      BY <1>15, <3>1, WiderSeq
    <3>3. Append(line, c) \in Seq(S)
      BY <3>1, <3>2
    <3>4. QED
      BY <1>9, <3>3 DEF S, line
  <2>3. /\ stage' \in [Recorders -> {"idle", "read", "text"}]
        /\ parent' \in [Recorders -> {NoCommit} \cup Known']
        /\ building' \in [Recorders -> {NoCommit} \cup Known']
        /\ cuts' \in Nat /\ broken' \in BOOLEAN
    BY <1>1, <1>7, <1>10 DEF TimelineTypeOK
  <2>4. QED
    BY <1>5, <1>9, <2>1, <2>2, <2>3 DEF TimelineTypeOK
<1>18. DeltaOfParent'
  <2> SUFFICES ASSUME NEW k \in Known'
               PROVE  /\ made'[k].parent < k
                      /\ made'[k].changed <=>
                           /\ made'[k].compared /\ made'[k].parent # NoCommit
                           /\ made'[made'[k].parent].root # made'[k].root
    BY DEF DeltaOfParent
  <2>1. CASE k \in Known
    <3>1. made'[k] = made[k]
      BY <1>6, <2>1
    <3>2. /\ made[k].parent < k
          /\ made[k].changed <=>
               /\ made[k].compared /\ made[k].parent # NoCommit
               /\ made[made[k].parent].root # made[k].root
      BY <2>1 DEF TimelineIInv, DeltaOfParent
    <3>3. made[k].parent \in Nat
      BY <1>1, <2>1, KnownNumbers
    <3>4. made[k].parent # NoCommit => made[k].parent \in Known
      BY <1>2, <2>1, <3>2, <3>3 DEF Known, NoCommit
    <3>5. QED
      BY <1>6, <3>1, <3>2, <3>4
  <2>2. CASE k = c
    <3>1. /\ made'[k].parent = parent[p] /\ made'[k].root = r
          /\ made'[k].compared = seen /\ made'[k].changed = Delta(p, r, seen)
      BY <1>6, <2>2 DEF commit
    <3>2. parent[p] # NoCommit => made'[parent[p]] = made[parent[p]]
      BY <1>3, <1>6
    <3>3. QED
      BY <1>3, <2>2, <3>1, <3>2 DEF Delta
  <2>3. QED
    BY <1>7, <2>1, <2>2
<1>19. OneAtWork'
  BY <1>12 DEF OneAtWork, Working
<1>20. RecorderKnows'
  <2>1. LastLine' # <<>> /\ LastLine'[Len(LastLine')] = c
    <3>1. Len(LastLine') # 0
      BY <1>16
    <3>2. QED
      BY <1>16, <3>1
  <2>2. QED
    BY <1>12, <2>1 DEF RecorderKnows
<1>21. ChainHolds'
  <2>1. ChainOf(above)'
    <3>1. ChainOf(above)
      BY DEF TimelineIInv, ChainHolds, above
    <3>2. \A i \in 1..Len(above) : above[i] \in Known
      BY <1>15, SeqElements
    <3>3. above' = above
      BY <1>9 DEF above
    <3>4. QED
      BY <1>6, <3>1, <3>2, <3>3 DEF ChainOf
  <2>2. ASSUME IsCommit(LastLine)' PROVE made'[LastLine'[1]].parent = Newest(Above)'
    <3> DEFINE n == Len(line)
               m == Len(LastLine')
               new == LastLine'
    <3>1. m = 1
      BY <2>2 DEF IsCommit
    <3>2. n \in Nat /\ m = n + 1 /\ new[n + 1] = c
      BY <1>16
    <3> HIDE DEF n, m, new
    <3>3. n = 0 /\ n + 1 = 1
      BY <3>1, <3>2
    <3>4. new[1] = c
      BY <3>2, <3>3
    <3>5. Len(line) = 0 /\ LastLine'[1] = c
      BY <3>3, <3>4 DEF n, new
    <3>6. Standing = above
      <4>1. ~IsCommit(line)
        BY <3>5 DEF IsCommit
      <4>2. QED
        BY <1>1, <4>1, StandingNow DEF With, line, above
    <3>7. made'[c].parent = Newest(above)
      BY <1>6, <1>14, <3>6 DEF commit
    <3>8. Newest(Above)' = Newest(above)
      BY <1>9 DEF Newest, above
    <3>9. QED
      BY <3>5, <3>7, <3>8
  <2>3. QED
    BY <2>1, <2>2 DEF ChainHolds, above
<1>22. NothingLost'
  <2> SUFFICES ASSUME cuts' = 0
               PROVE  Above' = Reverse(acknowledged)' /\ LastLine' # <<>> /\ Len(LastLine') <= 1
    BY <1>10, <1>13 DEF TimelineIInv, NothingLost
  <2>1. Above = Reverse(acknowledged) /\ LastLine = <<>>
    BY <1>10, <1>13 DEF TimelineIInv, NothingLost
  <2>2. Len(line) = 0
    BY <2>1 DEF line
  <2>3. Reverse(acknowledged)' = Reverse(acknowledged)
    BY <1>10 DEF Reverse
  <2>4. QED
    BY <1>9, <1>16, <2>1, <2>2, <2>3
<1>23. Losses'
  <2>1. Spoiled' => Spoiled
    <3>1. Spoiled' => Len(line) > 0
      BY <1>13, <1>16 DEF Spoiled
    <3>2. Len(line) > 0 => Spoiled
      <4>1. Len(line) > 0 => line # <<>>
        OBVIOUS
      <4>2. QED
        BY <1>13, <4>1 DEF Spoiled, line
    <3>3. QED
      BY <3>1, <3>2
  <2>2. (ToSet(acknowledged) \ ToSet(Above))' = ToSet(acknowledged) \ ToSet(Above)
    BY <1>9, <1>10 DEF ToSet
  <2>3. Cardinality(ToSet(acknowledged) \ ToSet(Above)) \in Nat
    BY <1>1, AckedFinite
  <2> DEFINE lost == Cardinality(ToSet(acknowledged) \ ToSet(Above))
  <2>4. lost' = lost
    BY <2>2
  <2>5. lost + (IF Spoiled THEN 1 ELSE 0) <= cuts /\ cuts \in Nat /\ cuts' = cuts
    BY <1>1, <1>10 DEF TimelineIInv, Losses, TimelineTypeOK
  <2> HIDE DEF lost
  <2>6. lost' + (IF Spoiled' THEN 1 ELSE 0) <= cuts'
    BY <2>1, <2>3, <2>4, <2>5 DEF lost
  <2>7. QED
    BY <2>6 DEF Losses, lost
<1>24. QED
  BY <1>17, <1>18, <1>19, <1>20, <1>21, <1>22, <1>23 DEF TimelineIInv

\* Reversing a sequence that has one more at its end puts that one in front.
LEMMA ReverseAppend ==
  ASSUME NEW S, NEW s \in Seq(S), NEW e \in S
  PROVE  Reverse(Append(s, e)) = <<e>> \o Reverse(s)
<1> DEFINE left == Reverse(Append(s, e))
           right == <<e>> \o Reverse(s)
<1>1. /\ Len(s) \in Nat /\ Len(Append(s, e)) = Len(s) + 1
      /\ \A i \in 1..Len(s) : Append(s, e)[i] = s[i]
      /\ Append(s, e)[Len(s) + 1] = e
  OBVIOUS
<1>2. left = [i \in 1..(Len(s) + 1) |-> Append(s, e)[((Len(s) + 1) - i) + 1]]
  BY <1>1 DEF Reverse
<1>3. Reverse(s) = [i \in 1..Len(s) |-> s[(Len(s) - i) + 1]]
  BY DEF Reverse
<1>4. Reverse(s) \in Seq(S) /\ Len(Reverse(s)) = Len(s)
  <2>1. \A i \in 1..Len(s) : s[(Len(s) - i) + 1] \in S
    <3> SUFFICES ASSUME NEW i \in 1..Len(s) PROVE s[(Len(s) - i) + 1] \in S
      OBVIOUS
    <3>1. (Len(s) - i) + 1 \in 1..Len(s)
      OBVIOUS
    <3>2. QED
      BY <3>1
  <2>2. QED
    BY <1>1, <1>3, <2>1
<1>5. right \in Seq(S) /\ Len(right) = Len(s) + 1 /\ right[1] = e
      /\ \A i \in 1..Len(s) : right[i + 1] = Reverse(s)[i]
  BY <1>1, <1>4
<1>6. \A i \in 1..(Len(s) + 1) : left[i] = right[i]
  <2> SUFFICES ASSUME NEW i \in 1..(Len(s) + 1) PROVE left[i] = right[i]
    OBVIOUS
  <2>1. left[i] = Append(s, e)[((Len(s) + 1) - i) + 1]
    BY <1>2
  <2>2. CASE i = 1
    BY <1>1, <1>5, <2>1, <2>2
  <2>3. CASE i # 1
    <3> DEFINE k == i - 1
               j == (Len(s) - k) + 1
    <3>1. k \in 1..Len(s) /\ k + 1 = i /\ j \in 1..Len(s) /\ ((Len(s) + 1) - i) + 1 = j
      BY <1>1, <2>3
    <3>2. right[i] = Reverse(s)[k] /\ Reverse(s)[k] = s[j]
      BY <1>3, <1>5, <3>1
    <3>3. left[i] = s[j]
      BY <1>1, <2>1, <3>1
    <3>4. QED
      BY <3>2, <3>3
  <2>4. QED
    BY <2>2, <2>3
<1>7. left = [i \in 1..(Len(s) + 1) |-> left[i]] /\ right = [i \in 1..(Len(s) + 1) |-> right[i]]
  <2>1. DOMAIN left = 1..(Len(s) + 1)
    BY <1>2
  <2>2. DOMAIN right = 1..(Len(s) + 1)
    BY <1>5
  <2>3. right = [i \in 1..(Len(s) + 1) |-> right[i]]
    <3> HIDE DEF right
    <3>1. QED
      BY <1>5, <2>2
  <2>4. QED
    BY <1>2, <2>1, <2>3
<1>8. QED
  <2> HIDE DEF left, right
  <2>1. [i \in 1..(Len(s) + 1) |-> left[i]] = [i \in 1..(Len(s) + 1) |-> right[i]]
    BY <1>6
  <2>2. left = right
    BY <1>7, <2>1
  <2>3. QED
    BY <2>2 DEF left, right

LEMMA AppendNewlineStep ==
  ASSUME TimelineIInv, NEW p \in Recorders, AppendNewline(p)
  PROVE  TimelineIInv'
<1> DEFINE b == building[p]
           line == LastLine
           above == Above
<1>1. TimelineTypeOK
  BY DEF TimelineIInv
<1>2. /\ lines' = Append(lines, <<>>) /\ acknowledged' = Append(acknowledged, b)
      /\ stage' = [stage EXCEPT ![p] = "idle"] /\ stage[p] = "text"
      /\ UNCHANGED <<broken, made, parent, building, cuts>>
  BY DEF AppendNewline
<1>3. Known' = Known
  BY <1>2 DEF Known
<1>4. Standing = With(line, above) /\ Standing \in Seq(Known)
  BY <1>1, StandingNow
<1>5. lines' \in Files /\ Len(lines') > 0 /\ LastLine' = <<>> /\ Above' = Standing
  <2>1. lines \in Files /\ Len(lines) > 0 /\ Len(lines) \in Nat
    BY <1>1 DEF TimelineTypeOK, Files
  <2>2. /\ lines' \in Files /\ Len(lines') = Len(lines) + 1 /\ lines'[Len(lines')] = <<>>
        /\ ReadIn(lines')[Len(lines') - 1] = ReadIn(lines)[Len(lines)]
    BY <1>2, <2>1, NewlineAfterLast
  <2>3. QED
    BY <2>1, <2>2 DEF LastLine, Above, Standing
<1>6. line # <<>> /\ line[Len(line)] = b /\ Appending
  BY <1>2 DEF TimelineIInv, RecorderKnows, Appending
<1>7. line \in Seq(Known \cup {Fragment}) /\ above \in Seq(Known) /\ acknowledged \in Seq(Known)
  BY <1>1 DEF TimelineTypeOK
<1> HIDE DEF line, above
<1>8. Len(line) \in Nat /\ Len(line) > 0 /\ Len(line) \in 1..Len(line)
  BY <1>6, <1>7
<1>9. b \in Known
  <2>1. b \in Known \cup {Fragment}
    <3> DEFINE S == Known \cup {Fragment}
    <3> HIDE DEF S
    <3>1. line[Len(line)] \in S
      BY <1>7, <1>8, SeqElements DEF S
    <3>2. QED
      BY <1>6, <3>1 DEF S
  <2>2. b \in {NoCommit} \cup Known
    BY <1>1 DEF TimelineTypeOK
  <2>3. QED
    BY <1>1, <2>1, <2>2, KnownNumbers
<1>10. \A q \in Recorders : stage'[q] = "idle"
  <2>1. \A q \in Recorders : q # p => stage[q] = "idle"
    BY <1>2, OthersIdle
  <2>2. QED
    BY <1>1, <1>2, <2>1 DEF TimelineTypeOK
<1>11. ~Appending'
  BY <1>10 DEF Appending
<1>12. TimelineTypeOK'
  <2>1. acknowledged' \in Seq(Known')
    <3> HIDE DEF b
    <3>1. Append(acknowledged, b) \in Seq(Known)
      BY <1>7, <1>9
    <3>2. QED
      BY <1>2, <1>3, <3>1
  <2>2. stage' \in [Recorders -> {"idle", "read", "text"}]
    BY <1>1, <1>2 DEF TimelineTypeOK
  <2>3. LastLine' \in Seq(Known' \cup {Fragment})
    <3> DEFINE S == Known' \cup {Fragment}
    <3> HIDE DEF S
    <3>1. <<>> \in Seq(S)
      OBVIOUS
    <3>2. QED
      BY <1>5, <3>1 DEF S
  <2>4. Above' \in Seq(Known')
    BY <1>3, <1>4, <1>5
  <2>5. QED
    BY <1>1, <1>2, <1>3, <1>5, <2>1, <2>2, <2>3, <2>4 DEF TimelineTypeOK
<1>13. DeltaOfParent'
  BY <1>2, <1>3 DEF TimelineIInv, DeltaOfParent
<1>14. OneAtWork' /\ RecorderKnows'
  BY <1>10 DEF OneAtWork, Working, RecorderKnows
<1>15. ChainHolds'
  <2>1. ChainOf(Standing)
    BY <1>1, ChainOfStanding DEF TimelineIInv
  <2>2. ChainOf(Above)'
    BY <1>2, <1>5, <2>1 DEF ChainOf
  <2>3. ~IsCommit(LastLine)'
    BY <1>5 DEF IsCommit
  <2>4. QED
    BY <2>2, <2>3 DEF ChainHolds
<1>16. line = <<b>> => Standing = <<b>> \o above
  <2>1. b # Fragment
    BY <1>1, <1>9, KnownNumbers
  <2> HIDE DEF b
  <2>2. QED
    BY <1>4, <2>1 DEF With, IsCommit
<1>17. Len(line) <= 1 => line = <<b>>
  <2> DEFINE S == Known \cup {Fragment}
  <2> HIDE DEF S, b
  <2>1. line \in Seq(S)
    BY <1>7 DEF S
  <2> SUFFICES ASSUME Len(line) <= 1 PROVE line = <<b>>
    OBVIOUS
  <2>2. Len(line) = 1
    <3> DEFINE n == Len(line)
    <3>1. n \in Nat /\ n > 0 /\ n <= 1
      BY <1>8
    <3> HIDE DEF n
    <3>2. n = 1
      BY <3>1
    <3>3. QED
      BY <3>2 DEF n
  <2>3. line[1] = b
    BY <1>6, <2>2
  <2>4. QED
    BY <2>1, <2>2, <2>3, OneElement
<1>18. NothingLost'
  <2> SUFFICES ASSUME cuts' = 0 PROVE Above' = Reverse(acknowledged)' /\ LastLine' = <<>> /\ Len(LastLine') <= 1
    BY <1>2, <1>11 DEF TimelineIInv, NothingLost
  <2>1. above = Reverse(acknowledged) /\ Len(line) <= 1
    BY <1>2 DEF TimelineIInv, NothingLost, line, above
  <2>2. Standing = <<b>> \o Reverse(acknowledged)
    BY <1>16, <1>17, <2>1
  <2>3. Reverse(acknowledged') = <<b>> \o Reverse(acknowledged)
    <3> HIDE DEF b
    <3>1. QED
      BY <1>2, <1>7, <1>9, ReverseAppend
  <2>4. Reverse(acknowledged)' = Reverse(acknowledged')
    BY DEF Reverse
  <2>5. QED
    BY <1>5, <2>2, <2>3, <2>4
<1>19. Losses'
  <2> DEFINE before == ToSet(acknowledged) \ ToSet(above)
             after == (ToSet(acknowledged) \ ToSet(Above))'
  <2>1. ToSet(acknowledged)' = ToSet(acknowledged) \cup {b}
    <3> HIDE DEF b
    <3>1. /\ Len(acknowledged) \in Nat /\ Len(acknowledged') = Len(acknowledged) + 1
          /\ \A i \in 1..Len(acknowledged) : acknowledged'[i] = acknowledged[i]
          /\ acknowledged'[Len(acknowledged) + 1] = b
          /\ DOMAIN acknowledged = 1..Len(acknowledged) /\ DOMAIN acknowledged' = 1..(Len(acknowledged) + 1)
      BY <1>2, <1>7, <1>9
    <3>2. \A x \in ToSet(acknowledged)' : x \in ToSet(acknowledged) \cup {b}
      BY <3>1 DEF ToSet
    <3>3. \A x \in ToSet(acknowledged) \cup {b} : x \in ToSet(acknowledged)'
      BY <3>1 DEF ToSet
    <3>4. QED
      BY <3>2, <3>3
  <2>2. ToSet(above) \subseteq ToSet(Standing) /\ (line = <<b>> => b \in ToSet(Standing))
    <3> HIDE DEF b
    <3>1. \A x : Standing = <<x>> \o above =>
                  ToSet(above) \subseteq ToSet(Standing) /\ x \in ToSet(Standing)
      BY <1>7, PutInFront
    <3>2. Standing = above \/ Standing = <<line[1]>> \o above
      BY <1>4 DEF With
    <3>3. QED
      BY <1>16, <3>1, <3>2
  <2>3. after = (ToSet(acknowledged) \cup {b}) \ ToSet(Standing)
    <3>1. ToSet(Above)' = ToSet(Standing)
      BY <1>5 DEF ToSet
    <3>2. QED
      BY <2>1, <3>1
  <2>4. IsFiniteSet(before) /\ Cardinality(before) \in Nat
    BY <1>1, AckedFinite
  <2>5. ~Spoiled'
    BY <1>5, <1>11 DEF Spoiled
  <2>6. Cardinality(before) + (IF Spoiled THEN 1 ELSE 0) <= cuts /\ cuts' = cuts /\ cuts \in Nat
    BY <1>1, <1>2 DEF TimelineIInv, Losses, TimelineTypeOK, above
  <2>7. Cardinality(after) \in Nat /\ Cardinality(after) <= Cardinality(before) + (IF Spoiled THEN 1 ELSE 0)
    <3>1. CASE line = <<b>>
      <4>1. after \subseteq before
        BY <2>2, <2>3, <3>1
      <4>2. IsFiniteSet(after) /\ Cardinality(after) <= Cardinality(before)
        BY <2>4, <4>1, FS_Subset
      <4> HIDE DEF after, before
      <4>3. QED
        BY <2>4, <4>2, FS_CardinalityType
    <3>2. CASE line # <<b>>
      <4>1. Spoiled
        BY <1>6, <1>8, <1>17, <3>2 DEF Spoiled, line
      <4>2. after \subseteq before \cup {b}
        BY <2>2, <2>3
      <4>3. /\ IsFiniteSet(before \cup {b})
            /\ Cardinality(before \cup {b}) \in {Cardinality(before), Cardinality(before) + 1}
        BY <2>4, FS_AddElement
      <4>4. IsFiniteSet(after) /\ Cardinality(after) <= Cardinality(before \cup {b})
        BY <4>2, <4>3, FS_Subset
      <4> HIDE DEF after, before
      <4>5. Cardinality(after) \in Nat
        BY <4>4, FS_CardinalityType
      <4>6. QED
        BY <2>4, <4>1, <4>3, <4>4, <4>5
    <3>3. QED
      BY <3>1, <3>2
  <2>8. Cardinality(after) <= cuts
    <3> HIDE DEF after, before
    <3>1. CASE Spoiled
      BY <2>4, <2>6, <2>7, <3>1
    <3>2. CASE ~Spoiled
      BY <2>4, <2>6, <2>7, <3>2
    <3>3. QED
      BY <3>1, <3>2
  <2>9. Cardinality(after) = Cardinality(ToSet(acknowledged) \ ToSet(Above))'
    OBVIOUS
  <2> HIDE DEF after, before
  <2>10. QED
    BY <2>5, <2>6, <2>7, <2>8, <2>9 DEF Losses
<1>20. QED
  BY <1>12, <1>13, <1>14, <1>15, <1>18, <1>19 DEF TimelineIInv

LEMMA AppendCutStep ==
  ASSUME TimelineIInv, NEW p \in Recorders, AppendCut(p)
  PROVE  TimelineIInv'
<1> DEFINE line == LastLine
           above == Above
<1>1. TimelineTypeOK
  BY DEF TimelineIInv
<1>2. /\ stage[p] \in {"read", "text"} /\ cuts' = cuts + 1 /\ cuts \in Nat
      /\ stage' = [stage EXCEPT ![p] = "idle"]
      /\ UNCHANGED <<made, acknowledged, parent, building>> /\ broken' \in BOOLEAN
  BY <1>1 DEF AppendCut, TimelineTypeOK
<1>3. Known' = Known
  BY <1>2 DEF Known
<1>4. /\ lines' \in Files /\ Len(lines') > 0 /\ Above' = Above
      /\ LastLine' = LastLine \/ LastLine' = Append(LastLine, Fragment)
  <2>1. lines \in Files /\ Len(lines) > 0
    BY <1>1 DEF TimelineTypeOK
  <2>2. CASE lines' = [lines EXCEPT ![Len(lines)] = Append(@, Fragment)]
    <3>1. Fragment \in Int /\ LastLineLonger(lines, Fragment, lines')
      BY <2>2 DEF LastLineLonger, Fragment
    <3>2. /\ lines' \in Files /\ Len(lines') = Len(lines)
          /\ lines'[Len(lines')] = Append(lines[Len(lines)], Fragment)
          /\ ReadIn(lines')[Len(lines') - 1] = ReadIn(lines)[Len(lines) - 1]
      BY <2>1, <3>1, TextOnLastLine
    <3>3. QED
      BY <2>1, <3>2 DEF LastLine, Above
  <2>3. CASE UNCHANGED lines
    BY <2>1, <2>3, SameFile
  <2>4. QED
    BY <2>2, <2>3 DEF AppendCut
<1>5. line \in Seq(Known \cup {Fragment}) /\ above \in Seq(Known) /\ acknowledged \in Seq(Known)
  BY <1>1 DEF TimelineTypeOK
<1>6. \A q \in Recorders : stage'[q] = "idle"
  <2>1. \A q \in Recorders : q # p => stage[q] = "idle"
    BY <1>2, OthersIdle
  <2>2. QED
    BY <1>1, <1>2, <2>1 DEF TimelineTypeOK
<1>7. TimelineTypeOK'
  <2>1. LastLine' \in Seq(Known' \cup {Fragment})
    <3> DEFINE S == Known \cup {Fragment}
    <3>1. Fragment \in S
      OBVIOUS
    <3> HIDE DEF S, line
    <3>2. line \in Seq(S)
      BY <1>5 DEF S
    <3>3. Append(line, Fragment) \in Seq(S)
      BY <3>1, <3>2
    <3>4. QED
      BY <1>3, <1>4, <3>2, <3>3 DEF S, line
  <2>2. stage' \in [Recorders -> {"idle", "read", "text"}]
    BY <1>1, <1>2 DEF TimelineTypeOK
  <2>3. cuts' \in Nat
    BY <1>2
  <2>4. QED
    BY <1>1, <1>2, <1>3, <1>4, <2>1, <2>2, <2>3 DEF TimelineTypeOK
<1>8. DeltaOfParent'
  BY <1>2, <1>3 DEF TimelineIInv, DeltaOfParent
<1>9. OneAtWork' /\ RecorderKnows'
  BY <1>6 DEF OneAtWork, Working, RecorderKnows
<1>10. ChainHolds'
  <2>1. ChainOf(Above)'
    BY <1>2, <1>4 DEF TimelineIInv, ChainHolds, ChainOf
  <2>2. ASSUME IsCommit(LastLine)' PROVE made'[LastLine'[1]].parent = Newest(Above)'
    <3>1. Newest(Above)' = Newest(Above)
      BY <1>4 DEF Newest
    <3>2. CASE LastLine' = LastLine
      <4>1. IsCommit(LastLine)
        BY <2>2, <3>2 DEF IsCommit
      <4>2. QED
        BY <1>2, <3>1, <3>2, <4>1 DEF TimelineIInv, ChainHolds
    <3>3. CASE LastLine' = Append(LastLine, Fragment)
      <4> DEFINE S == Known \cup {Fragment}
                 new == LastLine'
      <4>1. Fragment \in S
        OBVIOUS
      <4> HIDE DEF S, line
      <4>2. line \in Seq(S) /\ new = Append(line, Fragment)
        BY <1>5, <3>3 DEF S, line
      <4> HIDE DEF new
      <4>3. Len(line) \in Nat /\ Len(new) = Len(line) + 1 /\ new[Len(line) + 1] = Fragment
        BY <4>1, <4>2
      <4>4. Len(new) = 1 /\ new[1] # Fragment
        BY <2>2 DEF new, IsCommit
      <4>5. Len(line) + 1 = 1
        BY <4>3, <4>4
      <4>6. QED
        BY <4>3, <4>4, <4>5
    <3>4. QED
      BY <1>4, <3>2, <3>3
  <2>3. QED
    BY <2>1, <2>2 DEF ChainHolds
<1>11. NothingLost'
  <2>1. cuts' # 0
    BY <1>2
  <2>2. QED
    BY <2>1 DEF NothingLost
<1>12. Losses'
  <2> DEFINE lost == Cardinality(ToSet(acknowledged) \ ToSet(Above))
  <2>1. lost' = lost
    BY <1>2, <1>4 DEF ToSet
  <2>2. lost \in Nat
    BY <1>1, AckedFinite
  <2>3. lost + (IF Spoiled THEN 1 ELSE 0) <= cuts
    BY DEF TimelineIInv, Losses
  <2> HIDE DEF lost
  <2>4. lost' + (IF Spoiled' THEN 1 ELSE 0) <= cuts'
    BY <1>2, <2>1, <2>2, <2>3
  <2>5. QED
    BY <2>4 DEF Losses, lost
<1>13. QED
  BY <1>7, <1>8, <1>9, <1>10, <1>11, <1>12 DEF TimelineIInv

LEMMA TimelineIInvariant ==
  ASSUME MaxRecorders <= 1
  PROVE  TimelineSpec => []TimelineIInv
<1>1. TimelineInit => TimelineIInv
  BY TimelineInitIInv
<1>2. TimelineIInv /\ [TimelineNext]_timelineVars => TimelineIInv'
  <2> SUFFICES ASSUME TimelineIInv, [TimelineNext]_timelineVars PROVE TimelineIInv'
    OBVIOUS
  <2>1. ASSUME NEW p \in Recorders, ReadParent(p) PROVE TimelineIInv'
    BY <2>1, ReadParentStep
  <2>2. ASSUME NEW p \in Recorders, NEW r \in Roots, AppendText(p, r) PROVE TimelineIInv'
    BY <2>2, AppendTextStep
  <2>3. ASSUME NEW p \in Recorders, AppendNewline(p) PROVE TimelineIInv'
    BY <2>3, AppendNewlineStep
  <2>4. ASSUME NEW p \in Recorders, AppendCut(p) PROVE TimelineIInv'
    BY <2>4, AppendCutStep
  <2>5. ASSUME NEW p \in Recorders, Stop(p) PROVE TimelineIInv'
    BY <2>5, StopStep
  <2>6. CASE UNCHANGED timelineVars
    <3>1. /\ UNCHANGED <<lines, broken, made, acknowledged, building, cuts, stage, parent>>
      BY <2>6 DEF timelineVars
    <3>2. Standing' = Standing
      BY <3>1, SameFile
    <3>3. Appending' = Appending
      BY <3>1 DEF Appending
    <3>4. OneAtWork'
      BY <3>1 DEF TimelineIInv, OneAtWork, Working
    <3>5. RecorderKnows'
      BY <3>1, <3>2, SameFile DEF TimelineIInv, RecorderKnows, Newest
    <3>6. /\ stage' \in [Recorders -> {"idle", "read", "text"}]
          /\ parent' \in [Recorders -> {NoCommit} \cup Known]
      BY <3>1 DEF TimelineIInv, TimelineTypeOK
    <3>7. QED
      BY <3>1, <3>3, <3>4, <3>5, <3>6, LedgerKept
  <2>7. QED
    BY <2>1, <2>2, <2>3, <2>4, <2>5, <2>6 DEF TimelineNext
<1>3. QED
  BY <1>1, <1>2, PTL DEF TimelineSpec

-----------------------------------------------------------------------------
(* The theorems. *)

\* The ledger's types: lines of commits and fragments, commits with a parent, and
\* recorders that know commits that exist.
THEOREM TimelineTypes ==
  ASSUME MaxRecorders <= 1
  PROVE  TimelineSpec => []TimelineTypeOK
<1>1. TimelineIInv => TimelineTypeOK
  BY DEF TimelineIInv
<1>2. QED
  BY <1>1, TimelineIInvariant, PTL

\* What can be read of the ledger is one linear chain, whatever was cut short.
THEOREM LinearChainTheorem ==
  ASSUME MaxRecorders <= 1
  PROVE  TimelineSpec => []LinearChain
<1>1. TimelineIInv => LinearChain
  <2> SUFFICES ASSUME TimelineIInv PROVE LinearChain
    OBVIOUS
  <2>1. ChainOf(Readable) /\ Readable \in Seq(Known)
    BY ReadableChain DEF TimelineIInv
  <2>2. DOMAIN Readable = 1..Len(Readable)
    BY <2>1
  <2>3. QED
    BY <2>1, <2>2 DEF LinearChain, ChainOf
<1>2. QED
  BY <1>1, TimelineIInvariant, PTL

\* A commit's delta is empty exactly when the entry before it in the ledger has the
\* same shape, or when the two bodies could not be compared.
THEOREM DeltasTellChangesTheorem ==
  ASSUME MaxRecorders <= 1
  PROVE  TimelineSpec => []DeltasTellChanges
<1>1. TimelineIInv => DeltasTellChanges
  <2> SUFFICES ASSUME TimelineIInv, NEW i \in 1..(Len(Readable) - 1)
               PROVE  made[Readable[i]].changed <=>
                        /\ made[Readable[i]].compared
                        /\ made[Readable[i]].root # made[Readable[i + 1]].root
    BY DEF DeltasTellChanges
  <2>1. TimelineTypeOK /\ ChainOf(Readable) /\ Readable \in Seq(Known)
    BY ReadableChain DEF TimelineIInv
  <2>2. i \in 1..Len(Readable) /\ i + 1 \in 1..Len(Readable) /\ i < Len(Readable)
    BY <2>1
  <2> DEFINE c == Readable[i]
             d == Readable[i + 1]
  <2>3. c \in Known /\ d \in Known /\ made[c].parent = d
    BY <2>1, <2>2, SeqElements DEF ChainOf
  <2>4. d # NoCommit
    BY <2>1, <2>3, KnownNumbers
  <2> HIDE DEF c, d
  <2>5. made[c].changed <=> made[c].compared /\ made[d].root # made[c].root
    BY <2>3, <2>4 DEF TimelineIInv, DeltaOfParent
  <2>6. QED
    BY <2>5 DEF c, d
<1>2. QED
  BY <1>1, TimelineIInvariant, PTL

\* Between recordings, and as long as no append was cut short, `timeline show` has
\* the latest acknowledged observations, newest first.
THEOREM ShowsRecentTheorem ==
  ASSUME MaxRecorders <= 1
  PROVE  TimelineSpec => []ShowsRecent
<1>1. TimelineIInv => ShowsRecent
  <2> SUFFICES ASSUME TimelineIInv, Working = {}, cuts = 0, NEW k \in 1..MaxCommits
               PROVE  GetTimeline(k) =
                        SubSeq(Reverse(acknowledged), 1, IF k < Len(acknowledged) THEN k ELSE Len(acknowledged))
    BY DEF ShowsRecent
  <2>1. TimelineTypeOK
    BY DEF TimelineIInv
  <2>2. ~Appending
    BY DEF Appending, Working
  <2>3. Above = Reverse(acknowledged) /\ LastLine = <<>> /\ ~broken
    BY <2>2 DEF TimelineIInv, NothingLost
  <2>4. ~IsCommit(LastLine)
    BY <2>3 DEF IsCommit
  <2>5. Readable = Reverse(acknowledged)
    BY <2>1, <2>3, <2>4, StandingNow DEF With, Readable
  <2>6. Len(Reverse(acknowledged)) = Len(acknowledged)
    <3>1. Len(acknowledged) \in Nat
      BY <2>1 DEF TimelineTypeOK
    <3>2. QED
      BY <3>1 DEF Reverse
  <2>7. k # 0
    BY TimelineAssumption
  <2>8. QED
    BY <2>5, <2>6, <2>7 DEF GetTimeline
<1>2. QED
  BY <1>1, TimelineIInvariant, PTL

\* As long as the file is text, each append cut short makes at most one acknowledged
\* commit unreadable.
THEOREM LossBoundedTheorem ==
  ASSUME MaxRecorders <= 1
  PROVE  TimelineSpec => []LossBounded
<1>1. TimelineIInv => LossBounded
  <2> SUFFICES ASSUME TimelineIInv, ~broken
               PROVE  Cardinality(ToSet(acknowledged) \ ToSet(Readable)) <= cuts
    BY DEF LossBounded
  <2>1. TimelineTypeOK
    BY DEF TimelineIInv
  <2>2. ToSet(Above) \subseteq ToSet(Readable)
    <3> DEFINE above == Above
    <3>1. above \in Seq(Known) /\ (Readable = above \/ \E x \in Known : Readable = <<x>> \o above)
      <4>1. Readable = With(LastLine, Above) /\ Readable \in Seq(Known) /\ Above \in Seq(Known)
        BY <2>1, StandingNow DEF TimelineTypeOK, Readable
      <4>2. CASE ~IsCommit(LastLine)
        BY <4>1, <4>2 DEF With
      <4>3. CASE IsCommit(LastLine)
        <5>1. Readable = <<LastLine[1]>> \o Above
          BY <4>1, <4>3 DEF With
        <5> HIDE DEF above
        <5>2. Readable = <<LastLine[1]>> \o above /\ above \in Seq(Known)
          BY <4>1, <5>1 DEF above
        <5>3. 1 \in 1..Len(Readable) /\ Readable[1] = LastLine[1]
          BY <5>2
        <5>4. LastLine[1] \in Known
          BY <4>1, <5>3, SeqElements
        <5>5. QED
          BY <5>2, <5>4
      <4>4. QED
        BY <4>2, <4>3
    <3> HIDE DEF above
    <3>2. \A x : Readable = <<x>> \o above => ToSet(above) \subseteq ToSet(Readable)
      BY <3>1, PutInFront
    <3>3. ToSet(above) \subseteq ToSet(Readable)
      BY <3>1, <3>2
    <3>4. QED
      BY <3>3 DEF above
  <2> DEFINE now == ToSet(acknowledged) \ ToSet(Readable)
             before == ToSet(acknowledged) \ ToSet(Above)
  <2>3. now \subseteq before
    BY <2>2
  <2>4. /\ IsFiniteSet(before) /\ Cardinality(before) \in Nat
        /\ Cardinality(now) \in Nat
    BY <2>1, AckedFinite
  <2>5. Cardinality(now) <= Cardinality(before)
    BY <2>3, <2>4, FS_Subset
  <2>6. Cardinality(before) + (IF Spoiled THEN 1 ELSE 0) <= cuts /\ cuts \in Nat
    BY <2>1 DEF TimelineIInv, Losses, TimelineTypeOK
  <2> HIDE DEF now, before
  <2>7. Cardinality(now) <= cuts
    BY <2>4, <2>5, <2>6
  <2>8. QED
    BY <2>7 DEF now
<1>2. QED
  BY <1>1, TimelineIInvariant, PTL
=============================================================================
