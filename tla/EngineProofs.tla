---------------------------- MODULE EngineProofs ----------------------------
(***************************************************************************)
(* Theorems about what the Engine does to a body: masking hides noise and  *)
(* nothing else, the rules that are learned settle the noise they were     *)
(* learned from, and a mutation changes its target alone.  They hold for   *)
(* all bodies and settings of an endpoint, and use the invariant and the   *)
(* lemmas about the parts of a body of VerdictProofs.                      *)
(***************************************************************************)
EXTENDS VerdictProofs

-----------------------------------------------------------------------------
(* What masking makes is what its reference shows. *)

\* The beginnings of a path that has one segment more.
LEMMA SubSeqAppend ==
  ASSUME NEW path \in Path, NEW s \in Segment
  PROVE  /\ \A n \in 0..Len(path) : SubSeq(Append(path, s), 1, n) = SubSeq(path, 1, n)
         /\ SubSeq(path, 1, Len(path)) = path /\ SubSeq(path, 1, 0) = <<>>
         /\ Len(Append(path, s)) - 1 = Len(path) /\ Len(path) \in Nat
<1>1. path \in Seq(Segment) /\ Len(path) \in Nat /\ Append(path, s) \in Seq(Segment)
  BY DEF Path
<1>2. Len(Append(path, s)) = Len(path) + 1
  BY <1>1
<1>3. ASSUME NEW n \in 0..Len(path) PROVE SubSeq(Append(path, s), 1, n) = SubSeq(path, 1, n)
  <2>1. \A i \in 1..n : Append(path, s)[i] = path[i]
    BY <1>1
  <2>2. SubSeq(Append(path, s), 1, n) = [i \in 1..n |-> Append(path, s)[i]]
    BY <1>1, <1>2
  <2>3. SubSeq(path, 1, n) = [i \in 1..n |-> path[i]]
    BY <1>1
  <2>4. QED
    BY <2>1, <2>2, <2>3
<1>4. QED
  BY <1>1, <1>2, <1>3

\* No rule covers a position above the path.
Free(rules, path) == \A n \in 0..(Len(path) - 1) : RuleFor(rules, SubSeq(path, 1, n)) = 0

\* No rule covers what is above a longer path.
LEMMA FreeAppend ==
  ASSUME NEW rules, NEW path \in Path, NEW s \in Segment
  PROVE  Free(rules, Append(path, s)) <=> Free(rules, path) /\ RuleFor(rules, path) = 0
<1> DEFINE n == Len(path)
           longer == Append(path, s)
           R(q) == RuleFor(rules, q)
<1>1. /\ \A i \in 0..n : SubSeq(longer, 1, i) = SubSeq(path, 1, i)
      /\ SubSeq(path, 1, n) = path /\ Len(longer) - 1 = n /\ n \in Nat
  BY SubSeqAppend
<1>2. Free(rules, longer) <=> \A i \in 0..(Len(longer) - 1) : R(SubSeq(longer, 1, i)) = 0
  BY DEF Free
<1>3. Free(rules, path) <=> \A i \in 0..(n - 1) : R(SubSeq(path, 1, i)) = 0
  BY DEF Free
<1> HIDE DEF R, n, longer
<1>4. Free(rules, longer) <=> \A i \in 0..n : R(SubSeq(path, 1, i)) = 0
  BY <1>1, <1>2
<1>5. \A i \in 0..n : i \in 0..(n - 1) \/ i = n
  BY <1>1
<1>6. \A i \in 0..(n - 1) : i \in 0..n
  BY <1>1
<1>7. n \in 0..n
  BY <1>1
<1>8. Free(rules, longer) <=> Free(rules, path) /\ R(path) = 0
  BY <1>1, <1>3, <1>4, <1>5, <1>6, <1>7
<1>9. QED
  BY <1>8 DEF R, longer

\* masker.rs:221: a field has its own key for its parent, an item that of its array.
LEMMA ParentKeyIs ==
  ASSUME NEW path \in Path
  PROVE  /\ \A k \in STRING : ParentKey(Append(path, Key(k))) = k
         /\ \A i \in Nat : ParentKey(Append(path, Index(i))) = ParentKey(path)
<1> DEFINE n == Len(path)
           Keys(q) == {i \in DOMAIN q : IsKey(q[i])}
<1>1. n \in Nat /\ DOMAIN path = 1..n /\ path \in Seq(Segment)
  BY DEF Path
<1>2. ASSUME NEW s \in Segment
      PROVE  /\ DOMAIN Append(path, s) = 1..(n + 1) /\ Append(path, s)[n + 1] = s
             /\ \A i \in 1..n : Append(path, s)[i] = path[i]
  BY <1>1
<1>3. \A q : ParentKey(q) = IF Keys(q) = {} THEN "$" ELSE q[Max(Keys(q))].key
  BY DEF ParentKey
<1>4. ASSUME NEW k \in STRING PROVE ParentKey(Append(path, Key(k))) = k
  <2> DEFINE q == Append(path, Key(k))
  <2>1. Key(k) \in Segment /\ IsKey(Key(k)) /\ Key(k).key = k
    BY SegmentForms
  <2>2. DOMAIN q = 1..(n + 1) /\ q[n + 1] = Key(k)
    BY <1>2, <2>1
  <2>3. n + 1 \in Keys(q) /\ Keys(q) \subseteq Nat /\ \A i \in Keys(q) : i <= n + 1
    <3> HIDE DEF q, n
    <3>1. Keys(q) \subseteq 1..(n + 1)
      BY <2>2
    <3>2. QED
      BY <1>1, <2>1, <2>2, <3>1
  <2>4. Max(Keys(q)) = n + 1
    <3> HIDE DEF q, n, Keys
    <3>1. QED
      BY <2>3, LargestOf
  <2> HIDE DEF Keys, n
  <2>5. QED
    BY <1>3, <2>1, <2>2, <2>3, <2>4
<1>5. ASSUME NEW i \in Nat PROVE ParentKey(Append(path, Index(i))) = ParentKey(path)
  <2> DEFINE q == Append(path, Index(i))
  <2>1. Index(i) \in Segment /\ ~IsKey(Index(i))
    BY SegmentForms
  <2>2. DOMAIN q = 1..(n + 1) /\ q[n + 1] = Index(i) /\ \A j \in 1..n : q[j] = path[j]
    BY <1>2, <2>1
  <2>3. Keys(q) = Keys(path)
    <3> HIDE DEF q, n
    <3>1. QED
      BY <1>1, <2>1, <2>2
  <2>4. Keys(path) # {} => Max(Keys(path)) \in 1..n
    <3> DEFINE S == Keys(path)
    <3>1. S \subseteq 1..n
      BY <1>1
    <3> HIDE DEF S, n
    <3>2. S # {} => Max(S) \in S
      BY <1>1, <3>1, LargestIn
    <3>3. QED
      BY <3>1, <3>2 DEF S
  <2> HIDE DEF Keys, n
  <2>5. QED
    BY <1>3, <2>2, <2>3, <2>4
<1>6. QED
  BY <1>4, <1>5

\* What masking makes of a leaf that no rule covers.
LeafShown(c, masking) ==
  IF masking.strict /\ IsLeaf(c.value) /\ c.path \notin masking.allowed
  THEN Redacted ELSE MaskLeaf(c.value, c.parent, masking)

\* masker.rs:180: a rule decides what is made of what it covers, ...
LEMMA MaskRuled ==
  ASSUME NEW v, IsBody(v), NEW masking, masking.maxDepth \in Nat, NEW c \in Maskings(v),
         c.depth <= masking.maxDepth, RuleFor(masking.rules, c.path) # 0
  PROVE  Mask(v, masking)[c] = Apply(masking.rules[RuleFor(masking.rules, c.path)], c.value)
<1>1. c.depth \in Nat
  BY MaskingTypes
<1>2. ~(c.depth > masking.maxDepth)
  BY <1>1
<1>3. Mask(v, masking)[c] = MaskCall(Mask(v, masking), c, masking)
  BY MaskIs
<1>4. QED
  BY <1>2, <1>3 DEF MaskCall

\* ... and where there is none, the kind of the value does.
LEMMA MaskOpen ==
  ASSUME NEW v, IsBody(v), NEW masking, masking.maxDepth \in Nat, NEW c \in Maskings(v),
         c.depth <= masking.maxDepth, RuleFor(masking.rules, c.path) = 0
  PROVE  /\ c.value.type = "object" =>
              Mask(v, masking)[c] = Object(MaskFields(Mask(v, masking), c))
         /\ c.value.type = "array" =>
              Mask(v, masking)[c] = Array(MaskItems(Mask(v, masking), c))
         /\ c.value.type \notin Containers => Mask(v, masking)[c] = LeafShown(c, masking)
<1> DEFINE M == Mask(v, masking)
<1>1. c.depth \in Nat
  BY MaskingTypes
<1>2. ~(c.depth > masking.maxDepth)
  BY <1>1
<1>3. M[c] = MaskCall(M, c, masking)
  BY MaskIs
<1> HIDE DEF M
<1>4. c.value.type \in Containers => ~IsLeaf(c.value)
  BY DEF Containers, IsLeaf
<1>5. c.value.type \in Containers =>
        M[c] = CASE c.value.type = "object" -> Object(MaskFields(M, c))
                 [] c.value.type = "array" -> Array(MaskItems(M, c))
                 [] OTHER -> MaskLeaf(c.value, c.parent, masking)
  BY <1>2, <1>3, <1>4 DEF MaskCall
<1>6. c.value.type = "object" => M[c] = Object(MaskFields(M, c))
  BY <1>5 DEF Containers
<1>7. c.value.type = "array" => M[c] = Array(MaskItems(M, c))
  BY <1>5 DEF Containers
<1>8. ASSUME c.value.type \notin Containers PROVE M[c] = LeafShown(c, masking)
  <2>1. c.value.type # "object" /\ c.value.type # "array"
    BY <1>8 DEF Containers
  <2>2. CASE masking.strict /\ IsLeaf(c.value) /\ c.path \notin masking.allowed
    BY <1>2, <1>3, <2>2 DEF MaskCall, LeafShown
  <2>3. CASE ~(masking.strict /\ IsLeaf(c.value) /\ c.path \notin masking.allowed)
    BY <1>2, <1>3, <2>1, <2>3 DEF MaskCall, LeafShown
  <2>4. QED
    BY <2>2, <2>3
<1>9. QED
  BY <1>6, <1>7, <1>8 DEF M

\* Masking comes to a call: no rule covers a position above it, and what the call
\* makes is at its path in the masked body.
Comes(v, masking, c) ==
  /\ c \in Maskings(v) /\ c.depth = Len(c.path) /\ c.parent = ParentKey(c.path)
  /\ c.value \in There(v, c.path)
  /\ Free(masking.rules, c.path)
  /\ Mask(v, masking)[c] \in There(MaskValue(v, masking), c.path)

\* The first call, and the calls on a field and on an item.
Root(v) == MaskingOf(v, <<>>, "$", 0)
OfField(c, k) == MaskingOf(c.value.fields[k], Append(c.path, Key(k)), k, c.depth + 1)
OfItem(c, i) == MaskingOf(c.value.items[i], Append(c.path, Index(i)), c.parent, c.depth + 1)

\* A body is at the empty path.
LEMMA ThereRoot ==
  ASSUME NEW v, IsBody(v)
  PROVE  v \in There(v, <<>>)
<1> DEFINE p == Position(<<>>, v)
<1>1. p \in Positions(v) /\ p.path = <<>> /\ p.value = v
  BY BodyPositions, Fields
<1> HIDE DEF p
<1>2. QED
  BY <1>1 DEF There

\* Masking comes to the body, ...
LEMMA RootComes ==
  ASSUME NEW v, IsBody(v), NEW masking, masking.maxDepth \in Nat
  PROVE  /\ Comes(v, masking, Root(v)) /\ Root(v).path = <<>> /\ Root(v).value = v
         /\ Mask(v, masking)[Root(v)] = MaskValue(v, masking)
<1>1. v \in Values(v) /\ <<>> \in Path
  BY BodyPositions DEF Path
<1>2. /\ Root(v) \in Maskings(v) /\ Root(v).value = v /\ Root(v).path = <<>>
      /\ Root(v).parent = "$" /\ Root(v).depth = 0
  <2>1. "$" \in {"$"} \cup STRING /\ 0 \in Nat
    OBVIOUS
  <2>2. QED
    BY <1>1, <2>1, MaskingIn DEF Root
<1>3. Mask(v, masking)[Root(v)] = MaskValue(v, masking)
  BY DEF MaskValue, Root
<1>4. Len(<<>>) = 0
  OBVIOUS
<1>5. Free(masking.rules, <<>>)
  BY <1>4 DEF Free
<1>6. ParentKey(<<>>) = "$"
  BY DEF ParentKey
<1>7. v \in There(v, <<>>)
  BY ThereRoot
<1>8. IsBody(MaskValue(v, masking))
  BY MaskedBody
<1>9. MaskValue(v, masking) \in There(MaskValue(v, masking), <<>>)
  BY <1>8, ThereRoot
<1>10. QED
  BY <1>2, <1>3, <1>4, <1>5, <1>6, <1>7, <1>9 DEF Comes

\* A masked object has the fields of the object, ...
LEMMA MaskedObject ==
  ASSUME NEW v, IsBody(v), NEW masking, masking.maxDepth \in Nat, NEW c \in Maskings(v),
         c.depth <= masking.maxDepth, RuleFor(masking.rules, c.path) = 0, c.value.type = "object"
  PROVE  /\ Mask(v, masking)[c].type = "object"
         /\ DOMAIN Mask(v, masking)[c].fields = DOMAIN c.value.fields
         /\ \A k \in DOMAIN c.value.fields :
              Mask(v, masking)[c].fields[k] = Mask(v, masking)[OfField(c, k)]
<1> DEFINE M == Mask(v, masking)
<1>1. M[c] = Object(MaskFields(M, c))
  BY MaskOpen
<1>2. Object(MaskFields(M, c)).type = "object" /\ Object(MaskFields(M, c)).fields = MaskFields(M, c)
  BY DEF Object
<1>3. DOMAIN MaskFields(M, c) = DOMAIN c.value.fields
  BY DEF MaskFields
<1>4. \A k \in DOMAIN c.value.fields : MaskFields(M, c)[k] = M[OfField(c, k)]
  BY DEF MaskFields, OfField
<1> HIDE DEF M
<1>5. QED
  BY <1>1, <1>2, <1>3, <1>4 DEF M

\* ... a masked array the items of the array, ...
LEMMA MaskedArray ==
  ASSUME NEW v, IsBody(v), NEW masking, masking.maxDepth \in Nat, NEW c \in Maskings(v),
         c.depth <= masking.maxDepth, RuleFor(masking.rules, c.path) = 0, c.value.type = "array"
  PROVE  /\ Mask(v, masking)[c].type = "array"
         /\ DOMAIN Mask(v, masking)[c].items = DOMAIN c.value.items
         /\ \A i \in DOMAIN c.value.items :
              Mask(v, masking)[c].items[i] = Mask(v, masking)[OfItem(c, i)]
<1> DEFINE M == Mask(v, masking)
<1>1. M[c] = Array(MaskItems(M, c))
  BY MaskOpen
<1>2. Array(MaskItems(M, c)).type = "array" /\ Array(MaskItems(M, c)).items = MaskItems(M, c)
  BY DEF Array
<1>3. DOMAIN MaskItems(M, c) = DOMAIN c.value.items
  BY DEF MaskItems
<1>4. \A i \in DOMAIN c.value.items : MaskItems(M, c)[i] = M[OfItem(c, i)]
  BY DEF MaskItems, OfItem
<1> HIDE DEF M
<1>5. QED
  BY <1>1, <1>2, <1>3, <1>4 DEF M

\* ... and a masked leaf is a leaf.
LEMMA MaskedLeaf ==
  ASSUME NEW v, IsBody(v), NEW masking, masking.maxDepth \in Nat, NEW c \in Maskings(v),
         c.depth <= masking.maxDepth, RuleFor(masking.rules, c.path) = 0, c.value.type \notin Containers
  PROVE  /\ Mask(v, masking)[c] = LeafShown(c, masking)
         /\ Mask(v, masking)[c].type \notin Containers
<1>1. Mask(v, masking)[c] = LeafShown(c, masking)
  BY MaskOpen
<1>2. \A s : Text(s).type = "string"
  BY DEF Text
<1>3. \A s : Text(s).type \notin Containers
  BY <1>2 DEF Containers
<1>4. MaskLeaf(c.value, c.parent, masking).type \notin Containers
  BY <1>3 DEF MaskLeaf
<1>5. Redacted.type \notin Containers
  BY <1>3 DEF Redacted
<1>6. LeafShown(c, masking).type \notin Containers
  BY <1>4, <1>5 DEF LeafShown
<1>7. QED
  BY <1>1, <1>6

\* ... from an object that no rule covers to its fields, ...
LEMMA FieldComes ==
  ASSUME NEW v, IsBody(v), NEW masking, masking.maxDepth \in Nat, NEW c, Comes(v, masking, c),
         c.depth <= masking.maxDepth, RuleFor(masking.rules, c.path) = 0, c.value.type = "object",
         NEW k \in DOMAIN c.value.fields
  PROVE  /\ k \in STRING /\ Comes(v, masking, OfField(c, k))
         /\ OfField(c, k).path = Append(c.path, Key(k)) /\ OfField(c, k).value = c.value.fields[k]
         /\ OfField(c, k).parent = k /\ OfField(c, k).depth = c.depth + 1
<1> DEFINE W == MaskValue(v, masking)
           M == Mask(v, masking)
           d == OfField(c, k)
           s == Key(k)
<1>1. c \in Maskings(v) /\ c.depth = Len(c.path) /\ c.value \in There(v, c.path) /\ M[c] \in There(W, c.path)
      /\ Free(masking.rules, c.path)
  BY DEF Comes
<1>2. c.path \in Path /\ c.depth \in Nat
  BY <1>1, MaskingTypes
<1>3. k \in STRING /\ d \in Maskings(v) /\ s \in Segment
  BY <1>1, FieldMasking, SegmentForms DEF OfField
<1>4. /\ d.path = Append(c.path, s) /\ d.value = c.value.fields[k] /\ d.parent = k /\ d.depth = c.depth + 1
  BY DEF OfField, MaskingOf
<1>5. d.depth = Len(d.path)
  BY <1>1, <1>2, <1>3, <1>4, LongerPath
<1>6. d.parent = ParentKey(d.path)
  <2>1. ParentKey(Append(c.path, Key(k))) = k
    BY <1>2, <1>3, ParentKeyIs
  <2>2. QED
    BY <1>4, <2>1
<1>7. d.value \in There(v, d.path)
  BY <1>1, <1>4, ThereField
<1>8. Free(masking.rules, d.path)
  BY <1>1, <1>2, <1>3, <1>4, FreeAppend
<1>9. M[d] \in There(W, d.path)
  <2>1. IsBody(W)
    BY MaskedBody
  <2>2. M[c].type = "object" /\ k \in DOMAIN M[c].fields /\ M[c].fields[k] = M[d]
    BY <1>1, MaskedObject
  <2> HIDE DEF W, M, d
  <2>3. M[c].fields[k] \in There(W, Append(c.path, s))
    BY <1>1, <2>1, <2>2, ThereField
  <2>4. QED
    BY <1>4, <2>2, <2>3
<1>10. Comes(v, masking, d)
  BY <1>3, <1>5, <1>6, <1>7, <1>8, <1>9 DEF Comes
<1>11. QED
  BY <1>3, <1>4, <1>10

\* ... and from such an array to its items.
LEMMA ItemComes ==
  ASSUME NEW v, IsBody(v), NEW masking, masking.maxDepth \in Nat, NEW c, Comes(v, masking, c),
         c.depth <= masking.maxDepth, RuleFor(masking.rules, c.path) = 0, c.value.type = "array",
         NEW i \in DOMAIN c.value.items
  PROVE  /\ i \in Nat /\ Comes(v, masking, OfItem(c, i))
         /\ OfItem(c, i).path = Append(c.path, Index(i)) /\ OfItem(c, i).value = c.value.items[i]
         /\ OfItem(c, i).parent = c.parent /\ OfItem(c, i).depth = c.depth + 1
<1> DEFINE W == MaskValue(v, masking)
           M == Mask(v, masking)
           d == OfItem(c, i)
           s == Index(i)
<1>1. c \in Maskings(v) /\ c.depth = Len(c.path) /\ c.value \in There(v, c.path) /\ M[c] \in There(W, c.path)
      /\ Free(masking.rules, c.path) /\ c.parent = ParentKey(c.path)
  BY DEF Comes
<1>2. c.path \in Path /\ c.depth \in Nat
  BY <1>1, MaskingTypes
<1>3. i \in Nat /\ d \in Maskings(v) /\ s \in Segment
  BY <1>1, ItemMasking, SegmentForms DEF OfItem
<1>4. /\ d.path = Append(c.path, s) /\ d.value = c.value.items[i] /\ d.parent = c.parent /\ d.depth = c.depth + 1
  BY DEF OfItem, MaskingOf
<1>5. d.depth = Len(d.path)
  BY <1>1, <1>2, <1>3, <1>4, LongerPath
<1>6. d.parent = ParentKey(d.path)
  BY <1>1, <1>2, <1>3, <1>4, ParentKeyIs
<1>0. IsNode(c.value) /\ i \in 1..Len(c.value.items)
  <2>1. IsNode(c.value)
    BY <1>1, ThereOne
  <2>2. QED
    BY <2>1, ItemOf
<1>7. d.value \in There(v, d.path)
  BY <1>0, <1>1, <1>4, ThereItem
<1>8. Free(masking.rules, d.path)
  BY <1>1, <1>2, <1>3, <1>4, FreeAppend
<1>9. M[d] \in There(W, d.path)
  <2>1. IsBody(W)
    BY MaskedBody
  <2>2. M[c].type = "array" /\ i \in DOMAIN M[c].items /\ M[c].items[i] = M[d]
    BY <1>1, MaskedArray
  <2> HIDE DEF W, M, d
  <2>3. IsNode(M[c])
    BY <1>1, <2>1, ThereOne
  <2>4. i \in 1..Len(M[c].items)
    BY <2>2, <2>3, ItemOf
  <2>5. M[c].items[i] \in There(W, Append(c.path, s))
    BY <1>1, <2>1, <2>2, <2>4, ThereItem
  <2>6. QED
    BY <1>4, <2>2, <2>5
<1>10. Comes(v, masking, d)
  BY <1>3, <1>5, <1>6, <1>7, <1>8, <1>9 DEF Comes
<1>11. QED
  BY <1>3, <1>4, <1>10

\* A path that is not empty ends with a segment.
LEMMA PathLonger ==
  ASSUME NEW n \in Nat, NEW path \in Path, Len(path) = n + 1
  PROVE  \E t \in Path : \E s \in Segment : path = Append(t, s) /\ Len(t) = n
<1> DEFINE R == Segment
<1>1. path \in Seq(R) /\ Len(path) = n + 1
  BY DEF Path
<1> HIDE DEF R
<1>2. \E t \in Seq(R) : \E s \in R : path = Append(t, s) /\ Len(t) = n
  <2> DEFINE t == SubSeq(path, 1, n)
             s == path[n + 1]
  <2>1. t \in Seq(R) /\ s \in R /\ path = Append(t, s) /\ Len(t) = n
    BY <1>1
  <2> HIDE DEF t, s
  <2>2. QED
    BY <2>1
<1>3. QED
  BY <1>2 DEF R, Path

\* A path of length 0.
LEMMA PathEmpty ==
  ASSUME NEW path \in Path, Len(path) = 0
  PROVE  path = <<>>
BY DEF Path

\* Joined paths.
LEMMA PathJoin ==
  /\ \A p, q \in Path : p \o q \in Path
  /\ \A p, q \in Path : \A s \in Segment : p \o Append(q, s) = Append(p \o q, s)
<1>1. ASSUME NEW p \in Seq(Segment), NEW q \in Seq(Segment), NEW s \in Segment
      PROVE  p \o Append(q, s) = Append(p \o q, s)
  BY AppendLast
<1>2. \A p, q \in Seq(Segment) : p \o q \in Seq(Segment)
  OBVIOUS
<1>3. QED
  BY <1>1, <1>2 DEF Path

\* No position of the body lies deeper than masking goes.
Within(v, masking) ==
  masking.maxDepth \in Nat /\ \A p \in Positions(v) : Len(p.path) <= masking.maxDepth

\* What is known of a call that masking comes to.
LEMMA ComesWithin ==
  ASSUME NEW v, IsBody(v), NEW masking, Within(v, masking), NEW c, Comes(v, masking, c)
  PROVE  /\ c.depth <= masking.maxDepth /\ masking.maxDepth \in Nat /\ c \in Maskings(v)
         /\ c.path \in Path /\ IsNode(c.value) /\ c.value \in Values(v)
         /\ c.depth = Len(c.path) /\ c.parent = ParentKey(c.path)
<1>1. c \in Maskings(v) /\ c.depth = Len(c.path) /\ c.value \in There(v, c.path) /\ c.parent = ParentKey(c.path)
  BY DEF Comes
<1>2. PICK p \in Positions(v) : p.path = c.path
  BY <1>1 DEF There
<1>3. Len(c.path) <= masking.maxDepth
  BY <1>2 DEF Within
<1>4. c.path \in Path /\ IsNode(c.value) /\ c.value \in Values(v)
  BY <1>1, ThereOne
<1>5. QED
  BY <1>1, <1>3, <1>4 DEF Within

\* Masking comes to what a child of a value is, unless a rule covers the value.
LEMMA ChildComes ==
  ASSUME NEW v, IsBody(v), NEW masking, Within(v, masking), NEW c, Comes(v, masking, c),
         RuleFor(masking.rules, c.path) = 0, NEW d \in Children(c.value)
  PROVE  \E e : Comes(v, masking, e) /\ e.path = Append(c.path, d.segment) /\ e.value = d.value
<1>1. c.depth <= masking.maxDepth /\ masking.maxDepth \in Nat
  BY ComesWithin
<1>2. CASE c.value.type = "object" /\ \E k \in DOMAIN c.value.fields : d = [segment |-> Key(k), value |-> c.value.fields[k]]
  <2>1. PICK k \in DOMAIN c.value.fields : d = [segment |-> Key(k), value |-> c.value.fields[k]]
    BY <1>2
  <2>2. Comes(v, masking, OfField(c, k)) /\ OfField(c, k).path = Append(c.path, Key(k))
        /\ OfField(c, k).value = c.value.fields[k]
    BY <1>1, <1>2, FieldComes
  <2>3. QED
    BY <2>1, <2>2
<1>3. CASE c.value.type = "array" /\ \E i \in DOMAIN c.value.items : d = [segment |-> Index(i), value |-> c.value.items[i]]
  <2>1. PICK i \in DOMAIN c.value.items : d = [segment |-> Index(i), value |-> c.value.items[i]]
    BY <1>3
  <2>2. Comes(v, masking, OfItem(c, i)) /\ OfItem(c, i).path = Append(c.path, Index(i))
        /\ OfItem(c, i).value = c.value.items[i]
    BY <1>1, <1>3, ItemComes
  <2>3. QED
    BY <2>1, <2>2
<1>4. QED
  BY <1>2, <1>3, ChildForms

\* Masking comes to all that no rule covers from above.
LEMMA ComesTo ==
  ASSUME NEW v, IsBody(v), NEW masking, Within(v, masking)
  PROVE  \A n \in Nat : \A path \in Path : \A x \in There(v, path) :
           Len(path) = n /\ Free(masking.rules, path)
             => \E c : Comes(v, masking, c) /\ c.path = path /\ c.value = x
<1> DEFINE To(path, x) == \E c : Comes(v, masking, c) /\ c.path = path /\ c.value = x
           T == {n \in Nat : \A path \in Path : \A x \in There(v, path) :
                   Len(path) = n /\ Free(masking.rules, path) => To(path, x)}
<1>1. 0 \in T
  <2>1. ASSUME NEW path \in Path, NEW x \in There(v, path), Len(path) = 0 PROVE To(path, x)
    <3>1. path = <<>>
      BY <2>1, PathEmpty
    <3>2. x = v
      BY <3>1, ThereOne, ThereRoot
    <3>3. QED
      BY <3>1, <3>2, RootComes DEF Within
  <2> HIDE DEF To
  <2>2. QED
    BY <2>1
<1>2. ASSUME NEW n \in Nat, n \in T PROVE n + 1 \in T
  <2>1. ASSUME NEW path \in Path, NEW x \in There(v, path), Len(path) = n + 1, Free(masking.rules, path)
        PROVE  To(path, x)
    <3>1. PICK t \in Path : \E s \in Segment : path = Append(t, s) /\ Len(t) = n
      BY <2>1, PathLonger
    <3>a. PICK s \in Segment : path = Append(t, s) /\ Len(t) = n
      BY <3>1
    <3>2. PICK y \in There(v, t) : \E d \in Children(y) : d.value = x /\ d.segment = s
      BY <2>1, <3>a, ThereAbove
    <3>3. PICK d \in Children(y) : path = Append(t, s) /\ Len(t) = n /\ d.value = x /\ d.segment = s
      BY <3>a, <3>2
    <3>4. Free(masking.rules, t) /\ RuleFor(masking.rules, t) = 0
      BY <2>1, <3>3, FreeAppend
    <3>5. To(t, y)
      <4> HIDE DEF To
      <4>1. QED
        BY <1>2, <3>3, <3>4
    <3>6. PICK c : Comes(v, masking, c) /\ c.path = t /\ c.value = y
      BY <3>5
    <3>b. d \in Children(c.value) /\ RuleFor(masking.rules, c.path) = 0
      BY <3>4, <3>6
    <3>7. \E e : Comes(v, masking, e) /\ e.path = Append(c.path, d.segment) /\ e.value = d.value
      BY <3>6, <3>b, ChildComes
    <3>8. QED
      BY <3>3, <3>6, <3>7
  <2> HIDE DEF To
  <2>2. QED
    BY <2>1
<1>3. Nat \subseteq T
  <2> HIDE DEF T
  <2>1. QED
    BY <1>1, <1>2, SetInduction
<1>4. QED
  BY <1>3

\* What masking makes of a call is a body.
LEMMA MadeBody ==
  ASSUME NEW v, IsBody(v), NEW masking, Within(v, masking), NEW c, Comes(v, masking, c)
  PROVE  IsBody(Mask(v, masking)[c]) /\ IsBody(MaskValue(v, masking))
<1>1. IsBody(MaskValue(v, masking))
  BY MaskedBody DEF Within
<1>2. Mask(v, masking)[c] \in There(MaskValue(v, masking), c.path)
  BY DEF Comes
<1>3. Mask(v, masking)[c] \in Values(MaskValue(v, masking))
  BY <1>1, <1>2, ThereOne
<1>4. QED
  BY <1>1, <1>3, ValueOf

\* All that a masked body holds is made by a call that masking comes to: as a whole,
\* or as a part of what a rule leaves there.
From(v, masking, c, t, w) ==
  /\ Comes(v, masking, c) /\ w \in There(Mask(v, masking)[c], t)
  /\ RuleFor(masking.rules, c.path) = 0 => t = <<>>

\* All that a masked body holds comes from such a call.
LEMMA ComesFrom ==
  ASSUME NEW v, IsBody(v), NEW masking, Within(v, masking)
  PROVE  \A n \in Nat : \A path \in Path : \A w \in There(MaskValue(v, masking), path) :
           Len(path) = n => \E c : \E t \in Path : path = c.path \o t /\ From(v, masking, c, t, w)
<1> DEFINE W == MaskValue(v, masking)
           Made(path, w) == \E c : \E t \in Path : path = c.path \o t /\ From(v, masking, c, t, w)
           T == {n \in Nat : \A path \in Path : \A w \in There(W, path) : Len(path) = n => Made(path, w)}
<1>0. IsBody(W) /\ masking.maxDepth \in Nat
  BY MaskedBody DEF Within
<1>a. ASSUME NEW c, Comes(v, masking, c)
      PROVE  From(v, masking, c, <<>>, Mask(v, masking)[c]) /\ c.path \o <<>> = c.path /\ <<>> \in Path
  <2>1. IsBody(Mask(v, masking)[c])
    BY <1>a, MadeBody
  <2>2. Mask(v, masking)[c] \in There(Mask(v, masking)[c], <<>>)
    BY <2>1, ThereRoot
  <2>3. c.path \in Path
    BY <1>a, ComesWithin
  <2>4. c.path \o <<>> = c.path /\ <<>> \in Path
    BY <2>3 DEF Path
  <2>5. QED
    BY <1>a, <2>2, <2>4 DEF From
<1>1. 0 \in T
  <2>1. ASSUME NEW path \in Path, NEW w \in There(W, path), Len(path) = 0 PROVE Made(path, w)
    <3>1. path = <<>>
      BY <2>1, PathEmpty
    <3>2. w = W
      BY <1>0, <3>1, ThereOne, ThereRoot
    <3>3. /\ Comes(v, masking, Root(v)) /\ Root(v).path = <<>>
          /\ Mask(v, masking)[Root(v)] = W
      BY <1>0, RootComes
    <3> HIDE DEF W
    <3>4. From(v, masking, Root(v), <<>>, w) /\ path = Root(v).path \o <<>> /\ <<>> \in Path
      BY <1>a, <3>1, <3>2, <3>3
    <3>5. QED
      BY <3>4
  <2> HIDE DEF Made
  <2>2. QED
    BY <2>1
<1>2. ASSUME NEW n \in Nat, n \in T PROVE n + 1 \in T
  <2>1. ASSUME NEW path \in Path, NEW w \in There(W, path), Len(path) = n + 1 PROVE Made(path, w)
    <3>1. PICK t \in Path : \E s \in Segment : path = Append(t, s) /\ Len(t) = n
      BY <2>1, PathLonger
    <3>a. PICK s \in Segment : path = Append(t, s) /\ Len(t) = n
      BY <3>1
    <3>2. PICK y \in There(W, t) : \E d \in Children(y) : d.value = w /\ d.segment = s
      BY <1>0, <2>1, <3>a, ThereAbove
    <3>3. PICK d \in Children(y) : path = Append(t, s) /\ Len(t) = n /\ d.value = w /\ d.segment = s
      BY <3>a, <3>2
    <3>4. Made(t, y)
      <4> HIDE DEF Made
      <4>1. QED
        BY <1>2, <3>3
    <3>5. PICK c : \E u \in Path : t = c.path \o u /\ From(v, masking, c, u, y)
      BY <3>4
    <3>6. PICK u \in Path : t = c.path \o u /\ From(v, masking, c, u, y)
      BY <3>5
    <3>7. /\ Comes(v, masking, c) /\ y \in There(Mask(v, masking)[c], u) /\ IsBody(Mask(v, masking)[c])
          /\ c.path \in Path
      BY <3>6, MadeBody, ComesWithin DEF From
    <3>8. CASE RuleFor(masking.rules, c.path) # 0
      <4>1. w \in There(Mask(v, masking)[c], Append(u, s))
        BY <3>3, <3>7, ThereBelow
      <4>2. Append(u, s) \in Path
        BY LongerPath
      <4>3. path = c.path \o Append(u, s)
        <5>2. c.path \o Append(u, s) = Append(c.path \o u, s)
          BY <3>7, PathJoin
        <5>3. QED
          BY <3>3, <3>6, <5>2
      <4>4. From(v, masking, c, Append(u, s), w)
        BY <3>7, <3>8, <4>1 DEF From
      <4>5. QED
        BY <4>2, <4>3, <4>4
    <3>9. CASE RuleFor(masking.rules, c.path) = 0
      <4>1. u = <<>> /\ t = c.path
        <5>1. u = <<>>
          BY <3>6, <3>9 DEF From
        <5>2. c.path \o <<>> = c.path
          BY <1>a, <3>7
        <5>3. QED
          BY <3>6, <5>1, <5>2
      <4>2. y = Mask(v, masking)[c]
        BY <3>7, <4>1, ThereOne, ThereRoot
      <4>3. c \in Maskings(v) /\ c.depth <= masking.maxDepth
        BY <3>7, ComesWithin
      <4>4. \E e : Comes(v, masking, e) /\ e.path = Append(c.path, d.segment) /\ Mask(v, masking)[e] = d.value
        <5>1. CASE c.value.type = "object"
          <6>1. y.type = "object" /\ DOMAIN y.fields = DOMAIN c.value.fields
                /\ \A k \in DOMAIN c.value.fields : y.fields[k] = Mask(v, masking)[OfField(c, k)]
            BY <1>0, <3>9, <4>2, <4>3, <5>1, MaskedObject
          <6>2. PICK k \in DOMAIN y.fields : d = [segment |-> Key(k), value |-> y.fields[k]]
            BY <6>1, ChildForms
          <6>3. Comes(v, masking, OfField(c, k)) /\ OfField(c, k).path = Append(c.path, Key(k))
            BY <1>0, <3>7, <3>9, <4>3, <5>1, <6>1, <6>2, FieldComes
          <6>4. Mask(v, masking)[OfField(c, k)] = d.value /\ d.segment = Key(k)
            BY <6>1, <6>2
          <6>5. QED
            BY <6>3, <6>4
        <5>2. CASE c.value.type = "array"
          <6>1. y.type = "array" /\ DOMAIN y.items = DOMAIN c.value.items
                /\ \A i \in DOMAIN c.value.items : y.items[i] = Mask(v, masking)[OfItem(c, i)]
            BY <1>0, <3>9, <4>2, <4>3, <5>2, MaskedArray
          <6>2. PICK i \in DOMAIN y.items : d = [segment |-> Index(i), value |-> y.items[i]]
            BY <6>1, ChildForms
          <6>3. Comes(v, masking, OfItem(c, i)) /\ OfItem(c, i).path = Append(c.path, Index(i))
            BY <1>0, <3>7, <3>9, <4>3, <5>2, <6>1, <6>2, ItemComes
          <6>4. Mask(v, masking)[OfItem(c, i)] = d.value /\ d.segment = Index(i)
            BY <6>1, <6>2
          <6>5. QED
            BY <6>3, <6>4
        <5>3. CASE c.value.type \notin Containers
          <6>1. y.type \notin Containers
            BY <1>0, <3>9, <4>2, <4>3, <5>3, MaskedLeaf
          <6>2. QED
            BY <6>1, ChildForms DEF Containers
        <5>4. QED
          BY <5>1, <5>2, <5>3 DEF Containers
      <4>5. PICK e : Comes(v, masking, e) /\ e.path = Append(c.path, d.segment) /\ Mask(v, masking)[e] = d.value
        BY <4>4
      <4>6. From(v, masking, e, <<>>, w) /\ path = e.path \o <<>> /\ <<>> \in Path
        BY <1>a, <3>3, <4>1, <4>5
      <4>7. QED
        BY <4>6
    <3>10. QED
      BY <3>8, <3>9
  <2> HIDE DEF Made
  <2>2. QED
    BY <2>1
<1>3. Nat \subseteq T
  <2> HIDE DEF T
  <2>1. QED
    BY <1>1, <1>2, SetInduction
<1>4. QED
  BY <1>3

\* No rule that the standard matching finds covers a position above the path.
OpenTo(path) == \A n \in 0..(Len(path) - 1) : ~Ruled(SubSeq(path, 1, n))

\* The same of a path with one segment more.
LEMMA OpenAppend ==
  ASSUME NEW path \in Path, NEW s \in Segment
  PROVE  OpenTo(Append(path, s)) <=> OpenTo(path) /\ ~Ruled(path)
<1> DEFINE n == Len(path)
           longer == Append(path, s)
<1>1. /\ \A i \in 0..n : SubSeq(longer, 1, i) = SubSeq(path, 1, i)
      /\ SubSeq(path, 1, n) = path /\ Len(longer) - 1 = n /\ n \in Nat
  BY SubSeqAppend
<1>2. OpenTo(longer) <=> \A i \in 0..(Len(longer) - 1) : ~Ruled(SubSeq(longer, 1, i))
  BY DEF OpenTo
<1>3. OpenTo(path) <=> \A i \in 0..(n - 1) : ~Ruled(SubSeq(path, 1, i))
  BY DEF OpenTo
<1> HIDE DEF n, longer
<1>4. OpenTo(longer) <=> \A i \in 0..n : ~Ruled(SubSeq(path, 1, i))
  BY <1>1, <1>2
<1>5. \A i \in 0..n : i \in 0..(n - 1) \/ i = n
  BY <1>1
<1>6. \A i \in 0..(n - 1) : i \in 0..n
  BY <1>1
<1>7. n \in 0..n
  BY <1>1
<1>8. OpenTo(longer) <=> OpenTo(path) /\ ~Ruled(path)
  BY <1>1, <1>3, <1>4, <1>5, <1>6, <1>7
<1>9. QED
  BY <1>8 DEF longer

\* Rules that the two matchings agree about, in bodies of some keys.
PlainFor(keys) == DistinctRules /\ PlainRules(keys)

\* masker.rs:281: there, the two matchings agree.
LEMMA OpenAgrees ==
  ASSUME NEW keys, IsSettings(settings), PlainFor(keys),
         NEW path \in Path, KeysIn(path) \subseteq keys, OpenTo(path)
  PROVE  RuleFor(settings.rules, path) = StandardRule(settings.rules, path)
<1> DEFINE rules == settings.rules
<1>1. /\ rules \in Seq({rules[i] : i \in DOMAIN rules})
      /\ \A i \in DOMAIN rules : rules[i].path \in Seq(Segment) /\ rules[i].words \in Seq(STRING)
  BY DEF IsSettings, Path
<1>2. path \in Seq(Segment)
  BY DEF Path
<1>3. \A n \in 0..(Len(path) - 1) : StandardRule(rules, SubSeq(path, 1, n)) = 0
  BY DEF OpenTo, Ruled
<1>4. \A i, j \in DOMAIN rules : rules[i].path = rules[j].path => i = j
  BY DEF DistinctRules, PlainFor
<1>a. \A i \in DOMAIN rules : PlainlyWritten(rules[i].words, rules[i].path, keys)
  BY DEF PlainRules, PlainFor
<1> HIDE DEF rules
<1>5. RuleFor(rules, path) = StandardRule(rules, path)
  BY <1>1, <1>2, <1>3, <1>4, <1>a, RuleMatchersAgree
<1>6. QED
  BY <1>5 DEF rules

\* The keys of a path are those of its beginning, and others.
LEMMA KeysAppend ==
  ASSUME NEW path \in Path, NEW s \in Segment
  PROVE  KeysIn(path) \subseteq KeysIn(Append(path, s))
<1>1. \A i \in DOMAIN path : i \in DOMAIN Append(path, s) /\ Append(path, s)[i] = path[i]
  BY DEF Path
<1>2. QED
  BY <1>1 DEF KeysIn

\* A path is open when no rule covers what is above it.
LEMMA OpenIsFree ==
  ASSUME NEW keys, IsSettings(settings), PlainFor(keys)
  PROVE  \A n \in Nat : \A path \in Path :
           Len(path) = n /\ KeysIn(path) \subseteq keys => (Free(settings.rules, path) <=> OpenTo(path))
<1> DEFINE rules == settings.rules
           T == {n \in Nat : \A path \in Path :
                   Len(path) = n /\ KeysIn(path) \subseteq keys => (Free(rules, path) <=> OpenTo(path))}
<1>1. 0 \in T
  BY DEF Free, OpenTo
<1>2. ASSUME NEW n \in Nat, n \in T PROVE n + 1 \in T
  <2>1. ASSUME NEW path \in Path, Len(path) = n + 1, KeysIn(path) \subseteq keys
        PROVE  Free(rules, path) <=> OpenTo(path)
    <3>1. PICK t \in Path : \E s \in Segment : path = Append(t, s) /\ Len(t) = n
      BY <2>1, PathLonger
    <3>2. PICK s \in Segment : path = Append(t, s) /\ Len(t) = n
      BY <3>1
    <3>a. KeysIn(t) \subseteq keys
      BY <2>1, <3>2, KeysAppend
    <3>3. Free(rules, t) <=> OpenTo(t)
      BY <1>2, <3>2, <3>a
    <3>4. OpenTo(t) => (RuleFor(rules, t) = 0 <=> ~Ruled(t))
      BY <3>a, OpenAgrees DEF Ruled
    <3>5. Free(rules, path) <=> Free(rules, t) /\ RuleFor(rules, t) = 0
      BY <3>2, FreeAppend
    <3>6. OpenTo(path) <=> OpenTo(t) /\ ~Ruled(t)
      BY <3>2, OpenAppend
    <3>7. QED
      BY <3>3, <3>4, <3>5, <3>6
  <2>2. QED
    BY <2>1
<1>3. Nat \subseteq T
  <2> HIDE DEF T
  <2>1. QED
    BY <1>1, <1>2, SetInduction
<1>4. QED
  BY <1>3

\* Where masking comes to is what is seen of a body.
LEMMA SeenComes ==
  ASSUME NEW keys, IsSettings(settings), PlainFor(keys),
         NEW v, KeysOf(v) \subseteq keys, IsBody(v), Within(v, settings)
  PROVE  /\ \A p \in Seen(v) : \E c : Comes(v, settings, c) /\ c.path = p.path /\ c.value = p.value
         /\ \A c : Comes(v, settings, c) =>
              /\ Position(c.path, c.value) \in Seen(v)
              /\ RuleFor(settings.rules, c.path) = StandardRule(settings.rules, c.path)
              /\ Ruled(c.path) <=> RuleFor(settings.rules, c.path) # 0
<1>1. ASSUME NEW p \in Seen(v) PROVE \E c : Comes(v, settings, c) /\ c.path = p.path /\ c.value = p.value
  <2>1. p \in Positions(v) /\ OpenTo(p.path)
    BY DEF Seen, OpenTo
  <2>2. p.path \in Path /\ Len(p.path) \in Nat /\ p.value \in There(v, p.path)
    BY <2>1, BodyPaths DEF There
  <2>a. KeysIn(p.path) \subseteq keys
    BY <2>1, KeysOfPosition
  <2>3. Free(settings.rules, p.path)
    BY <2>1, <2>2, <2>a, OpenIsFree
  <2>4. QED
    BY <2>2, <2>3, ComesTo
<1>2. ASSUME NEW c, Comes(v, settings, c)
      PROVE  /\ Position(c.path, c.value) \in Seen(v)
             /\ RuleFor(settings.rules, c.path) = StandardRule(settings.rules, c.path)
             /\ Ruled(c.path) <=> RuleFor(settings.rules, c.path) # 0
  <2>1. c.value \in There(v, c.path) /\ Free(settings.rules, c.path)
    BY <1>2 DEF Comes
  <2>2. c.path \in Path /\ Len(c.path) \in Nat
    BY <2>1, ThereOne
  <2>4. PICK p \in Positions(v) : p.path = c.path /\ p.value = c.value
    BY <2>1 DEF There
  <2>a. KeysIn(c.path) \subseteq keys
    BY <2>4, KeysOfPosition
  <2>3. OpenTo(c.path)
    BY <2>1, <2>2, <2>a, OpenIsFree
  <2>5. p = Position(c.path, c.value)
    BY <2>4, BodyPaths
  <2>6. p \in Seen(v)
    BY <2>3, <2>4 DEF Seen, OpenTo
  <2>7. RuleFor(settings.rules, c.path) = StandardRule(settings.rules, c.path)
    BY <2>2, <2>3, <2>a, OpenAgrees
  <2>8. QED
    BY <2>5, <2>6, <2>7 DEF Ruled
<1>3. QED
  BY <1>1, <1>2

\* What a part holds is held by the whole.
LEMMA ThereJoin ==
  ASSUME NEW v, IsBody(v), NEW path, NEW x \in There(v, path), NEW t, NEW y \in There(x, t)
  PROVE  y \in There(v, path \o t)
<1>1. PICK p \in Positions(v) : p.path = path /\ p.value = x
  BY DEF There
<1>2. PICK q \in Positions(x) : q.path = t /\ q.value = y
  BY DEF There
<1>3. IsBody(x)
  BY ThereOne, ValueOf
<1>4. PICK k \in Nat : p \in Levels(v)[k]
  BY BodyPositions
<1>5. PICK n \in Nat : q \in Levels(x)[n]
  BY <1>3, BodyPositions
<1> DEFINE o == Position(p.path \o q.path, q.value)
<1>6. o \in Levels(v)[k + n]
  BY <1>1, <1>4, <1>5, Compose
<1>7. o \in Positions(v)
  <2> HIDE DEF o
  <2>1. k + n \in Nat
    OBVIOUS
  <2>2. QED
    BY <1>6, <2>1, BodyPositions
<1>8. o.path = path \o t /\ o.value = y
  BY <1>1, <1>2, Fields
<1> HIDE DEF o
<1>9. QED
  BY <1>7, <1>8 DEF There

\* What shows at a path, by the rules and by the masked body.
ShownAt(v, path, b) == \E p \in Seen(v) : \E q \in Parts(p) : q.path = path /\ Bare(q.value) = b
HeldAt(w, path, b) == \E x \in There(w, path) : Bare(x) = b

\* What bare values are.
LEMMA BareTwice ==
  /\ \A v : v.type \in Containers => Bare(v) = [type |-> v.type] /\ Bare(Bare(v)) = Bare(v)
  /\ \A v : v.type \notin Containers => Bare(v) = v
BY DEF Bare

\* What masking makes of what it comes to is what shows there.
LEMMA RuledShows ==
  ASSUME NEW keys, IsSettings(settings), PlainFor(keys),
         NEW v, KeysOf(v) \subseteq keys, IsBody(v), Within(v, settings),
         NEW c, Comes(v, settings, c), Ruled(c.path)
  PROVE  Parts(Position(c.path, c.value))
           = {Position(c.path \o q.path, q.value) : q \in Positions(Mask(v, settings)[c])}
<1> DEFINE p == Position(c.path, c.value)
           made == Mask(v, settings)[c]
           rule == RuleFor(settings.rules, c.path)
<1>1. p.path = c.path /\ p.value = c.value
  BY Fields
<1>2. rule = StandardRule(settings.rules, c.path) /\ rule # 0
  BY SeenComes
<1>3. c.depth <= settings.maxDepth /\ settings.maxDepth \in Nat /\ c \in Maskings(v)
  BY ComesWithin
<1>4. made = Apply(settings.rules[rule], c.value)
  BY <1>2, <1>3, MaskRuled
<1> HIDE DEF p, made, rule
<1>5. Shown(p) = Apply(settings.rules[rule], c.value)
  BY <1>1, <1>2 DEF Shown
<1>6. Parts(p) = {Position(c.path \o q.path, q.value) : q \in Positions(made)}
  BY <1>1, <1>4, <1>5 DEF Parts
<1>7. QED
  BY <1>6 DEF p, made

\* ... and at one that none covers.
LEMMA OpenShows ==
  ASSUME NEW keys, IsSettings(settings), PlainFor(keys),
         NEW v, KeysOf(v) \subseteq keys, IsBody(v), Within(v, settings),
         NEW c, Comes(v, settings, c), ~Ruled(c.path)
  PROVE  /\ Parts(Position(c.path, c.value)) = {Position(c.path, Shown(Position(c.path, c.value)))}
         /\ Bare(Shown(Position(c.path, c.value))) = Bare(Mask(v, settings)[c])
<1> DEFINE p == Position(c.path, c.value)
           made == Mask(v, settings)[c]
<1>1. p.path = c.path /\ p.value = c.value
  BY Fields
<1>2. RuleFor(settings.rules, c.path) = 0
  BY SeenComes
<1>3. /\ c.depth <= settings.maxDepth /\ settings.maxDepth \in Nat /\ c \in Maskings(v)
      /\ c.parent = ParentKey(c.path)
  BY ComesWithin
<1>4. CASE c.value.type \in Containers
  <2>1. made.type = c.value.type
    <3>1. CASE c.value.type = "object"
      BY <1>2, <1>3, <3>1, MaskedObject
    <3>2. CASE c.value.type = "array"
      BY <1>2, <1>3, <3>2, MaskedArray
    <3>3. QED
      BY <1>4, <3>1, <3>2 DEF Containers
  <2> HIDE DEF p, made
  <2>2. Shown(p) = Bare(c.value)
    BY <1>1, <1>4 DEF Shown
  <2>3. Bare(Shown(p)) = Bare(made)
    BY <1>4, <2>1, <2>2, BareTwice
  <2>4. Parts(p) = {Position(c.path, Shown(p))}
    BY <1>1 DEF Parts
  <2>5. QED
    BY <2>3, <2>4 DEF p, made
<1>5. CASE c.value.type \notin Containers
  <2>1. made = LeafShown(c, settings)
    BY <1>2, <1>3, <1>5, MaskedLeaf
  <2> HIDE DEF p, made
  <2>2. Shown(p) = LeafShown(c, settings)
    BY <1>1, <1>3, <1>5 DEF Shown, LeafShown
  <2>3. Parts(p) = {Position(c.path, Shown(p))}
    BY <1>1 DEF Parts
  <2>4. QED
    BY <2>1, <2>2, <2>3 DEF p, made
<1>6. QED
  BY <1>4, <1>5

\* masker.rs:161: masking makes what the reference for masking shows.
LEMMA ShowsHeld ==
  ASSUME NEW keys, IsSettings(settings), PlainFor(keys),
         NEW v, KeysOf(v) \subseteq keys, IsBody(v), Within(v, settings), NEW path, NEW b
  PROVE  ShownAt(v, path, b) <=> HeldAt(MaskValue(v, settings), path, b)
<1> DEFINE W == MaskValue(v, settings)
           M == Mask(v, settings)
<1>0. IsBody(W)
  BY MaskedBody DEF Within
<1>1. ASSUME NEW p \in Seen(v), NEW q \in Parts(p), q.path = path, Bare(q.value) = b
      PROVE  HeldAt(W, path, b)
  <2>1. PICK c : Comes(v, settings, c) /\ c.path = p.path /\ c.value = p.value
    BY SeenComes
  <2>2. p = Position(c.path, c.value)
    BY <2>1, BodyPaths DEF Seen
  <2>3. M[c] \in There(W, c.path) /\ IsBody(M[c])
    BY <2>1, MadeBody DEF Comes
  <2>4. CASE Ruled(c.path)
    <3>1. Parts(p) = {Position(c.path \o z.path, z.value) : z \in Positions(M[c])}
      BY <2>1, <2>2, <2>4, RuledShows
    <3>2. PICK z \in Positions(M[c]) : q = Position(c.path \o z.path, z.value)
      BY <3>1
    <3>3. z.value \in There(M[c], z.path)
      BY DEF There
    <3>4. z.value \in There(W, c.path \o z.path)
      BY <1>0, <2>3, <3>3, ThereJoin
    <3>5. q.path = c.path \o z.path /\ q.value = z.value
      BY <3>2, Fields
    <3>6. QED
      BY <1>1, <3>4, <3>5 DEF HeldAt
  <2>5. CASE ~Ruled(c.path)
    <3>1. Parts(p) = {Position(c.path, Shown(p))} /\ Bare(Shown(p)) = Bare(M[c])
      BY <2>1, <2>2, <2>5, OpenShows
    <3>2. q.path = c.path /\ q.value = Shown(p)
      BY <3>1, Fields
    <3>3. QED
      BY <1>1, <2>3, <3>1, <3>2 DEF HeldAt
  <2>6. QED
    BY <2>4, <2>5
<1>2. ASSUME NEW w \in There(W, path), Bare(w) = b PROVE ShownAt(v, path, b)
  <2>1. path \in Path /\ Len(path) \in Nat
    BY <1>0, ThereOne
  <2>2. PICK c : \E t \in Path : path = c.path \o t /\ From(v, settings, c, t, w)
    BY <2>1, ComesFrom
  <2>3. PICK t \in Path : path = c.path \o t /\ From(v, settings, c, t, w)
    BY <2>2
  <2>4. Comes(v, settings, c) /\ w \in There(M[c], t) /\ (RuleFor(settings.rules, c.path) = 0 => t = <<>>)
    BY <2>3 DEF From
  <2> DEFINE p == Position(c.path, c.value)
  <2>5. p \in Seen(v) /\ p.path = c.path /\ (Ruled(c.path) <=> RuleFor(settings.rules, c.path) # 0)
    BY <2>4, SeenComes, Fields
  <2>6. CASE Ruled(c.path)
    <3>1. Parts(p) = {Position(c.path \o z.path, z.value) : z \in Positions(M[c])}
      BY <2>4, <2>6, RuledShows
    <3>2. PICK z \in Positions(M[c]) : z.path = t /\ z.value = w
      BY <2>4 DEF There
    <3> DEFINE q == Position(c.path \o z.path, z.value)
    <3>3. q \in Parts(p)
      BY <3>1
    <3>4. q.path = path /\ q.value = w
      BY <2>3, <3>2, Fields
    <3> HIDE DEF q, p
    <3>5. QED
      BY <1>2, <2>5, <3>3, <3>4 DEF ShownAt
  <2>7. CASE ~Ruled(c.path)
    <3>1. t = <<>>
      BY <2>4, <2>5, <2>7
    <3>2. IsBody(M[c])
      BY <2>4, MadeBody
    <3>3. w = M[c]
      BY <2>4, <3>1, <3>2, ThereOne, ThereRoot
    <3>4. Parts(p) = {Position(c.path, Shown(p))} /\ Bare(Shown(p)) = Bare(M[c])
      BY <2>4, <2>7, OpenShows
    <3>5. path = c.path
      <4>1. c.path \in Path
        BY <2>4, ComesWithin
      <4>2. c.path \o <<>> = c.path
        BY <4>1 DEF Path
      <4>3. QED
        BY <2>3, <3>1, <4>2
    <3> DEFINE q == Position(c.path, Shown(p))
    <3>6. q \in Parts(p)
      BY <3>4
    <3>7. q.path = path /\ q.value = Shown(p)
      BY <3>5, Fields
    <3> HIDE DEF q, p
    <3>8. QED
      BY <1>2, <2>5, <3>3, <3>4, <3>6, <3>7 DEF ShownAt
  <2>8. QED
    BY <2>6, <2>7
<1>3. QED
  BY <1>1, <1>2 DEF ShownAt, HeldAt

\* What a body shows at the normal form of a path.
ShowsAt(v, path, b) == \E x \in Held(v, path) : Bare(x) = b

\* The view of a body has the bare positions of the masked body.
LEMMA ViewIs ==
  ASSUME NEW keys, IsSettings(settings), PlainFor(keys),
         NEW v, KeysOf(v) \subseteq keys, IsBody(v), Within(v, settings)
  PROVE  View(v) = {[path |-> NormalPath(p.path), shown |-> Bare(p.value)] : p \in Positions(MaskValue(v, settings))}
<1> DEFINE W == MaskValue(v, settings)
           O(path, b) == [path |-> NormalPath(path), shown |-> b]
           Out == {O(p.path, Bare(p.value)) : p \in Positions(W)}
<1>1. ASSUME NEW o \in View(v) PROVE o \in Out
  <2>1. PICK q \in UNION {Parts(p) : p \in Seen(v)} : o = O(q.path, Bare(q.value))
    BY DEF View
  <2>2. ShownAt(v, q.path, Bare(q.value))
    BY DEF ShownAt
  <2>3. HeldAt(W, q.path, Bare(q.value))
    BY <2>2, ShowsHeld
  <2>4. PICK p \in Positions(W) : p.path = q.path /\ Bare(p.value) = Bare(q.value)
    BY <2>3 DEF HeldAt, There
  <2> HIDE DEF W
  <2>5. QED
    BY <2>1, <2>4
<1>2. ASSUME NEW o \in Out PROVE o \in View(v)
  <2>1. PICK p \in Positions(W) : o = O(p.path, Bare(p.value))
    OBVIOUS
  <2>2. HeldAt(W, p.path, Bare(p.value))
    BY DEF HeldAt, There
  <2>3. ShownAt(v, p.path, Bare(p.value))
    BY <2>2, ShowsHeld
  <2>4. PICK s \in Seen(v) : \E q \in Parts(s) : q.path = p.path /\ Bare(q.value) = Bare(p.value)
    BY <2>3 DEF ShownAt
  <2>5. PICK q \in Parts(s) : q.path = p.path /\ Bare(q.value) = Bare(p.value)
    BY <2>4
  <2>6. o = O(q.path, Bare(q.value)) /\ q \in UNION {Parts(z) : z \in Seen(v)}
    BY <2>1, <2>5
  <2>7. QED
    BY <2>6 DEF View
<1>3. QED
  BY <1>1, <1>2

\* Two views are one when the masked bodies show the same at every path.
LEMMA ViewsAgree ==
  ASSUME NEW keys, IsSettings(settings), PlainFor(keys),
         NEW v, KeysOf(v) \subseteq keys, IsBody(v), Within(v, settings),
         NEW u, KeysOf(u) \subseteq keys, IsBody(u), Within(u, settings)
  PROVE  View(v) = View(u) <=>
           \A path, b : ShowsAt(MaskValue(v, settings), path, b) <=> ShowsAt(MaskValue(u, settings), path, b)
<1> DEFINE O(path, b) == [path |-> path, shown |-> b]
           Out(w) == {O(NormalPath(p.path), Bare(p.value)) : p \in Positions(w)}
<1>1. View(v) = Out(MaskValue(v, settings)) /\ View(u) = Out(MaskValue(u, settings))
  BY ViewIs
<1>2. \A path, b, q, c : O(path, b) = O(q, c) => path = q /\ b = c
  OBVIOUS
<1>3. ASSUME NEW w, NEW path, NEW b PROVE ShowsAt(w, path, b) <=> O(path, b) \in Out(w)
  <2>1. ShowsAt(w, path, b) <=> \E p \in Positions(w) : NormalPath(p.path) = path /\ Bare(p.value) = b
    BY DEF ShowsAt, Held
  <2>2. O(path, b) \in Out(w) <=> \E p \in Positions(w) : O(path, b) = O(NormalPath(p.path), Bare(p.value))
    OBVIOUS
  <2> HIDE DEF O
  <2>3. QED
    BY <1>2, <2>1, <2>2
<1>4. ASSUME NEW w, NEW o \in Out(w) PROVE \E path, b : o = O(path, b)
  OBVIOUS
<1> HIDE DEF O, Out
<1>5. QED
  BY <1>1, <1>3, <1>4

-----------------------------------------------------------------------------
(* Only what is noise is hidden. *)

\* Where positions are apart, one value at most is held at a path.
LEMMA HeldOne ==
  ASSUME NEW v, Apart(v), NEW path, NEW x \in Held(v, path), NEW w \in Held(v, path)
  PROVE  x = w
<1>1. PICK p \in Positions(v) : NormalPath(p.path) = path /\ p.value = x
  BY DEF Held
<1>2. PICK q \in Positions(v) : NormalPath(q.path) = path /\ q.value = w
  BY DEF Held
<1>3. p = q
  BY <1>1, <1>2 DEF Apart
<1>4. QED
  BY <1>1, <1>2, <1>3

\* A body is held at the empty path.
LEMMA HeldRoot ==
  ASSUME NfcOfTexts, NEW v, IsBody(v)
  PROVE  v \in Held(v, <<>>) /\ <<>> \in Path
<1> DEFINE p == Position(<<>>, v)
<1>1. p \in Positions(v) /\ p.path = <<>> /\ p.value = v
  BY BodyPositions, Fields
<1>2. NormalPath(<<>>) = <<>>
  BY NormalTyped
<1> HIDE DEF p
<1>3. v \in Held(v, <<>>)
  BY <1>1, <1>2 DEF Held
<1>4. QED
  BY <1>3 DEF Path

\* What holds something is a path.
LEMMA HeldPath ==
  ASSUME NfcOfTexts, NEW v, IsBody(v), NEW path, NEW x \in Held(v, path)
  PROVE  path \in Path /\ Len(path) \in Nat
<1>1. PICK p \in Positions(v) : NormalPath(p.path) = path
  BY DEF Held
<1>2. p.path \in Path /\ Len(p.path) \in Nat
  BY <1>1, BodyPaths
<1>3. NormalPath(p.path) \in Path /\ Len(NormalPath(p.path)) = Len(p.path)
  BY <1>2, NormalTyped
<1>4. QED
  BY <1>1, <1>2, <1>3

\* Leaves that agree are equal, where there is no tolerance.
LEMMA SameLeaves ==
  ASSUME NEW x, IsNode(x), NEW y, IsNode(y), settings.epsilon = 0, x.type \notin Containers, NEW f, NEW path
  PROVE  SameParts(f, x, y, path) <=> x = y
<1>1. x.type # "object" /\ x.type # "array"
  BY DEF Containers
<1>2. CASE x.type = "number"
  <2>1. x = Number(x.num) /\ x.num \in Int
    BY <1>2, NumberNode
  <2>2. y.type = "number" => y = Number(y.num) /\ y.num \in Int
    BY NumberNode
  <2>3. SameParts(f, x, y, path) <=> y.type = "number" /\ x.num - y.num \in (-0)..0
    BY <1>2 DEF SameParts
  <2>4. y.type = "number" => (x.num - y.num \in (-0)..0 <=> x.num = y.num)
    BY <2>1, <2>2
  <2>5. y.type = "number" /\ x.num = y.num => x = y
    BY <2>1, <2>2
  <2>6. QED
    BY <1>2, <2>3, <2>4, <2>5
<1>3. CASE x.type # "number"
  BY <1>1, <1>3 DEF SameParts
<1>4. QED
  BY <1>2, <1>3

\* Bare values that are equal are of one type, and leaves among them are equal.
LEMMA BareEqual ==
  ASSUME NEW x, NEW y, Bare(x) = Bare(y)
  PROVE  x.type = y.type /\ (x.type \notin Containers => x = y)
<1>1. \A t : [type |-> t].type = t
  OBVIOUS
<1>2. Bare(x).type = x.type /\ Bare(y).type = y.type
  BY <1>1 DEF Bare
<1>3. x.type = y.type
  BY <1>2
<1>4. QED
  BY <1>3 DEF Bare

\* Two bodies show the same at every path.
ShowAlike(e, a) == \A path, b : ShowsAt(e, path, b) <=> ShowsAt(a, path, b)

\* Bodies that show the same agree.
LEMMA AlikeSame ==
  ASSUME NfcOfTexts, NEW e, IsBody(e), Apart(e), NEW a, IsBody(a), Apart(a), ShowAlike(e, a),
         settings.epsilon = 0, settings.setPaths = {}
  PROVE  \A r \in Nat : \A path \in Path : \A x \in Held(e, path), y \in Held(a, path) :
           Levels(x)[r] = {} => Sameness(e, a)[Pair(x, y, path)]
<1> DEFINE S == Sameness(e, a)
           T == {r \in Nat : \A path \in Path : \A x \in Held(e, path), y \in Held(a, path) :
                   Levels(x)[r] = {} => S[Pair(x, y, path)]}
<1>a. \A q \in Pairs(e, a) : S[q] = SameParts(S, q.expected, q.actual, q.path)
  BY SameIs
<1>b. ASSUME NEW path, NEW x \in Held(e, path) PROVE Held(a, path) # {}
  <2>1. ShowsAt(e, path, Bare(x))
    BY DEF ShowsAt
  <2>2. QED
    BY <2>1 DEF ShowAlike, ShowsAt
<1>c. ASSUME NEW path, NEW y \in Held(a, path) PROVE Held(e, path) # {}
  <2>1. ShowsAt(a, path, Bare(y))
    BY DEF ShowsAt
  <2>2. QED
    BY <2>1 DEF ShowAlike, ShowsAt
<1> HIDE DEF S
<1>1. 0 \in T
  BY LevelSteps
<1>2. ASSUME NEW r \in Nat, r \in T PROVE r + 1 \in T
  <2>1. ASSUME NEW path \in Path, NEW x \in Held(e, path), NEW y \in Held(a, path), Levels(x)[r + 1] = {}
        PROVE  S[Pair(x, y, path)]
    <3>1. x \in Values(e) /\ IsNode(x) /\ y \in Values(a) /\ IsNode(y)
      BY HeldValue
    <3>2. Pair(x, y, path) \in Pairs(e, a) /\ S[Pair(x, y, path)] = SameParts(S, x, y, path)
      BY <1>a, <3>1, PairIn
    <3>3. Bare(x) = Bare(y)
      <4>1. ShowsAt(a, path, Bare(x))
        BY DEF ShowAlike, ShowsAt
      <4>2. PICK w \in Held(a, path) : Bare(w) = Bare(x)
        BY <4>1 DEF ShowsAt
      <4>3. w = y
        BY HeldOne
      <4>4. QED
        BY <4>2, <4>3
    <3>4. x.type = y.type /\ (x.type \notin Containers => x = y)
      BY <3>3, BareEqual
    <3>5. CASE x.type \notin Containers
      BY <3>1, <3>2, <3>4, <3>5, SameLeaves
    <3>6. CASE x.type = "object"
      <4> DEFINE old == Normalized(x.fields, settings)
                 new == Normalized(y.fields, settings)
                 At(k) == Append(path, Key(k))
      <4>1. \A k \in DOMAIN old : k \in STRING /\ old[k] \in Held(e, At(k))
        BY <3>6, FieldHeld
      <4>2. \A k \in DOMAIN new : k \in STRING /\ new[k] \in Held(a, At(k))
        BY <3>4, <3>6, FieldHeld
      <4>3. \A k \in STRING : k \notin DOMAIN old => Held(e, At(k)) = {}
        BY <3>6, FieldGone
      <4>4. \A k \in STRING : k \notin DOMAIN new => Held(a, At(k)) = {}
        BY <3>4, <3>6, FieldGone
      <4>5. DOMAIN old = DOMAIN new
        <5> HIDE DEF old, new, At
        <5>1. QED
          BY <1>b, <1>c, <4>1, <4>2, <4>3, <4>4
      <4>6. ASSUME NEW k \in DOMAIN old PROVE S[Pair(old[k], new[k], At(k))]
        <5>1. At(k) \in Path
          BY <4>1, SegmentForms, LongerPath
        <5>2. PICK c \in Children(x) : c.value = old[k]
          BY <3>1, <3>6, FieldsBelow
        <5>3. Levels(c.value)[r] = {}
          BY <2>1, <5>2, ChildLower
        <5> HIDE DEF old, new, At
        <5>4. QED
          BY <1>2, <4>1, <4>2, <4>5, <5>1, <5>2, <5>3
      <4>7. SameParts(S, x, y, path)
        BY <3>4, <3>6, <4>5, <4>6 DEF SameParts
      <4>8. QED
        BY <3>2, <4>7
    <3>7. CASE x.type = "array"
      <4> DEFINE m == Len(x.items)
                 n == Len(y.items)
                 At(i) == Append(path, Index(i))
      <4>1. \A i \in 1..m : i \in Nat /\ x.items[i] \in Held(e, At(i))
        BY <3>7, ItemHeld
      <4>2. \A i \in 1..n : i \in Nat /\ y.items[i] \in Held(a, At(i))
        BY <3>4, <3>7, ItemHeld
      <4>3. \A i \in Nat : i \notin 1..m => Held(e, At(i)) = {}
        BY <3>7, ItemGone
      <4>4. \A i \in Nat : i \notin 1..n => Held(a, At(i)) = {}
        BY <3>4, <3>7, ItemGone
      <4>5. m \in Nat /\ n \in Nat /\ DOMAIN x.items = 1..m /\ DOMAIN y.items = 1..n
        BY <3>1, <3>4, <3>7, ItemOf
      <4>6. \A i \in Nat : i \in 1..m <=> i \in 1..n
        <5> HIDE DEF m, n, At
        <5>1. QED
          BY <1>b, <1>c, <4>1, <4>2, <4>3, <4>4
      <4>7. m = n
        <5> HIDE DEF m, n, At
        <5>1. m >= 1 => m <= n
          BY <4>5, <4>6
        <5>2. n >= 1 => n <= m
          BY <4>5, <4>6
        <5>3. QED
          BY <4>5, <5>1, <5>2
      <4>8. ASSUME NEW i \in 1..m PROVE S[Pair(x.items[i], y.items[i], At(i))]
        <5>1. At(i) \in Path
          BY <4>1, SegmentForms, LongerPath
        <5>2. PICK c \in Children(x) : c.value = x.items[i]
          BY <3>1, <3>7, ItemsBelow
        <5>3. Levels(c.value)[r] = {}
          BY <2>1, <5>2, ChildLower
        <5> HIDE DEF m, n, At
        <5>4. QED
          BY <1>2, <4>1, <4>2, <4>7, <5>1, <5>2, <5>3
      <4>9. SameParts(S, x, y, path)
        BY <3>4, <3>7, <4>5, <4>7, <4>8 DEF SameParts
      <4>10. QED
        BY <3>2, <4>9
    <3>8. QED
      BY <3>5, <3>6, <3>7 DEF Containers
  <2>2. QED
    BY <2>1
<1>3. Nat \subseteq T
  <2> HIDE DEF T
  <2>1. QED
    BY <1>1, <1>2, SetInduction
<1>4. QED
  BY <1>3 DEF S

\* What a held object, and a held array, hold below it.
LEMMA ObjectHolds ==
  ASSUME NfcOfTexts, NEW v, IsBody(v), Apart(v), NEW path \in Path, NEW x \in Held(v, path), x.type = "object",
         NEW s \in Segment, NEW w \in Held(v, Append(path, s))
  PROVE  \E k \in DOMAIN Normalized(x.fields, settings) : s = Key(k) /\ w = Normalized(x.fields, settings)[k]
<1> DEFINE old == Normalized(x.fields, settings)
<1>1. PICK c \in Children(x) : c.value = w /\ NormalSegment(c.segment) = s
  BY HeldAbove
<1>2. PICK l \in DOMAIN x.fields : c = [segment |-> Key(l), value |-> x.fields[l]]
  BY ChildForms
<1>3. l \in STRING /\ c.segment = Key(l)
  BY <1>2, HeldValue, FieldOf
<1> DEFINE k == NormalKey(l, settings)
<1>4. s = Key(k) /\ k \in STRING
  <2>1. NormalSegment(Key(l)) = Key(k)
    BY <1>3, NormalTyped
  <2>2. QED
    BY <1>1, <1>3, <2>1 DEF NormalKey, NfcOfTexts
<1> HIDE DEF k
<1>5. k \in DOMAIN old
  BY <1>4, FieldGone
<1>6. old[k] \in Held(v, Append(path, Key(k)))
  BY <1>5, FieldHeld
<1>7. w = old[k]
  BY <1>4, <1>6, HeldOne
<1>8. QED
  BY <1>4, <1>5, <1>7

\* ... below an array, one of its items, ...
LEMMA ArrayHolds ==
  ASSUME NfcOfTexts, NEW v, IsBody(v), Apart(v), NEW path \in Path, NEW x \in Held(v, path), x.type = "array",
         NEW s \in Segment, NEW w \in Held(v, Append(path, s))
  PROVE  \E i \in 1..Len(x.items) : s = Index(i) /\ w = x.items[i]
<1>1. PICK c \in Children(x) : c.value = w /\ NormalSegment(c.segment) = s
  BY HeldAbove
<1>2. PICK i \in DOMAIN x.items : c = [segment |-> Index(i), value |-> x.items[i]]
  BY ChildForms
<1>3. i \in 1..Len(x.items) /\ i \in Nat
  BY HeldValue, ItemOf
<1>4. s = Index(i)
  <2>1. NormalSegment(Index(i)) = Index(i)
    BY <1>3, NormalTyped
  <2>2. QED
    BY <1>1, <1>2, <2>1
<1>5. QED
  BY <1>1, <1>2, <1>3, <1>4

\* ... and below a leaf there is nothing.
LEMMA LeafHolds ==
  ASSUME NfcOfTexts, NEW v, IsBody(v), Apart(v), NEW path \in Path, NEW x \in Held(v, path),
         x.type \notin Containers, NEW s \in Segment
  PROVE  Held(v, Append(path, s)) = {}
<1> SUFFICES ASSUME NEW w \in Held(v, Append(path, s)) PROVE FALSE
  OBVIOUS
<1>1. PICK c \in Children(x) : c.value = w
  BY HeldAbove
<1>2. QED
  BY <1>1, ChildForms DEF Containers

\* What is held lies below something.
LEMMA HeldPrefix ==
  ASSUME NfcOfTexts, NEW v, IsBody(v), NEW t \in Path, NEW s \in Segment, Held(v, Append(t, s)) # {}
  PROVE  Held(v, t) # {}
<1> DEFINE path == Append(t, s)
           n == Len(t)
<1>1. PICK p \in Positions(v) : NormalPath(p.path) = path
  BY DEF Held
<1>2. n \in Nat /\ path \in Path /\ Len(path) = n + 1
  BY LongerPath
<1>3. p.path \in Path /\ p.value \in There(v, p.path)
  BY BodyPaths DEF There
<1>4. Len(p.path) = n + 1
  BY <1>1, <1>2, <1>3, NormalTyped
<1> HIDE DEF n, path
<1>5. PICK z \in Path : \E i \in Segment : p.path = Append(z, i) /\ Len(z) = n
  BY <1>2, <1>3, <1>4, PathLonger
<1>6. PICK i \in Segment : p.path = Append(z, i) /\ Len(z) = n
  BY <1>5
<1>7. PICK o \in There(v, z) : TRUE
  BY <1>3, <1>6, ThereAbove
<1>8. NormalPath(z) = t
  <2> DEFINE g == NormalPath(z)
             h == NormalSegment(i)
  <2>1. g \in Path /\ h \in Segment
    BY NormalTyped
  <2>2. Append(g, h) = Append(t, s)
    BY <1>1, <1>6, NormalAppend DEF path
  <2> HIDE DEF g, h
  <2>3. g = t /\ h = s
    BY <2>1, <2>2 DEF Path
  <2>4. QED
    BY <2>3 DEF g
<1>9. o \in Held(v, t)
  BY <1>7, <1>8 DEF Held, There
<1>10. QED
  BY <1>9

\* Parts that agree hold parts that agree.
LEMMA SameBelow ==
  ASSUME NfcOfTexts, NEW e, IsBody(e), Apart(e), NEW a, IsBody(a), Apart(a), settings.setPaths = {},
         NEW path \in Path, NEW x \in Held(e, path), NEW y \in Held(a, path), NEW f,
         SameParts(f, x, y, path), NEW s \in Segment
  PROVE  /\ \A w \in Held(e, Append(path, s)) : \E u \in Held(a, Append(path, s)) : f[Pair(w, u, Append(path, s))]
         /\ \A u \in Held(a, Append(path, s)) : \E w \in Held(e, Append(path, s)) : f[Pair(w, u, Append(path, s))]
<1> DEFINE at == Append(path, s)
<1>1. x.type = y.type
  BY DEF SameParts
<1>2. CASE x.type = "object"
  <2> DEFINE old == Normalized(x.fields, settings)
             new == Normalized(y.fields, settings)
  <2>1. DOMAIN old = DOMAIN new /\ \A k \in DOMAIN old : f[Pair(old[k], new[k], Append(path, Key(k)))]
    BY <1>2 DEF SameParts
  <2>2. \A w \in Held(e, at) : \E k \in DOMAIN old : s = Key(k) /\ w = old[k]
    BY <1>2, ObjectHolds
  <2>0. y.type = "object"
    BY <1>1, <1>2
  <2>3. \A u \in Held(a, at) : \E k \in DOMAIN new : s = Key(k) /\ u = new[k]
    BY <2>0, ObjectHolds
  <2>4. \A k \in DOMAIN old : old[k] \in Held(e, Append(path, Key(k)))
    BY <1>2, FieldHeld
  <2>5. \A k \in DOMAIN new : new[k] \in Held(a, Append(path, Key(k)))
    BY <1>1, <1>2, FieldHeld
  <2> HIDE DEF old, new
  <2>6. QED
    BY <2>1, <2>2, <2>3, <2>4, <2>5
<1>3. CASE x.type = "array"
  <2> DEFINE n == Len(x.items)
             m == Len(y.items)
  <2>0. y.type = "array"
    BY <1>1, <1>3
  <2>1. IsNode(x) /\ IsNode(y)
    BY HeldValue
  <2>2. DOMAIN x.items = 1..n
    BY <1>3, <2>1, ItemOf
  <2>3. n = m /\ \A i \in 1..n : f[Pair(x.items[i], y.items[i], Append(path, Index(i)))]
    BY <1>3, <2>2 DEF SameParts
  <2>4. \A w \in Held(e, at) : \E i \in 1..n : s = Index(i) /\ w = x.items[i]
    BY <1>3, ArrayHolds
  <2>5. \A u \in Held(a, at) : \E i \in 1..m : s = Index(i) /\ u = y.items[i]
    BY <2>0, ArrayHolds
  <2>6. \A i \in 1..n : x.items[i] \in Held(e, Append(path, Index(i)))
    BY <1>3, ItemHeld
  <2>7. \A i \in 1..m : y.items[i] \in Held(a, Append(path, Index(i)))
    BY <1>1, <1>3, ItemHeld
  <2> HIDE DEF n, m
  <2>8. QED
    BY <2>3, <2>4, <2>5, <2>6, <2>7
<1>4. CASE x.type \notin Containers
  BY <1>1, <1>4, LeafHolds
<1>5. QED
  BY <1>2, <1>3, <1>4 DEF Containers

\* Bodies that agree show the same.
LEMMA SameAlike ==
  ASSUME NfcOfTexts, NEW e, IsBody(e), Apart(e), NEW a, IsBody(a), Apart(a), settings.epsilon = 0,
         settings.setPaths = {}, Same(e, a, <<>>)
  PROVE  ShowAlike(e, a)
<1> DEFINE S == Sameness(e, a)
           Meet(path) ==
             /\ \A x \in Held(e, path) : \E y \in Held(a, path) : S[Pair(x, y, path)]
             /\ \A y \in Held(a, path) : \E x \in Held(e, path) : S[Pair(x, y, path)]
           T == {n \in Nat : \A path \in Path : Len(path) = n => Meet(path)}
<1>a. \A q \in Pairs(e, a) : S[q] = SameParts(S, q.expected, q.actual, q.path)
  BY SameIs
<1>b. S[Pair(e, a, <<>>)]
  BY DEF Same
<1> HIDE DEF S
<1>c. ASSUME NEW path \in Path, NEW x \in Held(e, path), NEW y \in Held(a, path), S[Pair(x, y, path)]
      PROVE  SameParts(S, x, y, path) /\ IsNode(x) /\ IsNode(y)
  <2>1. x \in Values(e) /\ y \in Values(a) /\ IsNode(x) /\ IsNode(y)
    BY HeldValue
  <2>2. S[Pair(x, y, path)] = SameParts(S, x, y, path)
    BY <1>a, <2>1, PairIn
  <2>3. QED
    BY <1>c, <2>1, <2>2
<1>1. 0 \in T
  <2>1. ASSUME NEW path \in Path, Len(path) = 0 PROVE Meet(path)
    <3>1. path = <<>>
      BY <2>1, PathEmpty
    <3>2. e \in Held(e, path) /\ a \in Held(a, path)
      BY <3>1, HeldRoot
    <3>3. (\A x \in Held(e, path) : x = e) /\ (\A y \in Held(a, path) : y = a)
      BY <3>2, HeldOne
    <3>4. QED
      BY <1>b, <3>1, <3>2, <3>3
  <2> HIDE DEF Meet
  <2>2. QED
    BY <2>1
<1>2. ASSUME NEW n \in Nat, n \in T PROVE n + 1 \in T
  <2>1. ASSUME NEW path \in Path, Len(path) = n + 1 PROVE Meet(path)
    <3>1. PICK t \in Path : \E s \in Segment : path = Append(t, s) /\ Len(t) = n
      BY <2>1, PathLonger
    <3>2. PICK s \in Segment : path = Append(t, s) /\ Len(t) = n
      BY <3>1
    <3>3. Meet(t)
      <4> HIDE DEF Meet
      <4>1. QED
        BY <1>2, <3>2
    <3>4. ASSUME NEW x \in Held(e, t), NEW y \in Held(a, t), S[Pair(x, y, t)]
          PROVE  Meet(path)
      <4>1. SameParts(S, x, y, t)
        BY <1>c, <3>4
      <4>2. /\ \A w \in Held(e, Append(t, s)) : \E u \in Held(a, Append(t, s)) : S[Pair(w, u, Append(t, s))]
            /\ \A u \in Held(a, Append(t, s)) : \E w \in Held(e, Append(t, s)) : S[Pair(w, u, Append(t, s))]
        BY <4>1, SameBelow
      <4>3. QED
        BY <3>2, <4>2
    <3>5. Held(e, path) # {} => Held(e, t) # {}
      BY <3>2, HeldPrefix
    <3>6. Held(a, path) # {} => Held(a, t) # {}
      BY <3>2, HeldPrefix
    <3>7. ASSUME Held(e, t) # {} \/ Held(a, t) # {} PROVE Meet(path)
      <4>1. \E x \in Held(e, t) : \E y \in Held(a, t) : S[Pair(x, y, t)]
        BY <3>3, <3>7
      <4>2. PICK x \in Held(e, t) : \E y \in Held(a, t) : S[Pair(x, y, t)]
        BY <4>1
      <4>3. PICK y \in Held(a, t) : S[Pair(x, y, t)]
        BY <4>2
      <4> HIDE DEF Meet
      <4>4. QED
        BY <3>4, <4>3
    <3>8. QED
      BY <3>5, <3>6, <3>7
  <2> HIDE DEF Meet
  <2>2. QED
    BY <2>1
<1>3. Nat \subseteq T
  <2> HIDE DEF T
  <2>1. QED
    BY <1>1, <1>2, SetInduction
<1>4. ASSUME NEW path, Held(e, path) # {} \/ Held(a, path) # {} PROVE Meet(path) /\ path \in Path
  <2>1. path \in Path /\ Len(path) \in Nat
    BY <1>4, HeldPath
  <2> HIDE DEF Meet
  <2>2. QED
    BY <1>3, <2>1
<1>5. ASSUME NEW path \in Path, NEW x \in Held(e, path), NEW y \in Held(a, path), S[Pair(x, y, path)]
      PROVE  Bare(x) = Bare(y)
  <2>1. SameParts(S, x, y, path) /\ IsNode(x) /\ IsNode(y)
    BY <1>c, <1>5
  <2>2. x.type = y.type
    BY <2>1 DEF SameParts
  <2>3. CASE x.type \in Containers
    BY <2>2, <2>3, BareTwice
  <2>4. CASE x.type \notin Containers
    BY <2>1, <2>4, SameLeaves
  <2>5. QED
    BY <2>3, <2>4
<1>6. QED
  BY <1>4, <1>5 DEF ShowAlike, ShowsAt

\* A text holds nothing but itself.
LEMMA TextAlone ==
  ASSUME NEW s, NEW t, NEW w \in There(Text(s), t)
  PROVE  t = <<>>
<1>1. Sound(Text(s), 1)
  BY TextSound
<1>2. PICK p \in Positions(Text(s)) : p.path = t
  BY DEF There
<1>3. PICK n \in 0..Nesting : p \in Levels(Text(s))[n]
  BY <1>2 DEF Positions
<1>4. n \in Nat
  BY <1>3, NestingAssumption
<1>5. n < 1 /\ p.path \in Path /\ Len(p.path) = n
  BY <1>1, <1>3, <1>4, SoundTyped
<1>6. Len(p.path) = 0
  BY <1>4, <1>5
<1>7. QED
  BY <1>2, <1>5, <1>6, PathEmpty

\* Masking adds no position: what a masked body has, the body has at the same path.
LEMMA MaskedWhere ==
  ASSUME NEW v, IsBody(v), NEW masking, Within(v, masking), NEW p \in Positions(MaskValue(v, masking))
  PROVE  \E q \in Positions(v) : q.path = p.path
<1> DEFINE W == MaskValue(v, masking)
           M == Mask(v, masking)
<1>0. IsBody(W)
  BY MaskedBody DEF Within
<1>1. p.path \in Path /\ Len(p.path) \in Nat
  BY <1>0, BodyPaths
<1>2. p.value \in There(W, p.path)
  BY DEF There
<1>3. PICK c : \E t \in Path : p.path = c.path \o t /\ From(v, masking, c, t, p.value)
  BY <1>1, <1>2, ComesFrom
<1>4. PICK t \in Path : p.path = c.path \o t /\ From(v, masking, c, t, p.value)
  BY <1>3
<1>5. /\ Comes(v, masking, c) /\ p.value \in There(M[c], t)
      /\ RuleFor(masking.rules, c.path) = 0 => t = <<>>
  BY <1>4 DEF From
<1>6. c \in Maskings(v) /\ c.path \in Path /\ c.depth <= masking.maxDepth /\ masking.maxDepth \in Nat
  BY <1>5, ComesWithin
<1>7. c.value \in There(v, c.path)
  BY <1>5 DEF Comes
<1>8. There(v, p.path) # {}
  <2>1. CASE t = <<>>
    <3>1. c.path \o <<>> = c.path
      BY <1>6 DEF Path
    <3>2. QED
      BY <1>4, <1>7, <2>1, <3>1
  <2>2. CASE t # <<>>
    <3> DEFINE rule == masking.rules[RuleFor(masking.rules, c.path)]
    <3>1. M[c] = Apply(rule, c.value)
      BY <1>5, <1>6, <2>2, MaskRuled
    <3>2. M[c] = c.value \/ M[c] = Text(rule.replacement)
      <4> HIDE DEF rule
      <4>1. QED
        BY <3>1 DEF Apply
    <3>3. M[c] # Text(rule.replacement)
      BY <1>5, <2>2, TextAlone
    <3>4. p.value \in There(c.value, t)
      BY <1>5, <3>2, <3>3
    <3>5. p.value \in There(v, c.path \o t)
      BY <1>7, <3>4, ThereJoin
    <3>6. QED
      BY <1>4, <3>5
  <2>3. QED
    BY <2>1, <2>2
<1>9. QED
  BY <1>8 DEF There

\* Masking keeps keys apart and a body shallow.
LEMMA MaskedApart ==
  ASSUME NEW v, IsBody(v), NEW masking, Within(v, masking)
  PROVE  /\ Apart(v) => Apart(MaskValue(v, masking))
         /\ Within(MaskValue(v, masking), masking)
<1> DEFINE W == MaskValue(v, masking)
<1>0. IsBody(W)
  BY MaskedBody DEF Within
<1>1. ASSUME Apart(v), NEW p \in Positions(W), NEW q \in Positions(W), NormalPath(p.path) = NormalPath(q.path)
      PROVE  p = q
  <2>1. PICK x \in Positions(v) : x.path = p.path
    BY MaskedWhere
  <2>2. PICK y \in Positions(v) : y.path = q.path
    BY MaskedWhere
  <2>3. x = y
    BY <1>1, <2>1, <2>2 DEF Apart
  <2>4. p.path = q.path
    BY <2>1, <2>2, <2>3
  <2>5. p.value \in There(W, p.path) /\ q.value \in There(W, p.path)
    BY <2>4 DEF There
  <2>6. p.value = q.value
    BY <1>0, <2>5, ThereOne
  <2>7. p = Position(p.path, p.value) /\ q = Position(q.path, q.value)
    BY <1>0, BodyPaths
  <2> HIDE DEF W
  <2>8. QED
    BY <2>4, <2>6, <2>7
<1>2. ASSUME NEW p \in Positions(W) PROVE Len(p.path) <= masking.maxDepth
  <2>1. PICK x \in Positions(v) : x.path = p.path
    BY MaskedWhere
  <2>2. QED
    BY <2>1 DEF Within
<1>3. QED
  BY <1>1, <1>2 DEF Apart, Within

\* Masking hides the noise and nothing else: of bodies that are not too deep and whose keys
\* stay apart, under rules of distinct paths and where no key reads like a bracket of a
\* rule, a test finds no difference exactly when every position shows the same in the
\* recorded body and in the answer.
THEOREM EngineOnlyNoiseIsHidden ==
  ASSUME NfcOfTexts
  PROVE  EngineSpec => []OnlyNoiseIsHidden
<1>1. ASSUME EngineIInv PROVE OnlyNoiseIsHidden
  <2> SUFFICES ASSUME Tested, settings.epsilon = 0, settings.setPaths = {}, DistinctRules,
                      PlainRules(KeysOf(recorded) \cup KeysOf(answered)),
                      \A v \in {recorded, answered} : Shallow(v) /\ Apart(v)
               PROVE  report = {} <=> View(recorded) = View(answered)
    BY DEF OnlyNoiseIsHidden
  <2> DEFINE e == MaskValue(recorded, settings)
             a == MaskValue(answered, settings)
  <2>1. /\ IsSettings(settings) /\ settings.maxDepth \in Nat /\ IsBody(stored) /\ IsBody(Actual)
        /\ IsBody(recorded) /\ IsBody(answered)
    BY <1>1, TestedBodies
  <2>2. stored = e /\ Actual = a
    BY <1>1 DEF EngineIInv, Tested, Actual
  <2>3. Within(recorded, settings) /\ Within(answered, settings) /\ Apart(recorded) /\ Apart(answered)
    BY <2>1 DEF Within, Shallow
  <2>4. Apart(e) /\ Apart(a) /\ Within(e, settings) /\ Within(a, settings)
    BY <2>1, <2>3, MaskedApart
  <2>5. View(recorded) = View(answered) <=> ShowAlike(e, a)
    <3> DEFINE keys == KeysOf(recorded) \cup KeysOf(answered)
    <3>1. PlainFor(keys) /\ KeysOf(recorded) \subseteq keys /\ KeysOf(answered) \subseteq keys
      BY DEF PlainFor
    <3> HIDE DEF keys
    <3>2. QED
      BY <2>1, <2>3, <3>1, ViewsAgree DEF ShowAlike
  <2> HIDE DEF e, a
  <2>6. IsBody(e) /\ IsBody(a)
    BY <2>1, <2>2
  <2>7. report = {} <=> Same(e, a, <<>>)
    <3>1. NoDifferenceIffSame
      BY <1>1, NoDifference
    <3>2. Shallow(stored) /\ Shallow(Actual)
      BY <2>2, <2>4 DEF Shallow, Within
    <3>3. QED
      BY <2>2, <3>1, <3>2 DEF NoDifferenceIffSame
  <2>8. ShowAlike(e, a) => Same(e, a, <<>>)
    <3>1. e \in Held(e, <<>>) /\ a \in Held(a, <<>>) /\ <<>> \in Path
      BY <2>6, HeldRoot
    <3>2. Nesting + 1 \in Nat /\ Levels(e)[Nesting + 1] = {}
      BY <2>6, NestingAssumption DEF IsBody
    <3>3. QED
      BY <2>4, <2>6, <3>1, <3>2, AlikeSame DEF Same
  <2>9. Same(e, a, <<>>) => ShowAlike(e, a)
    BY <2>4, <2>6, SameAlike
  <2>10. QED
    BY <2>5, <2>7, <2>8, <2>9
<1>2. EngineIInv => OnlyNoiseIsHidden
  BY <1>1
<1>3. QED
  BY <1>2, EngineIInvInit, EngineIInvStep, PTL DEF EngineSpec

-----------------------------------------------------------------------------
(* The learned rules settle the noise. *)

\* The values of a function on a finite set are finitely many.
LEMMA FiniteImage ==
  ASSUME NEW S, IsFiniteSet(S), NEW f, DOMAIN f = S
  PROVE  IsFiniteSet({f[x] : x \in S})
<1> DEFINE T == {f[x] : x \in S}
           g == [x \in S |-> f[x]]
<1>1. g \in [S -> T] /\ \A y \in T : \E x \in S : g[x] = y
  OBVIOUS
<1>2. g \in Surjection(S, T)
  BY <1>1 DEF Surjection
<1> HIDE DEF g, T
<1>3. IsFiniteSet(T)
  BY <1>2, FS_Surjection
<1>4. QED
  BY <1>3 DEF T

\* A finite set as a sequence has its members, and no other.
LEMMA SetAsSequence ==
  ASSUME NEW S, IsFiniteSet(S)
  PROVE  /\ SetToSeq(S) \in Seq(S)
         /\ \A x \in S : \E i \in 1..Len(SetToSeq(S)) : SetToSeq(S)[i] = x
<1> DEFINE n == Cardinality(S)
           s == SetToSeq(S)
<1>1. n \in Nat /\ ExistsBijection(1..n, S)
  BY FS_CardinalityType
<1> HIDE DEF n
<1>2. PICK g \in [1..n -> S] : \A i, j \in 1..n : g[i] = g[j] => i = j
  BY <1>1 DEF ExistsBijection, Bijection, Injection, IsInjective
<1>3. \E g1 \in [1..n -> S] : IsInjective(g1)
  BY <1>2 DEF IsInjective
<1>4. s \in [1..n -> S] /\ IsInjective(s)
  <2>1. s = CHOOSE g1 \in [1..n -> S] : IsInjective(g1)
    BY DEF SetToSeq, n
  <2> HIDE DEF s
  <2>2. QED
    BY <1>3, <2>1
<1> HIDE DEF s
<1>5. s \in Injection(1..n, S)
  BY <1>4 DEF Injection, IsInjective
<1>6. IsFiniteSet(1..n) /\ Cardinality(1..n) = n
  <2>1. Cardinality(1..n) = IF 1 > n THEN 0 ELSE n - 1 + 1
    BY <1>1, FS_Interval
  <2>2. IsFiniteSet(1..n)
    BY <1>1, FS_Interval
  <2>3. QED
    BY <1>1, <2>1, <2>2
<1>7. s \in Surjection(1..n, S)
  <2>1. Cardinality(1..n) = Cardinality(S) <=> s \in Surjection(1..n, S)
    BY <1>5, FS_Injection
  <2>2. QED
    BY <1>6, <2>1 DEF n
<1>8. s \in Seq(S) /\ Len(s) = n
  BY <1>1, <1>4
<1>9. QED
  BY <1>7, <1>8 DEF s, Surjection

\* A body has finitely many positions.
LEMMA ChildrenFinite ==
  ASSUME NEW v, IsNode(v)
  PROVE  IsFiniteSet(Children(v))
<1>1. CASE v.type = "object"
  <2> DEFINE f == [k \in DOMAIN v.fields |-> [segment |-> Key(k), value |-> v.fields[k]]]
  <2>1. IsFiniteSet(DOMAIN v.fields)
    BY <1>1, NodeKinds
  <2>2. Children(v) = {f[k] : k \in DOMAIN v.fields}
    BY <1>1 DEF Children
  <2>3. DOMAIN f = DOMAIN v.fields
    OBVIOUS
  <2> HIDE DEF f
  <2>4. IsFiniteSet({f[k] : k \in DOMAIN v.fields})
    BY <2>1, <2>3, FiniteImage
  <2>5. QED
    BY <2>2, <2>4
<1>2. CASE v.type = "array"
  <2> DEFINE n == Len(v.items)
             f == [i \in 1..n |-> [segment |-> Index(i), value |-> v.items[i]]]
  <2>1. n \in Nat /\ DOMAIN v.items = 1..n
    BY <1>2, ItemOf
  <2>2. IsFiniteSet(1..n)
    <3> HIDE DEF n
    <3>1. 1 \in Int /\ n \in Int
      BY <2>1
    <3>2. QED
      BY <3>1, FS_Interval
  <2>3. Children(v) = {f[i] : i \in 1..n}
    <3>1. Children(v) = {[segment |-> Index(i), value |-> v.items[i]] : i \in DOMAIN v.items}
      BY <1>2, NodeKinds
    <3> HIDE DEF n
    <3>2. QED
      BY <2>1, <3>1
  <2>4. DOMAIN f = 1..n
    OBVIOUS
  <2> HIDE DEF f
  <2>5. IsFiniteSet({f[i] : i \in 1..n})
    BY <2>2, <2>4, FiniteImage
  <2>6. QED
    BY <2>3, <2>5
<1>3. CASE v.type \notin {"object", "array"}
  <2>1. Children(v) = {}
    BY <1>3, NodeKinds
  <2>2. QED
    BY <2>1, FS_EmptySet
<1>4. QED
  BY <1>1, <1>2, <1>3

\* A body has finitely many positions at each depth, ...
LEMMA LevelsFinite ==
  ASSUME NEW v, IsBody(v)
  PROVE  \A n \in Nat : IsFiniteSet(Levels(v)[n])
<1> DEFINE T == {n \in Nat : IsFiniteSet(Levels(v)[n])}
<1>1. 0 \in T
  <2> DEFINE x == Position(<<>>, v)
  <2>1. Levels(v)[0] = {x}
    BY LevelSteps
  <2>2. IsFiniteSet({x})
    BY FS_Singleton
  <2>3. QED
    BY <2>1, <2>2
<1>2. ASSUME NEW n \in Nat, n \in T PROVE n + 1 \in T
  <2> DEFINE L == Levels(v)[n]
             F == [p \in L |-> Below(p)]
  <2>1. Levels(v)[n + 1] = UNION {F[p] : p \in L}
    <3>1. Levels(v)[n + 1] = UNION {Below(p) : p \in L}
      BY LevelSteps DEF Lower
    <3>2. {Below(p) : p \in L} = {F[p] : p \in L}
      <4> HIDE DEF L
      <4>1. QED
        OBVIOUS
    <3>3. QED
      BY <3>1, <3>2
  <2>2. IsFiniteSet(L) /\ L \subseteq Positions(v)
    BY <1>2, BodyPositions
  <2>3. DOMAIN F = L
    OBVIOUS
  <2>4. ASSUME NEW p \in L PROVE IsFiniteSet(F[p])
    <3> DEFINE C == Children(p.value)
               g == [c \in C |-> Position(Append(p.path, c.segment), c.value)]
    <3>1. IsNode(p.value)
      BY <2>2, BodyPaths, ValueOf
    <3>2. IsFiniteSet(C)
      BY <3>1, ChildrenFinite
    <3>3. F[p] = {g[c] : c \in C}
      BY DEF Below
    <3>4. DOMAIN g = C
      OBVIOUS
    <3> HIDE DEF g, C
    <3>5. IsFiniteSet({g[c] : c \in C})
      BY <3>2, <3>4, FiniteImage
    <3>6. QED
      BY <3>3, <3>5
  <2> HIDE DEF F, L
  <2>5. IsFiniteSet({F[p] : p \in L})
    BY <2>2, <2>3, FiniteImage
  <2>6. IsFiniteSet(UNION {F[p] : p \in L})
    <3> DEFINE S == {F[p] : p \in L}
    <3>1. IsFiniteSet(S) /\ \A t \in S : IsFiniteSet(t)
      BY <2>4, <2>5
    <3> HIDE DEF S
    <3>2. IsFiniteSet(UNION S)
      BY <3>1, FS_UNION
    <3>3. QED
      BY <3>2 DEF S
  <2>7. IsFiniteSet(Levels(v)[n + 1]) /\ n + 1 \in Nat
    BY <2>1, <2>6
  <2>8. QED
    BY <2>7
<1>3. Nat \subseteq T
  <2> HIDE DEF T
  <2>1. QED
    BY <1>1, <1>2, SetInduction
<1>4. QED
  BY <1>3

\* ... and in all.
LEMMA PositionsFinite ==
  ASSUME NEW v, IsBody(v)
  PROVE  IsFiniteSet(Positions(v))
<1> DEFINE F == [n \in 0..Nesting |-> Levels(v)[n]]
           S == {F[n] : n \in 0..Nesting}
<1>1. IsFiniteSet(0..Nesting) /\ 0..Nesting \subseteq Nat
  BY NestingAssumption, FS_Interval
<1>2. DOMAIN F = 0..Nesting /\ \A n \in 0..Nesting : IsFiniteSet(F[n])
  BY <1>1, LevelsFinite
<1>3. Positions(v) = UNION S
  BY DEF Positions
<1> HIDE DEF F
<1>4. IsFiniteSet(S) /\ \A t \in S : IsFiniteSet(t)
  BY <1>1, <1>2, FiniteImage
<1> HIDE DEF S
<1>5. IsFiniteSet(UNION S)
  BY <1>4, FS_UNION
<1>6. QED
  BY <1>3, <1>5

\* No position is reached by a segment for any index.
LEMMA PositionSegments ==
  ASSUME NEW v, IsBody(v), NEW p \in Positions(v), NEW i \in DOMAIN p.path
  PROVE  p.path[i] # AnyIndex
<1> DEFINE Plain(path) == \A j \in DOMAIN path : path[j] # AnyIndex
           T == {n \in Nat : \A path \in Path : Len(path) = n /\ There(v, path) # {} => Plain(path)}
<1>1. 0 \in T
  <2>1. \A path \in Path : Len(path) = 0 => path = <<>>
    BY PathEmpty
  <2>2. DOMAIN <<>> = {}
    OBVIOUS
  <2>3. QED
    BY <2>1, <2>2
<1>2. ASSUME NEW n \in Nat, n \in T PROVE n + 1 \in T
  <2>1. ASSUME NEW path \in Path, Len(path) = n + 1, There(v, path) # {} PROVE Plain(path)
    <3>1. PICK t \in Path : \E s \in Segment : path = Append(t, s) /\ Len(t) = n
      BY <2>1, PathLonger
    <3>2. PICK s \in Segment : path = Append(t, s) /\ Len(t) = n
      BY <3>1
    <3>3. PICK w : w \in There(v, Append(t, s))
      BY <2>1, <3>2
    <3>4. PICK x \in There(v, t) : \E c \in Children(x) : c.value = w /\ c.segment = s
      BY <3>3, ThereAbove
    <3>5. PICK c \in Children(x) : c.segment = s
      BY <3>4
    <3>6. s # AnyIndex
      <4>1. \A k : \A y : [segment |-> k, value |-> y].segment = k
        OBVIOUS
      <4>2. (\E k : c.segment = Key(k)) \/ (\E j : c.segment = Index(j))
        BY <4>1, ChildForms
      <4>3. QED
        BY <3>5, <4>2, SegmentForms
    <3>7. Plain(t)
      <4> HIDE DEF Plain
      <4>1. QED
        BY <1>2, <3>2, <3>4
    <3>8. t \in Seq(Segment) /\ s \in Segment
      BY DEF Path
    <3>9. \A j \in DOMAIN Append(t, s) : Append(t, s)[j] = s \/ (j \in DOMAIN t /\ Append(t, s)[j] = t[j])
      BY <3>8
    <3>10. Plain(Append(t, s))
      BY <3>6, <3>7, <3>9
    <3>11. QED
      BY <3>2, <3>10
  <2> HIDE DEF Plain
  <2>2. QED
    BY <2>1
<1>3. Nat \subseteq T
  <2> HIDE DEF T
  <2>1. QED
    BY <1>1, <1>2, SetInduction
<1>4. p.path \in Path /\ Len(p.path) \in Nat /\ p.value \in There(v, p.path)
  BY BodyPaths DEF There
<1>5. Plain(p.path)
  <2> HIDE DEF Plain
  <2>1. QED
    BY <1>3, <1>4
<1>6. QED
  BY <1>5

\* A path is the beginning of another.
Begins(q, p) == Len(q) <= Len(p) /\ SubSeq(p, 1, Len(q)) = q

\* The beginnings of a path, and those that are as long as it.
LEMMA BeginsBasics ==
  /\ \A p \in Path : Begins(p, p)
  /\ \A p \in Path : \A n \in 0..Len(p) : SubSeq(p, 1, n) \in Path /\ Len(SubSeq(p, 1, n)) = n
                                          /\ Begins(SubSeq(p, 1, n), p)
  /\ \A p, q \in Path : Begins(q, p) => Len(q) \in 0..Len(p) /\ q = SubSeq(p, 1, Len(q))
  /\ \A p, q \in Path : Begins(q, p) /\ Len(q) >= Len(p) => q = p
<1>1. ASSUME NEW p \in Seq(Segment) PROVE SubSeq(p, 1, Len(p)) = p /\ Len(p) \in Nat
  OBVIOUS
<1>2. ASSUME NEW p \in Seq(Segment), NEW n \in 0..Len(p)
      PROVE  SubSeq(p, 1, n) \in Seq(Segment) /\ Len(SubSeq(p, 1, n)) = n /\ n <= Len(p)
  OBVIOUS
<1>3. ASSUME NEW p \in Path PROVE Begins(p, p)
  BY <1>1 DEF Begins, Path
<1>4. ASSUME NEW p \in Path, NEW n \in 0..Len(p)
      PROVE  SubSeq(p, 1, n) \in Path /\ Len(SubSeq(p, 1, n)) = n /\ Begins(SubSeq(p, 1, n), p)
  BY <1>2 DEF Begins, Path
<1>5. ASSUME NEW p \in Path, NEW q \in Path, Begins(q, p)
      PROVE  Len(q) \in 0..Len(p) /\ q = SubSeq(p, 1, Len(q))
  BY <1>1, <1>5 DEF Begins, Path
<1>6. ASSUME NEW p \in Path, NEW q \in Path, Begins(q, p), Len(q) >= Len(p) PROVE q = p
  <2>1. Len(q) = Len(p)
    BY <1>1, <1>6 DEF Begins, Path
  <2>2. QED
    BY <1>1, <1>6, <2>1 DEF Begins, Path
<1>7. QED
  BY <1>3, <1>4, <1>5, <1>6

\* A beginning of a beginning is one.
LEMMA BeginsThrough ==
  ASSUME NEW o \in Path, NEW q \in Path, NEW p \in Path, Begins(o, q), Begins(q, p)
  PROVE  Begins(o, p)
<1>1. o \in Seq(Segment) /\ q \in Seq(Segment) /\ p \in Seq(Segment)
  BY DEF Path
<1>2. Len(o) <= Len(q) /\ SubSeq(q, 1, Len(o)) = o /\ Len(q) <= Len(p) /\ SubSeq(p, 1, Len(q)) = q
  BY DEF Begins
<1>3. Len(o) <= Len(p) /\ Len(o) \in Nat
  BY <1>1, <1>2
<1>4. ASSUME NEW i \in 1..Len(o) PROVE p[i] = o[i]
  <2>1. i \in 1..Len(q) /\ q[i] = p[i]
    <3>1. i \in 1..Len(q)
      BY <1>1, <1>2
    <3>2. SubSeq(p, 1, Len(q))[i] = p[i]
      BY <1>1, <1>2, <3>1
    <3>3. QED
      BY <1>2, <3>1, <3>2
  <2>2. SubSeq(q, 1, Len(o))[i] = q[i]
    BY <1>1, <1>2
  <2>3. QED
    BY <1>2, <2>1, <2>2
<1>5. SubSeq(p, 1, Len(o)) = o
  BY <1>1, <1>3, <1>4
<1>6. QED
  BY <1>3, <1>5 DEF Begins

\* A rule whose path is the path matches, and then the standard matching gives a rule.
LEMMA MatchGives ==
  ASSUME NEW rules, NEW n \in Nat, DOMAIN rules = 1..n, NEW path \in Path
  PROVE  /\ \A i \in 1..n : SegmentsMatch(rules[i].path, path) => StandardRule(rules, path) # 0
         /\ StandardRule(rules, path) # 0 =>
              /\ StandardRule(rules, path) \in 1..n
              /\ SegmentsMatch(rules[StandardRule(rules, path)].path, path)
         /\ SegmentsMatch(path, path)
<1> DEFINE m == {i \in DOMAIN rules : SegmentsMatch(rules[i].path, path)}
<1>1. m \in SUBSET Nat /\ m \subseteq 1..n
  OBVIOUS
<1>2. StandardRule(rules, path) = IF m = {} THEN 0 ELSE Min(m)
  BY DEF StandardRule
<1>3. \A i \in 1..n : SegmentsMatch(rules[i].path, path) => i \in m
  OBVIOUS
<1>4. \A i \in m : SegmentsMatch(rules[i].path, path)
  OBVIOUS
<1> HIDE DEF m
<1>5. m # {} => Min(m) \in m
  BY <1>1, SmallestExists
<1>6. \A i \in 1..n : i # 0
  OBVIOUS
<1>7. SegmentsMatch(path, path)
  BY DEF SegmentsMatch
<1>8. QED
  BY <1>1, <1>2, <1>3, <1>4, <1>5, <1>6, <1>7

\* The compiled matcher gives one of the rules that it matches, the standard one in their absence.
LEMMA RuleGiven ==
  ASSUME NEW rules, NEW n \in Nat, DOMAIN rules = 1..n, NEW path
  PROVE  \/ /\ path # <<>> /\ KeysOnly(path) /\ RuleFor(rules, path) \in JitMatches(rules, path)
         \/ /\ ~(path # <<>> /\ KeysOnly(path) /\ JitMatches(rules, path) # {})
            /\ RuleFor(rules, path) = StandardRule(rules, path)
<1> DEFINE J == JitMatches(rules, path)
           open == path # <<>> /\ KeysOnly(path)
<1>1. J \subseteq 1..n
  BY DEF JitMatches, TrieLeaves
<1>2. RuleFor(rules, path) = IF (IF open THEN J ELSE {}) # {} THEN Max(IF open THEN J ELSE {})
                             ELSE StandardRule(rules, path)
  BY DEF RuleFor
<1> HIDE DEF J
<1>3. J # {} => Max(J) \in J
  BY <1>1, LargestIn
<1>4. CASE open /\ J # {}
  <2>1. RuleFor(rules, path) = Max(J)
    BY <1>2, <1>4
  <2>2. QED
    BY <1>3, <1>4, <2>1 DEF J
<1>5. CASE ~(open /\ J # {})
  BY <1>2, <1>5 DEF J
<1>6. QED
  BY <1>4, <1>5

\* Rules that are plain for these keys.
AllPlain(rules, keys) ==
  \A i \in DOMAIN rules :
    rules[i].words \in Seq(STRING) /\ PlainlyWritten(rules[i].words, rules[i].path, keys)

\* What begins a path has keys of the path.
LEMMA KeysBegin ==
  ASSUME NEW q \in Path, NEW p \in Path, Begins(q, p)
  PROVE  KeysIn(q) \subseteq KeysIn(p)
<1>1. q \in Seq(Segment) /\ p \in Seq(Segment) /\ Len(q) <= Len(p) /\ SubSeq(p, 1, Len(q)) = q
  BY DEF Begins, Path
<1>2. ASSUME NEW i \in DOMAIN q PROVE i \in DOMAIN p /\ p[i] = q[i]
  <2>1. i \in 1..Len(q) /\ i \in 1..Len(p)
    BY <1>1
  <2>2. SubSeq(p, 1, Len(q))[i] = p[i]
    BY <1>1, <2>1
  <2>3. QED
    BY <1>1, <2>1, <2>2
<1>3. QED
  BY <1>2 DEF KeysIn

\* A plain rule that the compiled matcher finds begins the path.
LEMMA CompiledBegins ==
  ASSUME NEW keys, NEW words \in Seq(STRING), NEW q \in Path, NEW path \in Path,
         KeysIn(path) \subseteq keys, PlainlyWritten(words, q, keys), LeadsAlong(words, path)
  PROVE  Begins(q, path)
<1>1. q \in Seq(Segment) /\ path \in Seq(Segment)
  BY DEF Path
<1>2. Len(q) <= Len(path) /\ SubSeq(path, 1, Len(q)) = q
  BY <1>1, CompiledIsPlain
<1>3. QED
  BY <1>2 DEF Begins

\* What a rule covers, it covers at a beginning of the path that it matches.
LEMMA CoversBelow ==
  ASSUME NEW keys, NEW rules, NEW n \in Nat, DOMAIN rules = 1..n, \A i \in 1..n : rules[i].path \in Path,
         AllPlain(rules, keys),
         NEW path \in Path, KeysIn(path) \subseteq keys, RuleFor(rules, path) # 0
  PROVE  \E q \in Path : Begins(q, path) /\ StandardRule(rules, q) # 0
<1>1. CASE RuleFor(rules, path) \in JitMatches(rules, path)
  <2> DEFINE i == RuleFor(rules, path)
             q == rules[i].path
  <2>1. i \in 1..n /\ LeadsAlong(rules[i].words, path)
    BY <1>1 DEF JitMatches, TrieLeaves
  <2> HIDE DEF i
  <2>2. q \in Path /\ rules[i].words \in Seq(STRING) /\ PlainlyWritten(rules[i].words, q, keys)
    BY <2>1 DEF AllPlain
  <2>a. Begins(q, path)
    BY <2>1, <2>2, CompiledBegins
  <2>3. SegmentsMatch(q, q)
    BY <2>2, MatchGives
  <2>4. StandardRule(rules, q) # 0
    BY <2>1, <2>2, <2>3, MatchGives
  <2>5. QED
    BY <2>2, <2>4, <2>a
<1>2. CASE RuleFor(rules, path) = StandardRule(rules, path)
  BY <1>2, BeginsBasics
<1>3. QED
  BY <1>1, <1>2, RuleGiven

\* learner.rs:93: the rule for what stands at a path.
Candidate(path) == CandidateRule(Written(path))

\* The adopted rules come after the others, one for each of the paths.
Adopted(all, rules, n, paths) ==
  /\ n \in Nat /\ DOMAIN rules = 1..n /\ \A i \in 1..n : rules[i].path \in Path
  /\ \E m \in Nat :
       /\ DOMAIN all = 1..(n + m)
       /\ \A i \in (n + 1)..(n + m) : \E q \in paths : all[i] = Candidate(q)
       /\ \A q \in paths : \E i \in (n + 1)..(n + m) : all[i] = Candidate(q)
  /\ \A i \in 1..n : all[i] = rules[i]

\* Adopting the texts of paths adds a rule for each of them at the end.
LEMMA AdoptIs ==
  ASSUME NEW masking, IsSettings(masking), NEW texts, IsFiniteSet(texts),
         NEW paths, texts = {Written(q) : q \in paths}
  PROVE  Adopted(Adopt(masking, texts).rules, masking.rules, Len(masking.rules), paths)
<1> DEFINE rules == masking.rules
           n == Len(rules)
           f == [text \in texts |-> CandidateRule(text)]
           S == {CandidateRule(text) : text \in texts}
           more == SetToSeq(S)
           m == Len(more)
           all == rules \o more
           R == {rules[i] : i \in DOMAIN rules}
<1>1. /\ rules \in Seq(R) /\ \A i \in DOMAIN rules : rules[i].path \in Path
      /\ "rules" \in DOMAIN masking
  BY DEF IsSettings
<1>2. Adopt(masking, texts).rules = all
  <2> HIDE DEF all
  <2>1. Adopt(masking, texts) = [masking EXCEPT !.rules = all]
    BY DEF Adopt, all
  <2>2. QED
    BY <1>1, <2>1
<1>3. S = {f[text] : text \in texts} /\ DOMAIN f = texts
  OBVIOUS
<1> HIDE DEF f
<1>4. IsFiniteSet(S)
  BY <1>3, FiniteImage
<1>5. \A x \in S : \E q \in paths : x = Candidate(q)
  BY DEF Candidate
<1>6. \A q \in paths : Candidate(q) \in S
  BY DEF Candidate
<1> HIDE DEF S
<1>7. more \in Seq(S) /\ \A x \in S : \E i \in 1..m : more[i] = x
  BY <1>4, SetAsSequence
<1> HIDE DEF more, R, rules
<1>8. /\ n \in Nat /\ m \in Nat /\ DOMAIN rules = 1..n /\ DOMAIN more = 1..m
      /\ \A i \in 1..m : more[i] \in S
  BY <1>1, <1>7
<1>9. /\ DOMAIN all = 1..(n + m)
      /\ \A i \in 1..n : all[i] = rules[i]
      /\ \A i \in 1..m : all[n + i] = more[i]
  BY <1>1, <1>7, <1>8
<1> HIDE DEF all, n, m
<1>10. ASSUME NEW i \in (n + 1)..(n + m) PROVE \E q \in paths : all[i] = Candidate(q)
  <2> DEFINE j == i - n
  <2>1. j \in 1..m /\ n + j = i
    BY <1>8
  <2>2. all[i] = more[j] /\ more[j] \in S
    BY <1>8, <1>9, <2>1
  <2>3. QED
    BY <1>5, <2>2
<1>11. ASSUME NEW q \in paths PROVE \E i \in (n + 1)..(n + m) : all[i] = Candidate(q)
  <2>1. PICK j \in 1..m : more[j] = Candidate(q)
    BY <1>6, <1>7
  <2>2. n + j \in (n + 1)..(n + m) /\ all[n + j] = more[j]
    BY <1>8, <1>9
  <2>3. QED
    BY <2>1, <2>2
<1>12. QED
  BY <1>1, <1>2, <1>8, <1>9, <1>10, <1>11 DEF Adopted, n, rules

\* The paths are those of leaves, no rule covers them, they are read back from their texts,
\* and the rules are plain, old and new.
Settled(rules, paths, keys) ==
  /\ paths \subseteq Path /\ AllPlain(rules, keys)
  /\ \A q \in paths :
       /\ Parsed(Written(q)) = q /\ KeysIn(q) \subseteq keys
       /\ Words(Written(q)) \in Seq(STRING) /\ PlainlyWritten(Words(Written(q)), q, keys)
  /\ \A q \in paths : \A i \in DOMAIN q : q[i] # AnyIndex
  /\ \A q, p \in paths : Begins(q, p) => q = p
  /\ \A p \in paths : \A q \in Path : Begins(q, p) => StandardRule(rules, q) = 0

\* learner.rs:67: the rule for a path replaces whatever is there.
LEMMA CandidateIs ==
  \A q : /\ Parsed(Written(q)) = q => Candidate(q).path = q
         /\ Candidate(q).words = Words(Written(q)) /\ Candidate(q).matches = NoPattern
         /\ \A v : Apply(Candidate(q), v) = Text("<MASKED_LEARNED_TOKEN>")
BY DEF Candidate, CandidateRule, Apply

\* An index of all the rules: an old one, or a candidate's.
LEMMA AdoptedAt ==
  ASSUME NEW all, NEW rules, NEW n, NEW paths, Adopted(all, rules, n, paths)
  PROVE  /\ n \in Nat
         /\ \E m \in Nat : DOMAIN all = 1..m
         /\ \A i \in 1..n : i \in DOMAIN all /\ all[i] = rules[i] /\ rules[i].path \in Path
         /\ \A i \in DOMAIN all : i \notin 1..n => \E q \in paths : all[i] = Candidate(q)
         /\ \A q \in paths : \E i \in DOMAIN all : i \notin 1..n /\ all[i] = Candidate(q)
         /\ DOMAIN rules = 1..n
<1>1. n \in Nat /\ DOMAIN rules = 1..n /\ \A i \in 1..n : all[i] = rules[i] /\ rules[i].path \in Path
  BY DEF Adopted
<1>2. PICK m \in Nat :
        /\ DOMAIN all = 1..(n + m)
        /\ \A i \in (n + 1)..(n + m) : \E q \in paths : all[i] = Candidate(q)
        /\ \A q \in paths : \E i \in (n + 1)..(n + m) : all[i] = Candidate(q)
  BY DEF Adopted
<1>3. n + m \in Nat /\ \A i \in 1..n : i \in 1..(n + m)
  BY <1>1
<1>4. \A i \in 1..(n + m) : i \notin 1..n => i \in (n + 1)..(n + m)
  BY <1>1
<1>5. \A i \in (n + 1)..(n + m) : i \in 1..(n + m) /\ i \notin 1..n
  BY <1>1
<1>6. QED
  BY <1>1, <1>2, <1>3, <1>4, <1>5

\* An adopted path is masked by its candidate, ...
LEMMA CandidateCovers ==
  ASSUME NEW all, NEW rules, NEW n, NEW paths, NEW keys, Adopted(all, rules, n, paths),
         Settled(rules, paths, keys), NEW path \in paths
  PROVE  RuleFor(all, path) # 0 /\ \E q \in paths : all[RuleFor(all, path)] = Candidate(q)
<1>1. /\ path \in Path /\ Begins(path, path) /\ StandardRule(rules, path) = 0
      /\ Parsed(Written(path)) = path /\ KeysIn(path) \subseteq keys /\ AllPlain(rules, keys)
  BY BeginsBasics DEF Settled
<1>2. PICK m \in Nat : DOMAIN all = 1..m
  BY AdoptedAt
<1>3. n \in Nat /\ DOMAIN rules = 1..n
  BY AdoptedAt
<1>4. ASSUME NEW i \in DOMAIN all, i \notin 1..n PROVE i # 0 /\ \E q \in paths : all[i] = Candidate(q)
  BY <1>2, <1>4, AdoptedAt
<1>5. CASE RuleFor(all, path) \in JitMatches(all, path)
  <2> DEFINE i == RuleFor(all, path)
             q == all[i].path
  <2>1. i \in DOMAIN all /\ LeadsAlong(all[i].words, path)
    BY <1>5 DEF JitMatches, TrieLeaves
  <2> HIDE DEF i
  <2>2. i \notin 1..n
    <3> SUFFICES ASSUME i \in 1..n PROVE FALSE
      OBVIOUS
    <3>1. q \in Path /\ rules[i].path = q
      BY AdoptedAt
    <3>2. SegmentsMatch(rules[i].path, q)
      BY <1>3, <3>1, MatchGives
    <3>3. StandardRule(rules, q) # 0
      BY <1>3, <3>1, <3>2, MatchGives
    <3>a. all[i] = rules[i] /\ i \in DOMAIN rules
      BY <1>3, AdoptedAt
    <3>b. rules[i].words \in Seq(STRING) /\ PlainlyWritten(rules[i].words, q, keys)
          /\ LeadsAlong(rules[i].words, path)
      BY <1>1, <2>1, <3>a DEF AllPlain
    <3>4. Begins(q, path)
      BY <1>1, <3>1, <3>b, CompiledBegins
    <3>5. QED
      BY <3>1, <3>3, <3>4 DEF Settled
  <2>3. QED
    BY <1>4, <2>1, <2>2 DEF i
<1>6. CASE RuleFor(all, path) = StandardRule(all, path)
  <2> DEFINE i == StandardRule(all, path)
  <2>1. PICK j \in DOMAIN all : all[j] = Candidate(path)
    BY AdoptedAt
  <2>2. SegmentsMatch(all[j].path, path)
    BY <1>1, <1>2, <2>1, CandidateIs, MatchGives
  <2>3. i # 0 /\ i \in DOMAIN all /\ SegmentsMatch(all[i].path, path)
    <3>1. i # 0
      BY <1>1, <1>2, <2>2, MatchGives
    <3>2. QED
      BY <1>1, <1>2, <3>1, MatchGives
  <2> HIDE DEF i
  <2>4. i \notin 1..n
    <3> SUFFICES ASSUME i \in 1..n PROVE FALSE
      OBVIOUS
    <3>1. SegmentsMatch(rules[i].path, path)
      BY <2>3, AdoptedAt
    <3>2. StandardRule(rules, path) # 0
      BY <1>1, <1>3, <3>1, MatchGives
    <3>3. QED
      BY <1>1, <3>2
  <2>5. QED
    BY <1>4, <1>6, <2>3, <2>4 DEF i
<1>7. QED
  BY <1>2, <1>5, <1>6, RuleGiven

\* ... and a path that none of them begins keeps the rule that it had.
LEMMA OthersKeep ==
  ASSUME NEW all, NEW rules, NEW n, NEW paths, NEW keys, Adopted(all, rules, n, paths),
         Settled(rules, paths, keys), NEW path \in Path, KeysIn(path) \subseteq keys,
         \A q \in paths : ~Begins(q, path)
  PROVE  /\ RuleFor(all, path) = RuleFor(rules, path)
         /\ RuleFor(rules, path) # 0 => all[RuleFor(rules, path)] = rules[RuleFor(rules, path)]
<1>1. n \in Nat /\ DOMAIN rules = 1..n /\ \A i \in 1..n : i \in DOMAIN all /\ all[i] = rules[i] /\ rules[i].path \in Path
  BY AdoptedAt
<1>2. ASSUME NEW i \in DOMAIN all, i \notin 1..n
      PROVE  /\ all[i].path \in paths /\ all[i].path \in Path /\ KeysIn(all[i].path) \subseteq keys
             /\ all[i].words \in Seq(STRING) /\ PlainlyWritten(all[i].words, all[i].path, keys)
  <2>1. PICK q \in paths : all[i] = Candidate(q)
    BY <1>2, AdoptedAt
  <2>2. all[i].path = q /\ all[i].words = Words(Written(q))
    BY <2>1, CandidateIs DEF Settled
  <2>3. QED
    BY <2>2 DEF Settled
<1>b. ASSUME NEW i \in 1..n
      PROVE  rules[i].words \in Seq(STRING) /\ PlainlyWritten(rules[i].words, rules[i].path, keys)
  BY <1>1 DEF Settled, AllPlain
<1>a. ASSUME NEW i \in 1..n, NEW r \in paths, Begins(rules[i].path, r) PROVE FALSE
  <2>1. rules[i].path \in Path
    BY <1>1
  <2>2. SegmentsMatch(rules[i].path, rules[i].path)
    BY <1>1, <2>1, MatchGives
  <2>3. StandardRule(rules, rules[i].path) # 0
    BY <1>1, <2>1, <2>2, MatchGives
  <2>4. QED
    BY <1>a, <2>1, <2>3 DEF Settled
<1>3. ASSUME NEW i \in DOMAIN all
      PROVE  i \in JitMatches(all, path) <=> i \in JitMatches(rules, path)
  <2>1. CASE i \notin 1..n
    <3>1. i \notin JitMatches(rules, path)
      BY <1>1, <2>1 DEF JitMatches, TrieLeaves
    <3>2. ~Begins(all[i].path, path)
      BY <1>2, <2>1
    <3>3. i \notin JitMatches(all, path)
      <4>1. ~LeadsAlong(all[i].words, path)
        BY <1>2, <2>1, <3>2, CompiledBegins
      <4>2. QED
        BY <4>1 DEF JitMatches
    <3>4. QED
      BY <3>1, <3>3
  <2>2. CASE i \in 1..n
    <3> DEFINE w == all[i].words
               Longer(more) == Len(more) > Len(w) /\ SubSeq(more, 1, Len(w)) = w
    <3>1. w = rules[i].words /\ rules[i].path \in Path /\ w \in Seq(STRING)
      BY <1>1, <1>b, <2>2
    <3>2. i \in TrieLeaves(all) <=> \A j \in DOMAIN all : ~Longer(all[j].words)
      BY DEF TrieLeaves
    <3>3. i \in TrieLeaves(rules) <=> \A j \in DOMAIN rules : ~Longer(rules[j].words)
      BY <1>1, <2>2, <3>1 DEF TrieLeaves
    <3>4. \A j \in 1..n : all[j].words = rules[j].words /\ j \in DOMAIN all
      BY <1>1
    <3>5. ASSUME NEW j \in DOMAIN all, j \notin 1..n, LeadsAlong(w, path) PROVE ~Longer(all[j].words)
      <4> SUFFICES ASSUME Longer(all[j].words) PROVE FALSE
        OBVIOUS
      <4> DEFINE r == all[j].path
                 more == all[j].words
      <4>1. /\ r \in paths /\ r \in Path /\ KeysIn(r) \subseteq keys
            /\ more \in Seq(STRING) /\ PlainlyWritten(more, r, keys)
        BY <1>2, <3>5
      <4>2. Len(more) > Len(w) /\ SubSeq(more, 1, Len(w)) = w
        OBVIOUS
      <4> HIDE DEF r, more, w
      <4>3. Len(path) \in Nat /\ DOMAIN path = 1..Len(path)
        BY DEF Path
      <4>4. LeadsAlong(w, r)
        BY <3>1, <3>5, <4>1, <4>2, <4>3, LongerIsBelow
      <4>5. PlainlyWritten(w, rules[i].path, keys)
        BY <1>b, <2>2, <3>1
      <4>6. Begins(rules[i].path, r)
        BY <3>1, <4>1, <4>4, <4>5, CompiledBegins
      <4>7. QED
        BY <1>a, <2>2, <4>1, <4>6
    <3> HIDE DEF Longer
    <3>6. LeadsAlong(w, path) =>
            ((\A j \in DOMAIN all : ~Longer(all[j].words)) <=> \A j \in DOMAIN rules : ~Longer(rules[j].words))
      BY <1>1, <3>4, <3>5
    <3>7. LeadsAlong(w, path) => (i \in TrieLeaves(all) <=> i \in TrieLeaves(rules))
      BY <3>2, <3>3, <3>6
    <3>8. QED
      BY <3>1, <3>7 DEF JitMatches
  <2>3. QED
    BY <2>1, <2>2
<1>4. JitMatches(all, path) = JitMatches(rules, path)
  <2>1. JitMatches(all, path) \subseteq DOMAIN all
    BY DEF JitMatches, TrieLeaves
  <2>2. JitMatches(rules, path) \subseteq DOMAIN all
    BY <1>1 DEF JitMatches, TrieLeaves
  <2>3. QED
    BY <1>3, <2>1, <2>2
<1>5. ASSUME NEW i \in DOMAIN all
      PROVE  SegmentsMatch(all[i].path, path) <=> i \in 1..n /\ SegmentsMatch(rules[i].path, path)
  <2>1. CASE i \in 1..n
    BY <1>1, <2>1
  <2>2. CASE i \notin 1..n
    <3> SUFFICES ASSUME SegmentsMatch(all[i].path, path) PROVE FALSE
      BY <2>2
    <3> DEFINE q == all[i].path
    <3>1. q \in paths /\ q \in Path
      BY <1>2, <2>2
    <3> HIDE DEF q
    <3>2. q \in Seq(Segment) /\ path \in Seq(Segment)
      BY <3>1 DEF Path
    <3>3. Len(q) = Len(path) /\ \A j \in DOMAIN path : q[j] = path[j] \/ q[j] = AnyIndex
      BY DEF SegmentsMatch, q
    <3>4. \A j \in DOMAIN path : j \in DOMAIN q
      BY <3>2, <3>3
    <3>5. \A j \in DOMAIN q : q[j] # AnyIndex
      BY <3>1 DEF Settled
    <3>6. q = path
      BY <3>2, <3>3, <3>4, <3>5
    <3>7. QED
      BY <3>1, <3>6, BeginsBasics
  <2>3. QED
    BY <2>1, <2>2
<1>6. StandardRule(all, path) = StandardRule(rules, path)
  <2> DEFINE old == {i \in DOMAIN rules : SegmentsMatch(rules[i].path, path)}
             new == {i \in DOMAIN all : SegmentsMatch(all[i].path, path)}
  <2>1. old = new
    BY <1>1, <1>5
  <2> HIDE DEF old, new
  <2>2. StandardRule(all, path) = (IF new = {} THEN 0 ELSE Min(new))
        /\ StandardRule(rules, path) = (IF old = {} THEN 0 ELSE Min(old))
    BY DEF StandardRule, old, new
  <2>3. QED
    BY <2>1, <2>2
<1>7. RuleFor(all, path) = RuleFor(rules, path)
  BY <1>4, <1>6 DEF RuleFor
<1>8. ASSUME RuleFor(rules, path) # 0 PROVE RuleFor(rules, path) \in 1..n
  <2>1. JitMatches(rules, path) \subseteq 1..n
    BY <1>1 DEF JitMatches, TrieLeaves
  <2>2. StandardRule(rules, path) # 0 => StandardRule(rules, path) \in 1..n
    BY <1>1, MatchGives
  <2>3. QED
    BY <1>1, <1>8, <2>1, <2>2, RuleGiven
<1>9. QED
  BY <1>1, <1>7, <1>8

\* Above an adopted path, and on it, there was no rule.
LEMMA NoneAbove ==
  ASSUME NEW rules, NEW n \in Nat, DOMAIN rules = 1..n, \A i \in 1..n : rules[i].path \in Path,
         NEW paths, NEW keys, Settled(rules, paths, keys), NEW path \in Path, RuleFor(rules, path) # 0,
         NEW q \in paths
  PROVE  ~Begins(path, q)
<1> SUFFICES ASSUME Begins(path, q) PROVE FALSE
  OBVIOUS
<1>1. q \in Path /\ KeysIn(q) \subseteq keys /\ AllPlain(rules, keys)
  BY DEF Settled
<1>a. KeysIn(path) \subseteq keys
  BY <1>1, KeysBegin
<1>2. PICK o \in Path : Begins(o, path) /\ StandardRule(rules, o) # 0
  BY <1>1, <1>a, CoversBelow
<1>3. Begins(o, q)
  BY <1>1, <1>2, BeginsThrough
<1>4. QED
  BY <1>2, <1>3 DEF Settled

\* What is above a position is a container.
LEMMA BeginsAbove ==
  ASSUME NEW v, IsBody(v), NEW q \in Path
  PROVE  \A n \in Nat : \A p \in Path :
           Len(p) = n /\ Begins(q, p) /\ q # p /\ There(v, p) # {}
             => \E x \in There(v, q) : x.type \in Containers
<1> DEFINE Above == \E x \in There(v, q) : x.type \in Containers
           T == {n \in Nat : \A p \in Path : Len(p) = n /\ Begins(q, p) /\ q # p /\ There(v, p) # {} => Above}
<1>1. 0 \in T
  <2>1. ASSUME NEW p \in Path, Len(p) = 0, Begins(q, p) PROVE q = p
    <3>1. Len(q) \in Nat
      BY DEF Path
    <3>2. QED
      BY <2>1, <3>1, BeginsBasics
  <2> HIDE DEF Above
  <2>2. QED
    BY <2>1
<1>2. ASSUME NEW n \in Nat, n \in T PROVE n + 1 \in T
  <2>1. ASSUME NEW p \in Path, Len(p) = n + 1, Begins(q, p), q # p, There(v, p) # {} PROVE Above
    <3>1. PICK t \in Path : \E s \in Segment : p = Append(t, s) /\ Len(t) = n
      BY <2>1, PathLonger
    <3>2. PICK s \in Segment : p = Append(t, s) /\ Len(t) = n
      BY <3>1
    <3>3. PICK w : w \in There(v, Append(t, s))
      BY <2>1, <3>2
    <3>4. PICK x \in There(v, t) : \E c \in Children(x) : c.value = w /\ c.segment = s
      BY <3>3, ThereAbove
    <3>5. x.type \in Containers
      BY <3>4, ChildForms DEF Containers
    <3>6. Begins(q, t)
      <4>1. Len(q) \in 0..Len(p) /\ q = SubSeq(p, 1, Len(q)) /\ ~(Len(q) >= Len(p))
        BY <2>1, BeginsBasics
      <4>2. Len(q) \in 0..Len(t)
        <5>1. Len(p) = n + 1 /\ Len(t) = n
          BY <2>1, <3>2
        <5>2. Len(q) \in 0..(n + 1) /\ ~(Len(q) >= n + 1)
          BY <4>1, <5>1
        <5>3. QED
          BY <5>1, <5>2
      <4>3. SubSeq(Append(t, s), 1, Len(q)) = SubSeq(t, 1, Len(q))
        BY <4>2, SubSeqAppend
      <4>4. q = SubSeq(t, 1, Len(q))
        BY <3>2, <4>1, <4>3
      <4>5. QED
        BY <3>2, <4>2, <4>4 DEF Begins
    <3>7. CASE q = t
      BY <3>5, <3>7
    <3>8. CASE q # t
      <4> HIDE DEF Above
      <4>1. QED
        BY <1>2, <3>2, <3>4, <3>6, <3>8
    <3>9. QED
      BY <3>7, <3>8
  <2> HIDE DEF Above
  <2>2. QED
    BY <2>1
<1>3. Nat \subseteq T
  <2> HIDE DEF T
  <2>1. QED
    BY <1>1, <1>2, SetInduction
<1>4. QED
  BY <1>3

\* Two bodies have containers and leaves at the same paths.
KindOf(v) == IF v.type \in Containers THEN v.type ELSE "leaf"
SameShape(v, u) ==
  \A path, k : (\E x \in There(v, path) : KindOf(x) = k) <=> \E y \in There(u, path) : KindOf(y) = k

\* Bodies whose positions have the same paths and kinds are of one shape.
LEMMA ShapeIs ==
  ASSUME NEW v, NEW u,
         {[path |-> p.path, kind |-> KindOf(p.value)] : p \in Positions(v)}
           = {[path |-> p.path, kind |-> KindOf(p.value)] : p \in Positions(u)}
  PROVE  SameShape(v, u)
<1> DEFINE O(path, k) == [path |-> path, kind |-> k]
           Out(w) == {O(p.path, KindOf(p.value)) : p \in Positions(w)}
<1>1. \A path, k, q, c : O(path, k) = O(q, c) => path = q /\ k = c
  OBVIOUS
<1>2. ASSUME NEW w, NEW path, NEW k
      PROVE  (\E x \in There(w, path) : KindOf(x) = k) <=> O(path, k) \in Out(w)
  <2>1. (\E x \in There(w, path) : KindOf(x) = k) <=> \E p \in Positions(w) : p.path = path /\ KindOf(p.value) = k
    BY DEF There
  <2>2. O(path, k) \in Out(w) <=> \E p \in Positions(w) : O(path, k) = O(p.path, KindOf(p.value))
    OBVIOUS
  <2> HIDE DEF O
  <2>3. QED
    BY <1>1, <2>1, <2>2
<1>3. Out(v) = Out(u)
  OBVIOUS
<1> HIDE DEF O, Out
<1>4. ASSUME NEW path, NEW k
      PROVE  (\E x \in There(v, path) : KindOf(x) = k) <=> \E y \in There(u, path) : KindOf(y) = k
  <2>1. (\E x \in There(v, path) : KindOf(x) = k) <=> O(path, k) \in Out(v)
    BY <1>2
  <2>2. (\E x \in There(u, path) : KindOf(x) = k) <=> O(path, k) \in Out(u)
    BY <1>2
  <2>3. QED
    BY <1>3, <2>1, <2>2
<1>5. QED
  BY <1>4 DEF SameShape

\* Where two bodies are of one shape, they have the same kinds at a path.
LEMMA KindsAgree ==
  ASSUME NEW v, IsBody(v), NEW u, IsBody(u), SameShape(v, u), NEW path, NEW x \in There(v, path)
  PROVE  /\ There(u, path) # {}
         /\ \A y \in There(u, path) :
              /\ x.type \in Containers => y.type = x.type
              /\ x.type \notin Containers => y.type \notin Containers
<1>1. PICK z \in There(u, path) : KindOf(z) = KindOf(x)
  BY DEF SameShape
<1>2. ASSUME NEW y \in There(u, path) PROVE KindOf(y) = KindOf(x)
  BY <1>1, ThereOne
<1>3. "leaf" \notin Containers
  BY DEF Containers
<1>4. QED
  BY <1>1, <1>2, <1>3 DEF KindOf

\* Two values are more than one.
LEMMA TwoValues ==
  ASSUME NEW x, NEW y, x # y
  PROVE  Cardinality({x, y}) > 1
<1>1. IsFiniteSet({x}) /\ Cardinality({x}) = 1
  BY FS_Singleton
<1>2. Cardinality({x} \cup {y}) = IF y \in {x} THEN Cardinality({x}) ELSE Cardinality({x}) + 1
  BY <1>1, FS_AddElement
<1>3. {x, y} = {x} \cup {y}
  OBVIOUS
<1>4. QED
  BY <1>1, <1>2, <1>3

\* A path is read back from its text as itself.
ReadsBack(v) == \A q : \A x \in There(v, q) : x.type \notin Containers => Parsed(Written(q)) = q

\* What the learner reports: texts of paths of leaves, and all where two bodies of one shape
\* differ.
LEMMA ReportIs ==
  ASSUME NEW b, NEW d, NEW masking, NEW v, IsBody(v), NEW u, IsBody(u),
         v = MaskValue(b, masking), u = MaskValue(d, masking), SameShape(v, u),
         ReadsBack(v), ReadsBack(u)
  PROVE  LET found == UnstablePaths({b, d}, masking)
             paths == {Parsed(text) : text \in found}
         IN  /\ IsFiniteSet(found)
             /\ \A text \in found : Written(Parsed(text)) = text
             /\ \A q \in paths : \E x \in There(v, q) : x.type \notin Containers
             /\ \A q : q \notin paths =>
                  \A x \in There(v, q), y \in There(u, q) : x.type \notin Containers => x = y
<1> DEFINE found == UnstablePaths({b, d}, masking)
           paths == {Parsed(text) : text \in found}
           leaves == PathValues({b, d}, masking)
           values(text) == {Repr(p.value) : p \in {q \in leaves : Written(q.path) = text}}
           F == [p \in leaves |-> Written(p.path)]
<1>1. found = {text \in {Written(p.path) : p \in leaves} : Cardinality(values(text)) > 1}
  BY DEF UnstablePaths
<1>2. leaves = {p \in Positions(v) : p.value.type \notin Containers}
                 \cup {p \in Positions(u) : p.value.type \notin Containers}
  BY DEF PathValues
<1>3. IsFiniteSet(found)
  <2>1. IsFiniteSet(Positions(v)) /\ IsFiniteSet(Positions(u))
    BY PositionsFinite
  <2>2. IsFiniteSet(Positions(v) \cup Positions(u))
    BY <2>1, FS_Union
  <2>3. leaves \in SUBSET (Positions(v) \cup Positions(u))
    BY <1>2
  <2>4. IsFiniteSet(leaves)
    <3> HIDE DEF leaves
    <3>1. QED
      BY <2>2, <2>3, FS_Subset
  <2>5. DOMAIN F = leaves /\ {Written(p.path) : p \in leaves} = {F[p] : p \in leaves}
    OBVIOUS
  <2> HIDE DEF F, leaves
  <2>6. IsFiniteSet({F[p] : p \in leaves})
    BY <2>4, <2>5, FiniteImage
  <2>7. found \in SUBSET {F[p] : p \in leaves}
    BY <1>1, <2>5
  <2> HIDE DEF found
  <2>8. QED
    BY <2>6, <2>7, FS_Subset
<1> HIDE DEF F
<1>a. ASSUME NEW p \in leaves PROVE Parsed(Written(p.path)) = p.path
  <2>1. \/ p.value \in There(v, p.path) /\ p.value.type \notin Containers
        \/ p.value \in There(u, p.path) /\ p.value.type \notin Containers
    BY <1>2 DEF There
  <2>2. QED
    BY <2>1 DEF ReadsBack
<1>b. ASSUME NEW text \in found PROVE \E p \in leaves : Written(p.path) = text /\ p.path = Parsed(text)
  <2>1. PICK p \in leaves : Written(p.path) = text
    BY <1>1
  <2>2. QED
    BY <1>a, <2>1
<1>4. ASSUME NEW q \in paths
      PROVE  \E x \in There(v, q) : x.type \notin Containers
  <2>0. PICK text \in found : q = Parsed(text)
    OBVIOUS
  <2>1. PICK p \in leaves : Written(p.path) = text /\ p.path = q
    BY <1>b, <2>0
  <2>2. CASE p \in Positions(v) /\ p.value.type \notin Containers
    BY <2>1, <2>2 DEF There
  <2>3. CASE p \in Positions(u) /\ p.value.type \notin Containers
    <3>1. p.value \in There(u, q) /\ SameShape(u, v)
      BY <2>1, <2>3 DEF There, SameShape
    <3>2. There(v, q) # {} /\ \A y \in There(v, q) : y.type \notin Containers
      BY <2>3, <3>1, KindsAgree
    <3>3. QED
      BY <2>1, <3>2
  <2>4. QED
    BY <1>2, <2>2, <2>3
<1>c. ASSUME NEW text \in found PROVE Written(Parsed(text)) = text
  BY <1>b
<1>5. ASSUME NEW q, q \notin paths, NEW x \in There(v, q), NEW y \in There(u, q), x.type \notin Containers
      PROVE  x = y
  <2>1. y.type \notin Containers
    BY <1>5, KindsAgree
  <2>2. PICK p \in Positions(v) : p.path = q /\ p.value = x
    BY DEF There
  <2>3. PICK o \in Positions(u) : o.path = q /\ o.value = y
    BY DEF There
  <2>4. p \in leaves /\ o \in leaves
    BY <1>2, <1>5, <2>1, <2>2, <2>3
  <2>a. Parsed(Written(q)) = q
    BY <1>a, <2>2, <2>4
  <2>5. values(Written(q)) = {x, y}
    <3>1. ASSUME NEW r \in leaves, Written(r.path) = Written(q) PROVE r.value \in {x, y}
      <4>0. r.path = q
        BY <1>a, <2>a, <3>1
      <4>1. r.value \in There(v, q) \/ r.value \in There(u, q)
        BY <1>2, <4>0 DEF There
      <4>2. QED
        BY <4>1, ThereOne
    <3> HIDE DEF leaves
    <3>2. \A z \in values(Written(q)) : z \in {x, y}
      BY <3>1 DEF Repr
    <3>3. x \in values(Written(q)) /\ y \in values(Written(q))
      BY <2>2, <2>3, <2>4 DEF Repr
    <3> HIDE DEF values
    <3>4. QED
      BY <3>2, <3>3
  <2>6. Written(q) \in {Written(r.path) : r \in leaves}
    BY <2>2, <2>4
  <2>b. Written(q) \notin found
    BY <1>5, <2>a
  <2> HIDE DEF values, leaves, found
  <2>7. ~(Cardinality({x, y}) > 1)
    <3>1. ~(Cardinality(values(Written(q))) > 1)
      BY <1>1, <2>6, <2>b
    <3>2. QED
      BY <2>5, <3>1
  <2>8. QED
    BY <2>7, TwoValues
<1>6. QED
  BY <1>3, <1>4, <1>5, <1>c

\* Objects with the same fields are one.
LEMMA SameFields ==
  ASSUME NEW x, IsNode(x), x.type = "object", NEW y, IsNode(y), y.type = "object",
         DOMAIN x.fields = DOMAIN y.fields, \A k \in DOMAIN x.fields : x.fields[k] = y.fields[k]
  PROVE  x = y
<1>1. /\ x = Object(x.fields) /\ x.fields = [k \in DOMAIN x.fields |-> x.fields[k]]
      /\ y = Object(y.fields) /\ y.fields = [k \in DOMAIN y.fields |-> y.fields[k]]
  BY NodeKinds
<1> DEFINE f == x.fields
           g == y.fields
<1> HIDE DEF f, g
<1>2. f = [k \in DOMAIN f |-> f[k]] /\ g = [k \in DOMAIN g |-> g[k]]
  BY <1>1 DEF f, g
<1>3. DOMAIN f = DOMAIN g /\ \A k \in DOMAIN f : f[k] = g[k]
  BY DEF f, g
<1>4. f = g
  BY <1>2, <1>3
<1>5. QED
  BY <1>1, <1>4 DEF f, g

\* A path begins what has one segment more.
LEMMA BeginsLonger ==
  ASSUME NEW path \in Path, NEW s \in Segment
  PROVE  /\ Begins(path, Append(path, s)) /\ Append(path, s) \in Path
         /\ \A q \in Path : Begins(Append(path, s), q) => Begins(path, q)
<1>1. Append(path, s) \in Path /\ Len(Append(path, s)) = Len(path) + 1 /\ Len(path) \in Nat
  BY LongerPath
<1>2. Len(path) \in 0..Len(path)
  BY <1>1
<1>3. SubSeq(Append(path, s), 1, Len(path)) = SubSeq(path, 1, Len(path)) /\ SubSeq(path, 1, Len(path)) = path
  BY <1>2, SubSeqAppend
<1>4. Begins(path, Append(path, s))
  BY <1>1, <1>3 DEF Begins
<1>5. QED
  BY <1>1, <1>4, BeginsThrough

\* Two containers of one shape: they are of one type and hold their parts at the same paths.
LEMMA ShapeParts ==
  ASSUME NEW v, IsBody(v), NEW u, IsBody(u), SameShape(v, u), NEW path,
         NEW x \in There(v, path), NEW y \in There(u, path)
  PROVE  /\ x.type = "object" =>
              /\ y.type = "object" /\ DOMAIN x.fields = DOMAIN y.fields
              /\ \A k \in DOMAIN x.fields :
                   /\ k \in STRING
                   /\ x.fields[k] \in There(v, Append(path, Key(k)))
                   /\ y.fields[k] \in There(u, Append(path, Key(k)))
         /\ x.type = "array" =>
              /\ y.type = "array" /\ Len(x.items) = Len(y.items) /\ Len(x.items) \in Nat
              /\ DOMAIN x.items = 1..Len(x.items) /\ DOMAIN y.items = 1..Len(x.items)
              /\ \A i \in 1..Len(x.items) :
                   /\ i \in Nat
                   /\ x.items[i] \in There(v, Append(path, Index(i)))
                   /\ y.items[i] \in There(u, Append(path, Index(i)))
<1>0. \A q : There(v, q) = {} <=> There(u, q) = {}
  BY DEF SameShape
<1>1. ASSUME x.type = "object"
      PROVE  /\ y.type = "object" /\ DOMAIN x.fields = DOMAIN y.fields
             /\ \A k \in DOMAIN x.fields :
                  /\ k \in STRING
                  /\ x.fields[k] \in There(v, Append(path, Key(k)))
                  /\ y.fields[k] \in There(u, Append(path, Key(k)))
  <2>1. y.type = "object"
    BY <1>1, KindsAgree DEF Containers
  <2>2. /\ \A k \in DOMAIN x.fields : k \in STRING /\ x.fields[k] \in There(v, Append(path, Key(k)))
        /\ \A k \in STRING : k \notin DOMAIN x.fields => There(v, Append(path, Key(k))) = {}
    BY <1>1, ThereField
  <2>3. /\ \A k \in DOMAIN y.fields : k \in STRING /\ y.fields[k] \in There(u, Append(path, Key(k)))
        /\ \A k \in STRING : k \notin DOMAIN y.fields => There(u, Append(path, Key(k))) = {}
    BY <2>1, ThereField
  <2>4. DOMAIN x.fields = DOMAIN y.fields
    BY <1>0, <2>2, <2>3
  <2>5. QED
    BY <2>1, <2>2, <2>3, <2>4
<1>2. ASSUME x.type = "array"
      PROVE  /\ y.type = "array" /\ Len(x.items) = Len(y.items) /\ Len(x.items) \in Nat
             /\ DOMAIN x.items = 1..Len(x.items) /\ DOMAIN y.items = 1..Len(x.items)
             /\ \A i \in 1..Len(x.items) :
                  /\ i \in Nat
                  /\ x.items[i] \in There(v, Append(path, Index(i)))
                  /\ y.items[i] \in There(u, Append(path, Index(i)))
  <2> DEFINE m == Len(x.items)
             n == Len(y.items)
             At(i) == Append(path, Index(i))
  <2>1. y.type = "array"
    BY <1>2, KindsAgree DEF Containers
  <2>2. /\ \A i \in 1..m : i \in Nat /\ x.items[i] \in There(v, At(i))
        /\ \A i \in Nat : i \notin 1..m => There(v, At(i)) = {}
    BY <1>2, ThereItem
  <2>3. /\ \A i \in 1..n : i \in Nat /\ y.items[i] \in There(u, At(i))
        /\ \A i \in Nat : i \notin 1..n => There(u, At(i)) = {}
    BY <2>1, ThereItem
  <2>4. IsNode(x) /\ IsNode(y)
    BY ThereOne
  <2>5. m \in Nat /\ n \in Nat /\ DOMAIN x.items = 1..m /\ DOMAIN y.items = 1..n
    BY <1>2, <2>1, <2>4, ItemOf
  <2> HIDE DEF m, n, At
  <2>6. \A i \in Nat : i \in 1..m <=> i \in 1..n
    BY <1>0, <2>2, <2>3
  <2>7. m = n
    <3>1. m >= 1 => m <= n
      BY <2>5, <2>6
    <3>2. n >= 1 => n <= m
      BY <2>5, <2>6
    <3>3. QED
      BY <2>5, <3>1, <3>2
  <2>8. QED
    BY <2>1, <2>2, <2>3, <2>5, <2>7 DEF m, n, At
<1>3. QED
  BY <1>1, <1>2

\* Parts of one shape whose leaves are equal are equal.
LEMMA EqualBelow ==
  ASSUME NEW v, IsBody(v), NEW u, IsBody(u), SameShape(v, u)
  PROVE  \A r \in Nat : \A path \in Path : \A x \in There(v, path), y \in There(u, path) :
           /\ Levels(x)[r] = {}
           /\ \A q \in Path : Begins(path, q) =>
                \A w \in There(v, q), z \in There(u, q) : w.type \notin Containers => w = z
           => x = y
<1> DEFINE LeavesFrom(path) == \A q \in Path : Begins(path, q) =>
             \A w \in There(v, q), z \in There(u, q) : w.type \notin Containers => w = z
           T == {r \in Nat : \A path \in Path : \A x \in There(v, path), y \in There(u, path) :
                   Levels(x)[r] = {} /\ LeavesFrom(path) => x = y}
<1>1. 0 \in T
  BY LevelSteps
<1>2. ASSUME NEW r \in Nat, r \in T PROVE r + 1 \in T
  <2>1. ASSUME NEW path \in Path, NEW x \in There(v, path), NEW y \in There(u, path),
               Levels(x)[r + 1] = {}, LeavesFrom(path)
        PROVE  x = y
    <3>1. IsNode(x) /\ IsNode(y)
      BY ThereOne
    <3>2. ASSUME NEW s \in Segment PROVE Append(path, s) \in Path /\ LeavesFrom(Append(path, s))
      BY <2>1, BeginsLonger
    <3>3. CASE x.type = "object"
      <4>1. /\ y.type = "object" /\ DOMAIN x.fields = DOMAIN y.fields
            /\ \A k \in DOMAIN x.fields :
                 /\ k \in STRING
                 /\ x.fields[k] \in There(v, Append(path, Key(k)))
                 /\ y.fields[k] \in There(u, Append(path, Key(k)))
        BY <3>3, ShapeParts
      <4>2. ASSUME NEW k \in DOMAIN x.fields PROVE x.fields[k] = y.fields[k]
        <5> DEFINE c == [segment |-> Key(k), value |-> x.fields[k]]
        <5>1. c \in Children(x) /\ c.value = x.fields[k]
          BY <3>1, <3>3, FieldOf
        <5> HIDE DEF c
        <5>2. Levels(x.fields[k])[r] = {}
          BY <2>1, <5>1, ChildLower
        <5>3. Key(k) \in Segment
          BY <4>1, SegmentForms
        <5>4. Append(path, Key(k)) \in Path /\ LeavesFrom(Append(path, Key(k)))
          BY <3>2, <5>3
        <5> HIDE DEF LeavesFrom
        <5>5. QED
          BY <1>2, <4>1, <5>2, <5>4
      <4>3. QED
        BY <3>1, <3>3, <4>1, <4>2, SameFields
    <3>4. CASE x.type = "array"
      <4>1. /\ y.type = "array" /\ Len(x.items) = Len(y.items) /\ Len(x.items) \in Nat
            /\ DOMAIN x.items = 1..Len(x.items) /\ DOMAIN y.items = 1..Len(x.items)
            /\ \A i \in 1..Len(x.items) :
                 /\ i \in Nat
                 /\ x.items[i] \in There(v, Append(path, Index(i)))
                 /\ y.items[i] \in There(u, Append(path, Index(i)))
        BY <3>4, ShapeParts
      <4>2. ASSUME NEW i \in 1..Len(x.items) PROVE x.items[i] = y.items[i]
        <5> DEFINE c == [segment |-> Index(i), value |-> x.items[i]]
        <5>1. c \in Children(x) /\ c.value = x.items[i]
          BY <3>1, <3>4, ItemOf
        <5> HIDE DEF c
        <5>2. Levels(x.items[i])[r] = {}
          BY <2>1, <5>1, ChildLower
        <5>3. Index(i) \in Segment
          BY <4>1, SegmentForms
        <5>4. Append(path, Index(i)) \in Path /\ LeavesFrom(Append(path, Index(i)))
          BY <3>2, <5>3
        <5> HIDE DEF LeavesFrom
        <5>5. QED
          BY <1>2, <4>1, <5>2, <5>4
      <4>3. QED
        BY <3>1, <3>4, <4>1, <4>2, SameItems
    <3>5. CASE x.type \notin Containers
      BY <2>1, <3>5, BeginsBasics
    <3>6. QED
      BY <3>3, <3>4, <3>5 DEF Containers
  <2> HIDE DEF LeavesFrom
  <2>2. QED
    BY <2>1
<1>3. Nat \subseteq T
  <2> HIDE DEF T
  <2>1. QED
    BY <1>1, <1>2, SetInduction
<1>4. QED
  BY <1>3

\* Masking that differs in the rules alone.
SameBut(new, masking) ==
  /\ new.maxDepth = masking.maxDepth /\ new.strict = masking.strict
  /\ new.allowed = masking.allowed /\ new.heuristics = masking.heuristics

\* What adopting rules for these paths assumes of them and of the masking.
Adoption(new, masking, n, paths, keys) ==
  /\ SameBut(new, masking) /\ Adopted(new.rules, masking.rules, n, paths)
  /\ Settled(masking.rules, paths, keys)

\* A body has the keys of the paths of what it holds.
LEMMA KeysThere ==
  ASSUME NEW v, NEW path, NEW x \in There(v, path)
  PROVE  KeysIn(path) \subseteq KeysOf(v)
<1>1. PICK p \in Positions(v) : p.path = path
  BY DEF There
<1>2. QED
  BY <1>1, KeysOfPosition

\* What is made of a leaf that no rule covers does not depend on the rules.
LEMMA LeafKept ==
  ASSUME NEW new, NEW masking, SameBut(new, masking), NEW c
  PROVE  LeafShown(c, new) = LeafShown(c, masking)
BY DEF SameBut, LeafShown, MaskLeaf

\* A call that masking comes to with the adopted rules, it comes to without them; and no
\* adopted path is above it.
LEMMA ComesBefore ==
  ASSUME NEW b, IsBody(b), NEW masking, Within(b, masking), NEW new, NEW n, NEW paths, NEW keys,
         Adoption(new, masking, n, paths, keys), KeysOf(b) \subseteq keys, NEW c, Comes(b, new, c)
  PROVE  /\ Comes(b, masking, c) /\ Within(b, new)
         /\ \A q \in paths : Begins(q, c.path) => q = c.path
<1> DEFINE path == c.path
<1>0. Within(b, new)
  BY DEF Within, Adoption, SameBut
<1>1. /\ c \in Maskings(b) /\ c.depth = Len(path) /\ c.parent = ParentKey(path)
      /\ c.value \in There(b, path) /\ Free(new.rules, path)
  BY DEF Comes
<1>2. path \in Path /\ Len(path) \in Nat /\ KeysIn(path) \subseteq keys
  BY <1>1, ThereOne, KeysThere
<1> HIDE DEF path
<1>3. ASSUME NEW q \in paths, Begins(q, path) PROVE q = path
  <2> SUFFICES ASSUME q # path PROVE FALSE
    OBVIOUS
  <2>1. q \in Path
    BY DEF Adoption, Settled
  <2>2. Len(q) \in 0..Len(path) /\ q = SubSeq(path, 1, Len(q)) /\ ~(Len(q) >= Len(path))
    BY <1>2, <1>3, <2>1, BeginsBasics
  <2>3. Len(q) \in 0..(Len(path) - 1)
    BY <1>2, <2>2
  <2>4. RuleFor(new.rules, q) = 0
    <3>1. RuleFor(new.rules, SubSeq(path, 1, Len(q))) = 0
      BY <1>1, <2>3 DEF Free
    <3>2. QED
      BY <2>2, <3>1
  <2>5. RuleFor(new.rules, q) # 0
    BY CandidateCovers DEF Adoption
  <2>6. QED
    BY <2>4, <2>5
<1>4. ASSUME NEW i \in 0..(Len(path) - 1) PROVE RuleFor(masking.rules, SubSeq(path, 1, i)) = 0
  <2> DEFINE t == SubSeq(path, 1, i)
  <2>1. i \in 0..Len(path) /\ i # Len(path)
    BY <1>2
  <2>2. t \in Path /\ Len(t) = i /\ Begins(t, path)
    BY <1>2, <2>1, BeginsBasics
  <2>3. RuleFor(new.rules, t) = 0
    BY <1>1 DEF Free
  <2> HIDE DEF t
  <2>4. ASSUME NEW q \in paths PROVE ~Begins(q, t)
    <3> SUFFICES ASSUME Begins(q, t) PROVE FALSE
      OBVIOUS
    <3>1. q \in Path
      BY DEF Adoption, Settled
    <3>2. q = path
      BY <1>2, <1>3, <2>2, <3>1, BeginsThrough
    <3>3. Len(q) \in 0..Len(t)
      BY <2>2, <3>1, BeginsBasics
    <3>4. QED
      BY <1>2, <2>1, <2>2, <3>2, <3>3
  <2>a. KeysIn(t) \subseteq keys
    BY <1>2, <2>2, KeysBegin
  <2>5. RuleFor(new.rules, t) = RuleFor(masking.rules, t)
    BY <2>2, <2>4, <2>a, OthersKeep DEF Adoption
  <2>6. QED
    BY <2>3, <2>5 DEF t
<1>5. Free(masking.rules, path)
  BY <1>4 DEF Free
<1>6. \E e : Comes(b, masking, e) /\ e.path = path /\ e.value = c.value
  BY <1>1, <1>2, <1>5, ComesTo DEF path
<1>7. PICK e : Comes(b, masking, e) /\ e.path = path /\ e.value = c.value
  BY <1>6
<1>8. e \in Maskings(b) /\ e.depth = Len(e.path) /\ e.parent = ParentKey(e.path)
  BY <1>7 DEF Comes
<1>9. e.depth = c.depth /\ e.parent = c.parent /\ e.path = c.path /\ e.value = c.value
  BY <1>1, <1>7, <1>8 DEF path
<1>10. e = c
  <2>1. e = MaskingOf(e.value, e.path, e.parent, e.depth)
    BY <1>8, MaskingTypes
  <2>2. c = MaskingOf(c.value, c.path, c.parent, c.depth)
    BY <1>1, MaskingTypes
  <2>3. QED
    BY <1>9, <2>1, <2>2
<1>11. QED
  BY <1>0, <1>3, <1>7, <1>10 DEF path

\* What masking makes of a value is a container of its type, or a leaf of a leaf.
LEMMA MadeTypes ==
  ASSUME NEW b, IsBody(b), NEW masking, Within(b, masking), NEW c, Comes(b, masking, c),
         RuleFor(masking.rules, c.path) = 0
  PROVE  /\ IsNode(Mask(b, masking)[c])
         /\ \A type \in Containers : Mask(b, masking)[c].type = type <=> c.value.type = type
         /\ c.value.type = "object" =>
              /\ DOMAIN Mask(b, masking)[c].fields = DOMAIN c.value.fields
              /\ \A k \in DOMAIN c.value.fields :
                   /\ Mask(b, masking)[c].fields[k] = Mask(b, masking)[OfField(c, k)]
                   /\ Comes(b, masking, OfField(c, k)) /\ OfField(c, k).value = c.value.fields[k]
                   /\ OfField(c, k).path = Append(c.path, Key(k))
         /\ c.value.type = "array" =>
              /\ DOMAIN Mask(b, masking)[c].items = DOMAIN c.value.items
              /\ \A i \in DOMAIN c.value.items :
                   /\ Mask(b, masking)[c].items[i] = Mask(b, masking)[OfItem(c, i)]
                   /\ Comes(b, masking, OfItem(c, i)) /\ OfItem(c, i).value = c.value.items[i]
                   /\ OfItem(c, i).path = Append(c.path, Index(i))
         /\ c.value.type \notin Containers => Mask(b, masking)[c] = LeafShown(c, masking)
<1> DEFINE M == Mask(b, masking)
<1>1. c \in Maskings(b) /\ c.depth <= masking.maxDepth /\ masking.maxDepth \in Nat
  BY ComesWithin
<1>2. IsNode(M[c])
  <2>1. IsBody(M[c])
    BY MadeBody
  <2>2. QED
    BY <2>1, BodyPositions, ValueOf
<1>3. c.value.type = "object" =>
        /\ M[c].type = "object" /\ DOMAIN M[c].fields = DOMAIN c.value.fields
        /\ \A k \in DOMAIN c.value.fields : M[c].fields[k] = M[OfField(c, k)]
  BY <1>1, MaskedObject
<1>4. c.value.type = "array" =>
        /\ M[c].type = "array" /\ DOMAIN M[c].items = DOMAIN c.value.items
        /\ \A i \in DOMAIN c.value.items : M[c].items[i] = M[OfItem(c, i)]
  BY <1>1, MaskedArray
<1>5. c.value.type \notin Containers => M[c] = LeafShown(c, masking) /\ M[c].type \notin Containers
  BY <1>1, MaskedLeaf
<1>6. c.value.type = "object" => \A k \in DOMAIN c.value.fields :
        /\ Comes(b, masking, OfField(c, k)) /\ OfField(c, k).value = c.value.fields[k]
        /\ OfField(c, k).path = Append(c.path, Key(k))
  BY <1>1, FieldComes
<1>7. c.value.type = "array" => \A i \in DOMAIN c.value.items :
        /\ Comes(b, masking, OfItem(c, i)) /\ OfItem(c, i).value = c.value.items[i]
        /\ OfItem(c, i).path = Append(c.path, Index(i))
  BY <1>1, ItemComes
<1> HIDE DEF M
<1>8. \A type \in Containers : M[c].type = type <=> c.value.type = type
  BY <1>3, <1>4, <1>5 DEF Containers
<1>9. QED
  BY <1>2, <1>3, <1>4, <1>5, <1>6, <1>7, <1>8 DEF M

\* Two bodies of one shape, and the paths of all the leaves in which they differ.
Noise(v, u, paths) ==
  /\ SameShape(v, u)
  /\ \A q \in paths : \E x \in There(v, q) : x.type \notin Containers
  /\ \A q : q \notin paths => \A x \in There(v, q), y \in There(u, q) : x.type \notin Containers => x = y

\* The rule at a path that is not adopted, and that no adopted path begins, stays.
LEMMA RuleStays ==
  ASSUME NEW new, NEW masking, NEW n, NEW paths, NEW keys, Adoption(new, masking, n, paths, keys),
         NEW path \in Path, KeysIn(path) \subseteq keys, path \notin paths, \A q \in paths : Begins(q, path) => q = path
  PROVE  /\ RuleFor(new.rules, path) = RuleFor(masking.rules, path)
         /\ RuleFor(masking.rules, path) # 0 =>
              /\ new.rules[RuleFor(new.rules, path)] = masking.rules[RuleFor(masking.rules, path)]
              /\ \A q \in paths : ~Begins(path, q)
<1>1. \A q \in paths : ~Begins(q, path)
  OBVIOUS
<1>2. /\ RuleFor(new.rules, path) = RuleFor(masking.rules, path)
      /\ RuleFor(masking.rules, path) # 0 =>
           new.rules[RuleFor(masking.rules, path)] = masking.rules[RuleFor(masking.rules, path)]
  BY <1>1, OthersKeep DEF Adoption
<1>3. ASSUME RuleFor(masking.rules, path) # 0, NEW q \in paths PROVE ~Begins(path, q)
  <2>1. /\ n \in Nat /\ DOMAIN masking.rules = 1..n /\ \A i \in 1..n : masking.rules[i].path \in Path
        /\ Settled(masking.rules, paths, keys)
    BY DEF Adoption, Adopted
  <2> DEFINE rules == masking.rules
  <2> HIDE DEF rules
  <2>2. n \in Nat /\ DOMAIN rules = 1..n /\ (\A i \in 1..n : rules[i].path \in Path) /\ Settled(rules, paths, keys)
        /\ RuleFor(rules, path) # 0
    BY <1>3, <2>1 DEF rules
  <2>3. QED
    BY <2>2, NoneAbove
<1>4. QED
  BY <1>2, <1>3

\* With the adopted rules, the two bodies are masked alike.
LEMMA MaskedAlike ==
  ASSUME NEW b, IsBody(b), NEW d, IsBody(d), NEW masking, Within(b, masking), Within(d, masking),
         NEW new, NEW n, NEW paths, NEW keys, Adoption(new, masking, n, paths, keys),
         KeysOf(b) \subseteq keys, KeysOf(d) \subseteq keys,
         Noise(MaskValue(b, masking), MaskValue(d, masking), paths)
  PROVE  \A r \in Nat : \A c, e :
           /\ Comes(b, new, c) /\ Comes(d, new, e) /\ c.path = e.path /\ Levels(c.value)[r] = {}
           => Mask(b, new)[c] = Mask(d, new)[e]
<1> DEFINE v == MaskValue(b, masking)
           u == MaskValue(d, masking)
           B == Mask(b, masking)
           D == Mask(d, masking)
           NB == Mask(b, new)
           ND == Mask(d, new)
           T == {r \in Nat : \A c, e :
                   Comes(b, new, c) /\ Comes(d, new, e) /\ c.path = e.path /\ Levels(c.value)[r] = {}
                     => NB[c] = ND[e]}
<1>0. IsBody(v) /\ IsBody(u) /\ SameShape(v, u)
  BY MaskedBody DEF Within, Noise
<1>1. 0 \in T
  BY LevelSteps
<1>2. ASSUME NEW r \in Nat, r \in T PROVE r + 1 \in T
  <2>1. ASSUME NEW c, NEW e, Comes(b, new, c), Comes(d, new, e), c.path = e.path, Levels(c.value)[r + 1] = {}
        PROVE  NB[c] = ND[e]
    <3> DEFINE path == c.path
               x == B[c]
               y == D[e]
    <3>1. /\ Comes(b, masking, c) /\ Within(b, new) /\ Comes(d, masking, e) /\ Within(d, new)
          /\ \A q \in paths : Begins(q, path) => q = path
      BY <2>1, ComesBefore
    <3>2. /\ c \in Maskings(b) /\ c.depth <= masking.maxDepth /\ e \in Maskings(d) /\ e.depth <= masking.maxDepth
          /\ c.depth <= new.maxDepth /\ e.depth <= new.maxDepth
          /\ masking.maxDepth \in Nat /\ new.maxDepth \in Nat
          /\ path \in Path /\ IsNode(c.value) /\ IsNode(e.value)
      BY <2>1, <3>1, ComesWithin
    <3>a. KeysIn(path) \subseteq keys
      <4>1. c.value \in There(b, path)
        BY <2>1 DEF Comes
      <4>2. QED
        BY <4>1, KeysThere
    <3>3. x \in There(v, path) /\ y \in There(u, path)
      BY <2>1, <3>1 DEF Comes
    <3>4. CASE path \in paths
      <4>1. RuleFor(new.rules, path) # 0 /\ \E q \in paths : new.rules[RuleFor(new.rules, path)] = Candidate(q)
        BY <3>4, CandidateCovers DEF Adoption
      <4>2. /\ NB[c] = Apply(new.rules[RuleFor(new.rules, path)], c.value)
            /\ ND[e] = Apply(new.rules[RuleFor(new.rules, path)], e.value)
        BY <2>1, <3>2, <4>1, MaskRuled
      <4> HIDE DEF NB, ND, path
      <4>3. QED
        BY <4>1, <4>2, CandidateIs
    <3>5. CASE path \notin paths
      <4>1. /\ RuleFor(new.rules, path) = RuleFor(masking.rules, path)
            /\ RuleFor(masking.rules, path) # 0 =>
                 /\ new.rules[RuleFor(new.rules, path)] = masking.rules[RuleFor(masking.rules, path)]
                 /\ \A q \in paths : ~Begins(path, q)
        BY <3>1, <3>2, <3>5, <3>a, RuleStays
      <4>2. CASE RuleFor(masking.rules, path) # 0
        <5>1. NB[c] = Apply(new.rules[RuleFor(new.rules, path)], c.value) /\ ND[e] = Apply(new.rules[RuleFor(new.rules, path)], e.value)
          BY <2>1, <3>2, <4>1, <4>2, MaskRuled
        <5>2. x = Apply(masking.rules[RuleFor(masking.rules, path)], c.value) /\ y = Apply(masking.rules[RuleFor(masking.rules, path)], e.value)
          BY <2>1, <3>2, <4>2, MaskRuled
        <5>3. \A q \in Path : Begins(path, q) =>
                \A w \in There(v, q), z \in There(u, q) : w.type \notin Containers => w = z
          <6>1. \A q \in Path : Begins(path, q) => q \notin paths
            BY <4>1, <4>2
          <6>2. QED
            BY <6>1 DEF Noise
        <5>4. Levels(x)[Nesting + 1] = {} /\ Nesting + 1 \in Nat
          <6>1. IsBody(x)
            BY <3>1, MadeBody
          <6>2. QED
            BY <6>1, NestingAssumption DEF IsBody
        <5> HIDE DEF x, y, v, u, path
        <5>5. x = y
          BY <1>0, <3>2, <3>3, <5>3, <5>4, EqualBelow
        <5> HIDE DEF NB, ND
        <5>6. QED
          BY <4>1, <4>2, <5>1, <5>2, <5>5
      <4>3. CASE RuleFor(masking.rules, path) = 0
        <5>1. RuleFor(new.rules, path) = 0 /\ RuleFor(new.rules, e.path) = 0 /\ RuleFor(masking.rules, e.path) = 0
          BY <2>1, <4>1, <4>3
        <5>2. CASE c.value.type = "object"
          <6>1. x.type = "object"
            BY <3>1, <4>3, <5>2, MadeTypes DEF Containers
          <6>2. y.type = "object" /\ DOMAIN x.fields = DOMAIN y.fields /\ \A k \in DOMAIN x.fields : k \in STRING
            <7> HIDE DEF x, y, v, u, path
            <7>1. QED
              BY <1>0, <3>3, <6>1, ShapeParts
          <6>3. e.value.type = "object"
            BY <3>1, <5>1, <6>2, MadeTypes DEF Containers
          <6>4. DOMAIN c.value.fields = DOMAIN e.value.fields
            <7>1. DOMAIN x.fields = DOMAIN c.value.fields
              BY <3>1, <4>3, <5>2, MadeTypes
            <7>2. DOMAIN y.fields = DOMAIN e.value.fields
              BY <3>1, <5>1, <6>3, MadeTypes
            <7>3. QED
              BY <6>2, <7>1, <7>2
          <6>5. /\ IsNode(NB[c]) /\ NB[c].type = "object" /\ DOMAIN NB[c].fields = DOMAIN c.value.fields
                /\ \A k \in DOMAIN c.value.fields :
                     /\ NB[c].fields[k] = NB[OfField(c, k)] /\ Comes(b, new, OfField(c, k))
                     /\ OfField(c, k).value = c.value.fields[k] /\ OfField(c, k).path = Append(path, Key(k))
            BY <2>1, <3>1, <5>1, <5>2, MadeTypes DEF Containers
          <6>6. /\ IsNode(ND[e]) /\ ND[e].type = "object" /\ DOMAIN ND[e].fields = DOMAIN e.value.fields
                /\ \A k \in DOMAIN e.value.fields :
                     /\ ND[e].fields[k] = ND[OfField(e, k)] /\ Comes(d, new, OfField(e, k))
                     /\ OfField(e, k).path = Append(e.path, Key(k))
            BY <2>1, <3>1, <5>1, <6>3, MadeTypes DEF Containers
          <6>7. ASSUME NEW k \in DOMAIN c.value.fields PROVE NB[OfField(c, k)] = ND[OfField(e, k)]
            <7>1. PICK s \in Children(c.value) : s.value = c.value.fields[k]
              <8> DEFINE s == [segment |-> Key(k), value |-> c.value.fields[k]]
              <8>1. s \in Children(c.value)
                BY <3>2, <5>2, FieldOf
              <8>2. s.value = c.value.fields[k]
                OBVIOUS
              <8> HIDE DEF s
              <8>3. QED
                BY <8>1, <8>2
            <7>2. Levels(c.value.fields[k])[r] = {}
              BY <2>1, <7>1, ChildLower
            <7> DEFINE f == OfField(c, k)
                       g == OfField(e, k)
            <7>3. Comes(b, new, f) /\ Comes(d, new, g) /\ f.path = g.path /\ Levels(f.value)[r] = {}
              BY <2>1, <6>4, <6>5, <6>6, <7>2
            <7> HIDE DEF f, g, NB, ND
            <7>4. NB[f] = ND[g]
              BY <1>2, <7>3
            <7>5. QED
              BY <7>4 DEF f, g
          <6> DEFINE p == NB[c]
                     q == ND[e]
          <6>8. /\ IsNode(p) /\ p.type = "object" /\ IsNode(q) /\ q.type = "object"
                /\ DOMAIN p.fields = DOMAIN q.fields
                /\ \A k \in DOMAIN p.fields : p.fields[k] = q.fields[k]
            BY <6>4, <6>5, <6>6, <6>7
          <6> HIDE DEF p, q
          <6>9. p = q
            BY <6>8, SameFields
          <6>10. QED
            BY <6>9 DEF p, q
        <5>3. CASE c.value.type = "array"
          <6>1. x.type = "array"
            BY <3>1, <4>3, <5>3, MadeTypes DEF Containers
          <6>2. /\ y.type = "array" /\ Len(x.items) \in Nat
                /\ DOMAIN x.items = 1..Len(x.items) /\ DOMAIN y.items = 1..Len(x.items)
            <7> HIDE DEF x, y, v, u, path
            <7>1. QED
              BY <1>0, <3>3, <6>1, ShapeParts
          <6>3. e.value.type = "array"
            BY <3>1, <5>1, <6>2, MadeTypes DEF Containers
          <6>4. DOMAIN c.value.items = DOMAIN e.value.items
            <7>1. DOMAIN x.items = DOMAIN c.value.items
              BY <3>1, <4>3, <5>3, MadeTypes
            <7>2. DOMAIN y.items = DOMAIN e.value.items
              BY <3>1, <5>1, <6>3, MadeTypes
            <7>3. QED
              BY <6>2, <7>1, <7>2
          <6>5. /\ IsNode(NB[c]) /\ NB[c].type = "array" /\ DOMAIN NB[c].items = DOMAIN c.value.items
                /\ \A i \in DOMAIN c.value.items :
                     /\ NB[c].items[i] = NB[OfItem(c, i)] /\ Comes(b, new, OfItem(c, i))
                     /\ OfItem(c, i).value = c.value.items[i] /\ OfItem(c, i).path = Append(path, Index(i))
            BY <2>1, <3>1, <5>1, <5>3, MadeTypes DEF Containers
          <6>6. /\ IsNode(ND[e]) /\ ND[e].type = "array" /\ DOMAIN ND[e].items = DOMAIN e.value.items
                /\ \A i \in DOMAIN e.value.items :
                     /\ ND[e].items[i] = ND[OfItem(e, i)] /\ Comes(d, new, OfItem(e, i))
                     /\ OfItem(e, i).path = Append(e.path, Index(i))
            BY <2>1, <3>1, <5>1, <6>3, MadeTypes DEF Containers
          <6>7. ASSUME NEW i \in DOMAIN c.value.items PROVE NB[OfItem(c, i)] = ND[OfItem(e, i)]
            <7>1. PICK s \in Children(c.value) : s.value = c.value.items[i]
              <8> DEFINE s == [segment |-> Index(i), value |-> c.value.items[i]]
              <8>1. s \in Children(c.value)
                BY <3>2, <5>3, ItemOf
              <8>2. s.value = c.value.items[i]
                OBVIOUS
              <8> HIDE DEF s
              <8>3. QED
                BY <8>1, <8>2
            <7>2. Levels(c.value.items[i])[r] = {}
              BY <2>1, <7>1, ChildLower
            <7> DEFINE f == OfItem(c, i)
                       g == OfItem(e, i)
            <7>3. Comes(b, new, f) /\ Comes(d, new, g) /\ f.path = g.path /\ Levels(f.value)[r] = {}
              BY <2>1, <6>4, <6>5, <6>6, <7>2
            <7> HIDE DEF f, g, NB, ND
            <7>4. NB[f] = ND[g]
              BY <1>2, <7>3
            <7>5. QED
              BY <7>4 DEF f, g
          <6> DEFINE p == NB[c]
                     q == ND[e]
          <6>8. /\ IsNode(p) /\ p.type = "array" /\ IsNode(q) /\ q.type = "array"
                /\ DOMAIN p.items = DOMAIN q.items
                /\ \A i \in DOMAIN p.items : p.items[i] = q.items[i]
            BY <6>4, <6>5, <6>6, <6>7
          <6> HIDE DEF p, q
          <6>9. /\ Len(p.items) \in Nat /\ DOMAIN p.items = 1..Len(p.items)
                /\ Len(q.items) \in Nat /\ DOMAIN q.items = 1..Len(q.items)
            BY <6>8, ItemOf
          <6>10. Len(p.items) = Len(q.items)
            <7> DEFINE g == Len(p.items)
                       h == Len(q.items)
            <7>1. g \in Nat /\ h \in Nat /\ 1..g = 1..h
              BY <6>8, <6>9
            <7> HIDE DEF g, h
            <7>2. g = h
              <8>1. \A i \in Nat : i \in 1..g <=> i \in 1..h
                BY <7>1
              <8>2. g >= 1 => g <= h
                BY <7>1, <8>1
              <8>3. h >= 1 => h <= g
                BY <7>1, <8>1
              <8>4. QED
                BY <7>1, <8>2, <8>3
            <7>3. QED
              BY <7>2 DEF g, h
          <6>11. p = q
            BY <6>8, <6>9, <6>10, SameItems
          <6>12. QED
            BY <6>11 DEF p, q
        <5>4. CASE c.value.type \notin Containers
          <6>1. x = LeafShown(c, masking) /\ NB[c] = LeafShown(c, new)
            BY <2>1, <3>1, <4>3, <5>1, <5>4, MadeTypes
          <6>2. x.type \notin Containers /\ y.type \notin Containers
            <7>1. x.type \notin Containers
              BY <3>1, <4>3, <5>4, MadeTypes
            <7> HIDE DEF x, y, v, u, path
            <7>2. QED
              BY <1>0, <3>3, <7>1, KindsAgree
          <6>3. e.value.type \notin Containers
            BY <3>1, <5>1, <6>2, MadeTypes
          <6>4. y = LeafShown(e, masking) /\ ND[e] = LeafShown(e, new)
            BY <2>1, <3>1, <5>1, <6>3, MadeTypes
          <6>5. LeafShown(c, new) = LeafShown(c, masking) /\ LeafShown(e, new) = LeafShown(e, masking)
            BY LeafKept DEF Adoption
          <6>6. x = y
            BY <3>3, <3>5, <6>2 DEF Noise
          <6> HIDE DEF x, y, NB, ND
          <6>7. QED
            BY <6>1, <6>4, <6>5, <6>6
        <5>5. QED
          BY <5>2, <5>3, <5>4 DEF Containers
      <4>4. QED
        BY <4>2, <4>3
    <3>6. QED
      BY <3>4, <3>5
  <2> HIDE DEF NB, ND
  <2>2. QED
    BY <2>1
<1>3. Nat \subseteq T
  <2> HIDE DEF T
  <2>1. QED
    BY <1>1, <1>2, SetInduction
<1>4. QED
  BY <1>3

\* A call that masking comes to without the adopted rules, and that is above none but leaves
\* of them, it comes to with them.
LEMMA ComesAfter ==
  ASSUME NEW b, IsBody(b), NEW masking, Within(b, masking), NEW new, NEW n, NEW paths, NEW keys,
         Adoption(new, masking, n, paths, keys), KeysOf(b) \subseteq keys, NEW c, Comes(b, masking, c),
         \A q \in paths : Begins(q, c.path) => q = c.path
  PROVE  Comes(b, new, c) /\ Within(b, new)
<1> DEFINE path == c.path
<1>0. Within(b, new)
  BY DEF Within, Adoption, SameBut
<1>1. /\ c \in Maskings(b) /\ c.depth = Len(path) /\ c.parent = ParentKey(path)
      /\ c.value \in There(b, path) /\ Free(masking.rules, path)
  BY DEF Comes
<1>2. path \in Path /\ Len(path) \in Nat /\ KeysIn(path) \subseteq keys
  BY <1>1, ThereOne, KeysThere
<1> HIDE DEF path
<1>3. ASSUME NEW q \in paths, Begins(q, path) PROVE q = path
  BY <1>3 DEF path
<1>4. ASSUME NEW i \in 0..(Len(path) - 1) PROVE RuleFor(new.rules, SubSeq(path, 1, i)) = 0
  <2> DEFINE t == SubSeq(path, 1, i)
  <2>1. i \in 0..Len(path) /\ i # Len(path)
    BY <1>2
  <2>2. t \in Path /\ Len(t) = i /\ Begins(t, path)
    BY <1>2, <2>1, BeginsBasics
  <2>3. RuleFor(masking.rules, t) = 0
    BY <1>1 DEF Free
  <2> HIDE DEF t
  <2>4. ASSUME NEW q \in paths PROVE ~Begins(q, t)
    <3> SUFFICES ASSUME Begins(q, t) PROVE FALSE
      OBVIOUS
    <3>1. q \in Path
      BY DEF Adoption, Settled
    <3>2. q = path
      BY <1>2, <1>3, <2>2, <3>1, BeginsThrough
    <3>3. Len(q) \in 0..Len(t)
      BY <2>2, <3>1, BeginsBasics
    <3>4. QED
      BY <1>2, <2>1, <2>2, <3>2, <3>3
  <2>a. KeysIn(t) \subseteq keys
    BY <1>2, <2>2, KeysBegin
  <2>5. RuleFor(new.rules, t) = RuleFor(masking.rules, t)
    BY <2>2, <2>4, <2>a, OthersKeep DEF Adoption
  <2>6. QED
    BY <2>3, <2>5 DEF t
<1>5. Free(new.rules, path)
  BY <1>4 DEF Free
<1>6. \E e : Comes(b, new, e) /\ e.path = path /\ e.value = c.value
  BY <1>0, <1>1, <1>2, <1>5, ComesTo
<1>7. PICK e : Comes(b, new, e) /\ e.path = path /\ e.value = c.value
  BY <1>6
<1>8. e \in Maskings(b) /\ e.depth = Len(e.path) /\ e.parent = ParentKey(e.path)
  BY <1>7 DEF Comes
<1>9. e.depth = c.depth /\ e.parent = c.parent /\ e.path = c.path /\ e.value = c.value
  BY <1>1, <1>7, <1>8 DEF path
<1>10. e = c
  <2>1. e = MaskingOf(e.value, e.path, e.parent, e.depth)
    BY <1>8, MaskingTypes
  <2>2. c = MaskingOf(c.value, c.path, c.parent, c.depth)
    BY <1>1, MaskingTypes
  <2>3. QED
    BY <1>9, <2>1, <2>2
<1>11. QED
  BY <1>0, <1>7, <1>10

\* What was stable still shows: a leaf at a path that is not adopted is masked as before.
LEMMA StableStays ==
  ASSUME NEW b, IsBody(b), NEW masking, Within(b, masking), NEW new, NEW n, NEW paths, NEW keys,
         Adoption(new, masking, n, paths, keys), KeysOf(b) \subseteq keys,
         \A q \in paths : \E x \in There(MaskValue(b, masking), q) : x.type \notin Containers,
         NEW path, path \notin paths, NEW w \in There(MaskValue(b, masking), path), w.type \notin Containers
  PROVE  w \in There(MaskValue(b, new), path)
<1> DEFINE v == MaskValue(b, masking)
           M == Mask(b, masking)
           N == Mask(b, new)
<1>0. IsBody(v) /\ IsBody(MaskValue(b, new))
  BY MaskedBody DEF Within, Adoption, SameBut
<1>1. path \in Path /\ Len(path) \in Nat
  BY <1>0, ThereOne
<1>2. \E c : \E t \in Path : path = c.path \o t /\ From(b, masking, c, t, w)
  BY <1>1, ComesFrom
<1>3. PICK c : \E t \in Path : path = c.path \o t /\ From(b, masking, c, t, w)
  BY <1>2
<1>4. PICK t \in Path : path = c.path \o t /\ From(b, masking, c, t, w)
  BY <1>3
<1>5. Comes(b, masking, c) /\ w \in There(M[c], t) /\ (RuleFor(masking.rules, c.path) = 0 => t = <<>>)
  BY <1>4 DEF From
<1>6. /\ c \in Maskings(b) /\ c.depth <= masking.maxDepth /\ masking.maxDepth \in Nat /\ c.path \in Path
      /\ M[c] \in There(v, c.path) /\ c.value \in There(b, c.path)
  BY <1>5, ComesWithin DEF Comes
<1>a. KeysIn(c.path) \subseteq keys
  BY <1>6, KeysThere
<1>7. ASSUME NEW q \in paths, Begins(q, c.path) PROVE q = c.path
  <2> SUFFICES ASSUME q # c.path PROVE FALSE
    OBVIOUS
  <2>1. q \in Path /\ Len(c.path) \in Nat
    BY <1>6 DEF Adoption, Settled, Path
  <2> HIDE DEF v, M
  <2>2. PICK x \in There(v, q) : x.type \in Containers
    BY <1>0, <1>6, <1>7, <2>1, BeginsAbove
  <2>3. PICK y \in There(v, q) : y.type \notin Containers
    BY DEF v
  <2>4. x = y
    BY <1>0, ThereOne
  <2>5. QED
    BY <2>2, <2>3, <2>4
<1>8. Comes(b, new, c) /\ Within(b, new)
  BY <1>5, <1>7, ComesAfter
<1>9. N[c] \in There(MaskValue(b, new), c.path) /\ c.depth <= new.maxDepth /\ new.maxDepth \in Nat
  BY <1>8, ComesWithin DEF Comes
<1>10. /\ n \in Nat /\ DOMAIN masking.rules = 1..n /\ \A i \in 1..n : masking.rules[i].path \in Path
       /\ Settled(masking.rules, paths, keys)
  BY DEF Adoption, Adopted
<1>11. IsBody(M[c])
  BY <1>5, MadeBody
<1>12. CASE RuleFor(masking.rules, c.path) = 0
  <2>1. t = <<>> /\ c.path = path
    BY <1>4, <1>5, <1>6, <1>12 DEF Path
  <2>2. w = M[c]
    <3>1. M[c] \in There(M[c], <<>>)
      BY <1>11, ThereRoot
    <3> HIDE DEF M
    <3>2. QED
      BY <1>5, <1>11, <2>1, <3>1, ThereOne
  <2>3. RuleFor(new.rules, c.path) = 0
    BY <1>6, <1>7, <1>12, <1>a, <2>1, RuleStays
  <2>4. c.value.type \notin Containers
    BY <1>5, <1>12, <2>2, MadeTypes
  <2>5. M[c] = LeafShown(c, masking)
    BY <1>5, <1>12, <2>4, MadeTypes
  <2>6. N[c] = LeafShown(c, new)
    BY <1>8, <2>3, <2>4, MadeTypes
  <2>7. LeafShown(c, new) = LeafShown(c, masking)
    BY LeafKept DEF Adoption
  <2> HIDE DEF M, N
  <2>8. QED
    BY <1>9, <2>1, <2>2, <2>5, <2>6, <2>7
<1>13. CASE RuleFor(masking.rules, c.path) # 0
  <2>1. c.path \notin paths
    <3> SUFFICES ASSUME c.path \in paths PROVE FALSE
      OBVIOUS
    <3> DEFINE rules == masking.rules
    <3>1. n \in Nat /\ DOMAIN rules = 1..n /\ (\A i \in 1..n : rules[i].path \in Path) /\ Settled(rules, paths, keys)
          /\ RuleFor(rules, c.path) # 0 /\ Begins(c.path, c.path)
      BY <1>6, <1>10, <1>13, BeginsBasics
    <3> HIDE DEF rules
    <3>2. QED
      BY <1>6, <3>1, NoneAbove
  <2>2. /\ RuleFor(new.rules, c.path) = RuleFor(masking.rules, c.path)
        /\ new.rules[RuleFor(new.rules, c.path)] = masking.rules[RuleFor(masking.rules, c.path)]
    BY <1>6, <1>7, <1>13, <1>a, <2>1, RuleStays
  <2>3. M[c] = Apply(masking.rules[RuleFor(masking.rules, c.path)], c.value)
    BY <1>6, <1>13, MaskRuled
  <2>4. N[c] = Apply(new.rules[RuleFor(new.rules, c.path)], c.value)
    BY <1>6, <1>9, <1>13, <2>2, MaskRuled
  <2>5. N[c] = M[c]
    BY <2>2, <2>3, <2>4
  <2>6. w \in There(N[c], t)
    BY <1>5, <2>5
  <2> HIDE DEF N
  <2>7. QED
    BY <1>0, <1>4, <1>9, <2>6, ThereJoin
<1>14. QED
  BY <1>12, <1>13

\* The masking of `record --learn` has the rules of the endpoint.
LEMMA UndepthedIs ==
  ASSUME IsSettings(settings)
  PROVE  /\ IsSettings(Undepthed) /\ Undepthed.maxDepth = DefaultDepth /\ Undepthed.rules = settings.rules
<1>1. DOMAIN settings = {"rules", "heuristics", "strict", "allowed", "maxDepth", "epsilon", "setPaths", "nfc"}
  BY DEF IsSettings
<1>2. /\ DOMAIN Undepthed = DOMAIN settings
      /\ Undepthed.maxDepth = DefaultDepth /\ Undepthed.rules = settings.rules
      /\ Undepthed.epsilon = settings.epsilon /\ Undepthed.setPaths = settings.setPaths
      /\ Undepthed.allowed = settings.allowed
  BY <1>1 DEF Undepthed
<1>3. DefaultDepth \in Nat
  BY DEF DefaultDepth
<1> HIDE DEF Undepthed, DefaultDepth
<1>4. QED
  BY <1>2, <1>3 DEF IsSettings

\* Adopting paths changes nothing but the rules.
LEMMA AdoptKeeps ==
  ASSUME NEW masking, IsSettings(masking), NEW texts
  PROVE  SameBut(Adopt(masking, texts), masking)
<1> DEFINE all == masking.rules \o SetToSeq({CandidateRule(text) : text \in texts})
<1>1. DOMAIN masking = {"rules", "heuristics", "strict", "allowed", "maxDepth", "epsilon", "setPaths", "nfc"}
  BY DEF IsSettings
<1>2. Adopt(masking, texts) = [masking EXCEPT !.rules = all]
  BY DEF Adopt
<1> HIDE DEF all
<1>3. QED
  BY <1>1, <1>2 DEF SameBut

\* Where no rule covers what the learner reports, the reported paths are settled.
LEMMA ReportSettled ==
  ASSUME NEW v, IsBody(v), NEW paths, NEW rules, NEW keys, KeysOf(v) \subseteq keys, AllPlain(rules, keys),
         \A q \in paths : /\ Parsed(Written(q)) = q /\ Words(Written(q)) \in Seq(STRING)
                          /\ PlainlyWritten(Words(Written(q)), q, keys),
         \A q \in paths : \E x \in There(v, q) : x.type \notin Containers,
         \A p \in paths : \A i \in 0..Len(p) : StandardRule(rules, SubSeq(p, 1, i)) = 0
  PROVE  Settled(rules, paths, keys)
<1>1. ASSUME NEW q \in paths PROVE q \in Path /\ KeysIn(q) \subseteq keys
  <2>1. PICK x \in There(v, q) : x.type \notin Containers
    OBVIOUS
  <2>2. QED
    BY <2>1, ThereOne, KeysThere
<1>2. ASSUME NEW q \in paths, NEW i \in DOMAIN q PROVE q[i] # AnyIndex
  <2>1. PICK x \in There(v, q) : x.type \notin Containers
    OBVIOUS
  <2>2. PICK p \in Positions(v) : p.path = q
    BY <2>1 DEF There
  <2>3. i \in DOMAIN p.path
    BY <2>2
  <2>4. p.path[i] # AnyIndex
    BY <2>3, PositionSegments
  <2>5. QED
    BY <2>2, <2>4
<1>3. ASSUME NEW q \in paths, NEW p \in paths, Begins(q, p) PROVE q = p
  <2> SUFFICES ASSUME q # p PROVE FALSE
    OBVIOUS
  <2>1. q \in Path /\ p \in Path /\ Len(p) \in Nat
    BY <1>1 DEF Path
  <2>2. There(v, p) # {}
    OBVIOUS
  <2>3. PICK x \in There(v, q) : x.type \in Containers
    BY <1>3, <2>1, <2>2, BeginsAbove
  <2>4. PICK y \in There(v, q) : y.type \notin Containers
    OBVIOUS
  <2>5. x = y
    BY ThereOne
  <2>6. QED
    BY <2>3, <2>4, <2>5
<1>4. ASSUME NEW p \in paths, NEW q \in Path, Begins(q, p) PROVE StandardRule(rules, q) = 0
  <2>1. Len(q) \in 0..Len(p) /\ q = SubSeq(p, 1, Len(q))
    BY <1>1, <1>4, BeginsBasics
  <2>2. StandardRule(rules, SubSeq(p, 1, Len(q))) = 0
    BY <2>1
  <2>3. QED
    BY <2>1, <2>2
<1>5. QED
  BY <1>1, <1>2, <1>3, <1>4 DEF Settled

\* Being of one shape goes both ways.
LEMMA ShapesAlike ==
  ASSUME NEW v, NEW u, SameShape(v, u)
  PROVE  SameShape(u, v)
BY DEF SameShape

\* Masking a body leaves no keys in it that it did not have.
LEMMA MaskedKeys ==
  ASSUME NEW v, IsBody(v), NEW masking, Within(v, masking)
  PROVE  KeysOf(MaskValue(v, masking)) \subseteq KeysOf(v)
<1> DEFINE W == MaskValue(v, masking)
<1>1. ASSUME NEW p \in Positions(W) PROVE KeysIn(p.path) \subseteq KeysOf(v)
  <2>1. PICK q \in Positions(v) : q.path = p.path
    BY MaskedWhere
  <2>2. QED
    BY <2>1, KeysOfPosition
<1> HIDE DEF W
<1>2. KeysOf(W) \subseteq KeysOf(v)
  BY <1>1 DEF KeysOf
<1>3. QED
  BY <1>2 DEF W

\* jit_rule.rs:57: the words of a text are texts.
WordsOfTexts == \A path \in Path : Words(Written(path)) \in Seq(STRING)

\* Adopted, the learned rules settle the noise and hide nothing else: two probes of the same
\* shape are masked alike, and what was stable still shows, where the text of each leaf's path
\* is read back as that path and the words of no rule are mistaken for keys.
THEOREM EngineLearnedRulesSettle ==
  ASSUME Nesting <= DefaultDepth, WordsOfTexts
  PROVE  EngineSpec => []LearnedRulesSettle
<1>1. ASSUME EngineIInv PROVE LearnedRulesSettle
  <2> DEFINE old == Undepthed
             new == Adopt(Undepthed, report)
             v == MaskValue(recorded, old)
             u == MaskValue(answered, old)
             Leaves(w) == {p \in Positions(w) : p.value.type \notin Containers}
             Kept(w) == {p \in Leaves(w) : Written(p.path) \notin report}
             keys == KeysOf(recorded) \cup KeysOf(answered)
             ReadBack(path) == Parsed(Written(path)) = path
                               /\ PlainlyWritten(Words(Written(path)), path, keys)
             paths == {Parsed(text) : text \in report}
  <2> SUFFICES ASSUME phase = "learned",
                      {[path |-> p.path, kind |-> KindOf(p.value)] : p \in Positions(v)}
                        = {[path |-> p.path, kind |-> KindOf(p.value)] : p \in Positions(u)},
                      PlainRules(keys),
                      \A p \in Leaves(v) \cup Leaves(u) : ReadBack(p.path),
                      \A text \in report :
                        \A i \in 0..Len(Parsed(text)) : ~Ruled(SubSeq(Parsed(text), 1, i))
               PROVE  /\ MaskValue(recorded, new) = MaskValue(answered, new)
                      /\ Kept(v) \subseteq Positions(MaskValue(recorded, new))
                      /\ Kept(u) \subseteq Positions(MaskValue(answered, new))
    <3> HIDE DEF Kept, Leaves, ReadBack, keys, new
    <3>1. QED
      BY DEF LearnedRulesSettle, KindOf, Kept, Leaves, ReadBack, keys, new
  <2>1. /\ settings \in Settings /\ recorded \in Bodies /\ answered \in Bodies
        /\ report = UnstablePaths({recorded, answered}, old)
    BY <1>1 DEF EngineIInv
  <2>2. IsSettings(settings) /\ IsBody(recorded) /\ IsBody(answered)
    BY <2>1, EngineAssumption
  <2>3. IsSettings(old) /\ old.maxDepth = DefaultDepth /\ old.rules = settings.rules /\ old.maxDepth \in Nat
    BY <2>2, UndepthedIs DEF IsSettings
  <2>4. SameShape(v, u)
    BY ShapeIs
  <2> HIDE DEF old
  <2>5. IsBody(v) /\ IsBody(u)
    BY <2>2, <2>3, MaskedBody
  <2>6. Within(recorded, old) /\ Within(answered, old)
    <3>1. ASSUME NEW b, IsBody(b), NEW p \in Positions(b) PROVE Len(p.path) <= old.maxDepth
      <4>1. Len(p.path) \in Nat /\ Len(p.path) <= Nesting
        BY <3>1, BodyPaths
      <4>2. QED
        BY <2>3, <4>1, NestingAssumption
    <3>2. QED
      BY <2>2, <2>3, <3>1 DEF Within
  <2>a. ASSUME NEW q, \/ \E x \in There(v, q) : x.type \notin Containers
                      \/ \E x \in There(u, q) : x.type \notin Containers
        PROVE  ReadBack(q)
    <3> HIDE DEF ReadBack, v, u
    <3>1. \E p \in Leaves(v) \cup Leaves(u) : p.path = q
      BY <2>a DEF There
    <3>2. QED
      BY <3>1
  <2> HIDE DEF keys
  <2>b. ReadsBack(v) /\ ReadsBack(u)
    <3> HIDE DEF v, u
    <3>1. QED
      BY <2>a DEF ReadsBack
  <2>7. /\ IsFiniteSet(report) /\ report = {Written(q) : q \in paths}
        /\ \A q \in paths : \E x \in There(v, q) : x.type \notin Containers
        /\ \A q : q \notin paths =>
             \A x \in There(v, q), y \in There(u, q) : x.type \notin Containers => x = y
    <3> DEFINE found == UnstablePaths({recorded, answered}, old)
               read == {Parsed(text) : text \in found}
    <3>1. v = MaskValue(recorded, old) /\ u = MaskValue(answered, old)
      OBVIOUS
    <3> HIDE DEF v, u
    <3>a. IsFiniteSet(found)
      BY <2>4, <2>5, <2>b, <3>1, ReportIs
    <3>b. \A text \in found : Written(Parsed(text)) = text
      BY <2>4, <2>5, <2>b, <3>1, ReportIs
    <3>2. IsFiniteSet(found) /\ found = {Written(q) : q \in read}
      <4> HIDE DEF found
      <4>1. QED
        BY <3>a, <3>b
    <3>3. \A q \in read : \E x \in There(v, q) : x.type \notin Containers
      BY <2>4, <2>5, <2>b, <3>1, ReportIs
    <3>4. ASSUME NEW q, q \notin read, NEW x \in There(v, q), NEW y \in There(u, q), x.type \notin Containers
          PROVE  x = y
      BY <2>4, <2>5, <2>b, <3>1, <3>4, ReportIs
    <3>5. report = found /\ paths = read
      BY <2>1
    <3> HIDE DEF found, read, paths
    <3>6. QED
      BY <3>2, <3>3, <3>4, <3>5
  <2>8. \A q \in paths : \E x \in There(u, q) : x.type \notin Containers
    <3> DEFINE found == UnstablePaths({answered, recorded}, old)
               read == {Parsed(text) : text \in found}
    <3>1. SameShape(u, v) /\ {answered, recorded} = {recorded, answered}
      BY <2>4, ShapesAlike
    <3>2. report = found /\ paths = read
      BY <2>1, <3>1
    <3>3. u = MaskValue(answered, old) /\ v = MaskValue(recorded, old)
      OBVIOUS
    <3> HIDE DEF v, u
    <3>4. \A q \in read : \E x \in There(u, q) : x.type \notin Containers
      BY <2>5, <2>b, <3>1, <3>3, ReportIs
    <3> HIDE DEF found, read, paths
    <3>5. QED
      BY <3>2, <3>4
  <2>c. KeysOf(v) \subseteq keys /\ KeysOf(recorded) \subseteq keys /\ KeysOf(answered) \subseteq keys
    <3>1. KeysOf(recorded) \subseteq keys /\ KeysOf(answered) \subseteq keys
      BY DEF keys
    <3>2. KeysOf(v) \subseteq KeysOf(recorded)
      BY <2>2, <2>6, MaskedKeys
    <3>3. QED
      BY <3>1, <3>2
  <2>d. AllPlain(old.rules, keys)
    <3>1. \A i \in DOMAIN settings.rules : settings.rules[i].words \in Seq(STRING)
      BY <2>2 DEF IsSettings
    <3>2. QED
      BY <2>3, <3>1 DEF AllPlain, PlainRules
  <2> DEFINE n == Len(old.rules)
  <2>9. Settled(old.rules, paths, keys)
    <3> DEFINE rules == old.rules
    <3>1. \A p \in paths : \A i \in 0..Len(p) : StandardRule(rules, SubSeq(p, 1, i)) = 0
      BY <2>3 DEF Ruled
    <3>2. ASSUME NEW q \in paths
          PROVE  /\ Parsed(Written(q)) = q /\ Words(Written(q)) \in Seq(STRING)
                 /\ PlainlyWritten(Words(Written(q)), q, keys)
      <4>1. PICK x \in There(v, q) : x.type \notin Containers
        BY <2>7
      <4>2. ReadBack(q)
        <5> HIDE DEF ReadBack, v, paths
        <5>1. QED
          BY <2>a, <4>1
      <4>3. q \in Path
        <5> HIDE DEF v, paths
        <5>1. QED
          BY <2>5, <4>1, ThereOne
      <4>4. QED
        BY <4>2, <4>3 DEF WordsOfTexts
    <3>3. AllPlain(rules, keys)
      BY <2>d
    <3> HIDE DEF rules, v, paths
    <3>4. Settled(rules, paths, keys)
      BY <2>5, <2>7, <2>c, <3>1, <3>2, <3>3, ReportSettled
    <3>5. QED
      BY <3>4 DEF rules
  <2>10. Adopted(new.rules, old.rules, n, paths) /\ SameBut(new, old)
    <3> HIDE DEF paths
    <3>1. QED
      BY <2>3, <2>7, AdoptIs, AdoptKeeps DEF old
  <2>11. Adoption(new, old, n, paths, keys)
    BY <2>9, <2>10 DEF Adoption
  <2>12. Noise(v, u, paths)
    BY <2>4, <2>7 DEF Noise
  <2> HIDE DEF new, n
  <2>13. MaskValue(recorded, new) = MaskValue(answered, new)
    <3> DEFINE c == Root(recorded)
               e == Root(answered)
               N == Mask(recorded, new)
               O == Mask(answered, new)
    <3>1. new.maxDepth \in Nat
      BY <2>3, <2>10 DEF SameBut
    <3>2. /\ Comes(recorded, new, c) /\ c.path = <<>> /\ c.value = recorded
          /\ N[c] = MaskValue(recorded, new)
      BY <2>2, <3>1, RootComes
    <3>3. /\ Comes(answered, new, e) /\ e.path = <<>>
          /\ O[e] = MaskValue(answered, new)
      BY <2>2, <3>1, RootComes
    <3>4. Nesting + 1 \in Nat /\ Levels(recorded)[Nesting + 1] = {}
      BY <2>2, NestingAssumption DEF IsBody
    <3> HIDE DEF c, e
    <3>5. c.path = e.path /\ Levels(c.value)[Nesting + 1] = {}
      BY <3>2, <3>3, <3>4
    <3>6. \A r \in Nat : \A x, y :
            Comes(recorded, new, x) /\ Comes(answered, new, y) /\ x.path = y.path /\ Levels(x.value)[r] = {}
              => N[x] = O[y]
      BY <2>2, <2>6, <2>11, <2>12, <2>c, MaskedAlike
    <3> HIDE DEF N, O
    <3>7. N[c] = O[e]
      BY <3>2, <3>3, <3>4, <3>5, <3>6
    <3>8. QED
      BY <3>2, <3>3, <3>7
  <2>14. ASSUME NEW b, IsBody(b), Within(b, old), KeysOf(b) \subseteq keys, NEW w, w = MaskValue(b, old),
                \A q \in paths : \E x \in There(w, q) : x.type \notin Containers
         PROVE  Kept(w) \subseteq Positions(MaskValue(b, new))
    <3>1. ASSUME NEW p \in Kept(w) PROVE p \in Positions(MaskValue(b, new))
      <4>0. p \in Positions(w) /\ p.value.type \notin Containers /\ Written(p.path) \notin report
        OBVIOUS
      <4>a. p.path \notin paths
        <5> HIDE DEF paths
        <5>1. QED
          BY <2>7, <4>0
      <4> HIDE DEF paths
      <4>1. p \in Positions(w) /\ p.value.type \notin Containers /\ p.path \notin paths
        BY <4>0, <4>a
      <4>2. p.value \in There(w, p.path)
        BY <4>1 DEF There
      <4>3. p.value \in There(MaskValue(b, new), p.path)
        BY <2>11, <2>14, <4>1, <4>2, StableStays
      <4>4. PICK o \in Positions(MaskValue(b, new)) : o.path = p.path /\ o.value = p.value
        BY <4>3 DEF There
      <4>5. new.maxDepth \in Nat
        BY <2>3, <2>10 DEF SameBut
      <4>6. IsBody(w) /\ IsBody(MaskValue(b, new))
        BY <2>3, <2>14, <4>5, MaskedBody
      <4>7. p = Position(p.path, p.value)
        BY <4>1, <4>6, BodyPaths
      <4>8. o = Position(o.path, o.value)
        BY <4>6, BodyPaths
      <4>9. o = p
        BY <4>4, <4>7, <4>8
      <4>10. QED
        BY <4>9
    <3> HIDE DEF Kept
    <3>2. QED
      BY <3>1
  <2> HIDE DEF Kept
  <2>15. Kept(v) \subseteq Positions(MaskValue(recorded, new))
    BY <2>2, <2>6, <2>7, <2>14, <2>c
  <2>16. Kept(u) \subseteq Positions(MaskValue(answered, new))
    BY <2>2, <2>6, <2>8, <2>14, <2>c
  <2>17. QED
    BY <2>13, <2>15, <2>16
<1>2. EngineIInv => LearnedRulesSettle
  BY <1>1
<1>3. QED
  BY <1>2, EngineIInvInit, EngineIInvStep, PTL DEF EngineSpec

-----------------------------------------------------------------------------
(* A mutation changes its target and nothing beside it. *)

\* What an edit is made of.
LEMMA EditTypes ==
  /\ \A v, segments : \A q \in Edits(v, segments) :
       q.value \in Values(v) /\ q.behind \in 0..Len(segments) /\ q = Edit(q.value, q.behind)
  /\ \A v, segments : \A x \in Values(v) : \A n \in 0..Len(segments) : Edit(x, n) \in Edits(v, segments)
  /\ \A x, n : Edit(x, n).value = x /\ Edit(x, n).behind = n
BY DEF Edit, Edits

\* What a call makes depends on the calls with one segment more behind.
LEMMA ReplaceDepends ==
  ASSUME NEW v, IsBody(v), NEW put, NEW segments, Len(segments) \in Nat, NEW q \in Edits(v, segments),
         NEW f, NEW g, \A d \in Edits(v, segments) : d.behind = q.behind + 1 => f[d] = g[d]
  PROVE  ReplaceCall(f, q, segments, put) = ReplaceCall(g, q, segments, put)
<1> DEFINE x == q.value
           n == q.behind
           s == segments[n + 1]
<1>1. x \in Values(v) /\ n \in 0..Len(segments)
  BY EditTypes
<1>2. IsNode(x) /\ \A c \in Children(x) : c.value \in Values(v)
  BY <1>1, ValueOf
<1> HIDE DEF x, n
<1>3. CASE n = Len(segments)
  BY <1>3 DEF ReplaceCall, n
<1>4. CASE n # Len(segments)
  <2>1. n + 1 \in 0..Len(segments)
    BY <1>1, <1>4
  <2>2. \A c \in Children(x) : f[Edit(c.value, n + 1)] = g[Edit(c.value, n + 1)]
    BY <1>2, <2>1, EditTypes DEF n
  <2>3. CASE IsKey(s) /\ x.type = "object" /\ s.key \in DOMAIN x.fields
    <3> DEFINE k == s.key
               y == x.fields[k]
               G(h) == Object([x.fields EXCEPT ![k] = h[Edit(y, n + 1)]])
    <3>1. [segment |-> Key(k), value |-> y] \in Children(x)
      BY <1>2, <2>3, FieldOf
    <3>2. f[Edit(y, n + 1)] = g[Edit(y, n + 1)]
      BY <2>2, <3>1
    <3>3. G(f) = G(g)
      BY <3>2
    <3>4. \A h : ReplaceCall(h, q, segments, put) = G(h)
      BY <1>4, <2>3 DEF ReplaceCall, x, n
    <3> HIDE DEF G
    <3>5. QED
      BY <3>3, <3>4 DEF x, n
  <2>4. CASE IsIndex(s) /\ x.type = "array" /\ s.index \in DOMAIN x.items
    <3> DEFINE k == s.index
               y == x.items[k]
               G(h) == Array([x.items EXCEPT ![k] = h[Edit(y, n + 1)]])
    <3>1. [segment |-> Index(k), value |-> y] \in Children(x)
      BY <1>2, <2>4, ItemOf
    <3>2. f[Edit(y, n + 1)] = g[Edit(y, n + 1)]
      BY <2>2, <3>1
    <3>3. G(f) = G(g)
      BY <3>2
    <3>4. \A h : ReplaceCall(h, q, segments, put) = G(h)
      BY <1>4, <2>4 DEF ReplaceCall, ReplaceItem, IsKey, IsIndex, x, n
    <3> HIDE DEF G
    <3>5. QED
      BY <3>3, <3>4 DEF x, n
  <2>5. CASE ~(IsKey(s) /\ x.type = "object" /\ s.key \in DOMAIN x.fields)
             /\ ~(IsIndex(s) /\ x.type = "array" /\ s.index \in DOMAIN x.items)
    BY <1>4, <2>5 DEF ReplaceCall, x, n
  <2>6. QED
    BY <2>3, <2>4, <2>5
<1>5. QED
  BY <1>3, <1>4

\* The same of removing.
LEMMA RemoveDepends ==
  ASSUME NEW v, IsBody(v), NEW segments, Len(segments) \in Nat, NEW q \in Edits(v, segments),
         NEW f, NEW g, \A d \in Edits(v, segments) : d.behind = q.behind + 1 => f[d] = g[d]
  PROVE  RemoveCall(f, q, segments) = RemoveCall(g, q, segments)
<1> DEFINE x == q.value
           n == q.behind
           s == segments[n + 1]
           last == n + 1 = Len(segments)
<1>1. x \in Values(v) /\ n \in 0..Len(segments)
  BY EditTypes
<1>2. IsNode(x) /\ \A c \in Children(x) : c.value \in Values(v)
  BY <1>1, ValueOf
<1> HIDE DEF x, n
<1>3. CASE n = Len(segments)
  BY <1>3 DEF RemoveCall, x, n
<1>4. CASE n # Len(segments)
  <2>1. n + 1 \in 0..Len(segments)
    BY <1>1, <1>4
  <2>2. \A c \in Children(x) : f[Edit(c.value, n + 1)] = g[Edit(c.value, n + 1)]
    BY <1>2, <2>1, EditTypes DEF n
  <2>3. CASE IsKey(s) /\ x.type = "object" /\ s.key \in DOMAIN x.fields /\ ~last
    <3> DEFINE k == s.key
               y == x.fields[k]
               G(h) == Object([x.fields EXCEPT ![k] = h[Edit(y, n + 1)]])
    <3>1. [segment |-> Key(k), value |-> y] \in Children(x)
      BY <1>2, <2>3, FieldOf
    <3>2. f[Edit(y, n + 1)] = g[Edit(y, n + 1)]
      BY <2>2, <3>1
    <3>3. G(f) = G(g)
      BY <3>2
    <3>4. \A h : RemoveCall(h, q, segments) = G(h)
      BY <1>4, <2>3 DEF RemoveCall, x, n
    <3> HIDE DEF G
    <3>5. QED
      BY <3>3, <3>4 DEF x, n
  <2>4. CASE IsIndex(s) /\ x.type = "array" /\ s.index \in DOMAIN x.items /\ ~last
    <3> DEFINE k == s.index
               y == x.items[k]
               G(h) == Array([x.items EXCEPT ![k] = h[Edit(y, n + 1)]])
    <3>1. [segment |-> Index(k), value |-> y] \in Children(x)
      BY <1>2, <2>4, ItemOf
    <3>2. f[Edit(y, n + 1)] = g[Edit(y, n + 1)]
      BY <2>2, <3>1
    <3>3. G(f) = G(g)
      BY <3>2
    <3>4. \A h : RemoveCall(h, q, segments) = G(h)
      BY <1>4, <2>4 DEF RemoveCall, IsKey, IsIndex, x, n
    <3> HIDE DEF G
    <3>5. QED
      BY <3>3, <3>4 DEF x, n
  <2>5. CASE last
    <3>1. \A h : RemoveCall(h, q, segments) = RemoveCall(f, q, segments)
      BY <1>4, <2>5 DEF RemoveCall, x, n
    <3>2. QED
      BY <3>1 DEF x, n
  <2>6. CASE /\ ~last /\ ~(IsKey(s) /\ x.type = "object" /\ s.key \in DOMAIN x.fields)
             /\ ~(IsIndex(s) /\ x.type = "array" /\ s.index \in DOMAIN x.items)
    <3>1. \A h : RemoveCall(h, q, segments) = x
      BY <1>4, <2>6 DEF RemoveCall, x, n
    <3>2. QED
      BY <3>1 DEF x, n
  <2>7. QED
    BY <2>3, <2>4, <2>5, <2>6
<1>5. QED
  BY <1>3, <1>4

\* Replacing is the function that its recursion defines.
LEMMA ReplacingIs ==
  ASSUME NEW v, IsBody(v), NEW put, NEW segments, Len(segments) \in Nat
  PROVE  \A q \in Edits(v, segments) :
           Replacing(v, segments, put)[q] = ReplaceCall(Replacing(v, segments, put), q, segments, put)
<1> DEFINE D == Edits(v, segments)
           end == Len(segments)
           Made(g, q) == ReplaceCall(g, q, segments, put)
           Right(g, r) == \A q \in D : q.behind + r > end => g[q] = Made(g, q)
           T == {r \in Nat : \E g : Right(g, r)}
<1>0. ASSUME NEW q \in D, NEW a, NEW b, \A d \in D : d.behind = q.behind + 1 => a[d] = b[d]
      PROVE  Made(a, q) = Made(b, q)
  <2>1. q \in Edits(v, segments) /\ \A d \in Edits(v, segments) : d.behind = q.behind + 1 => a[d] = b[d]
    BY <1>0
  <2>2. ReplaceCall(a, q, segments, put) = ReplaceCall(b, q, segments, put)
    BY <2>1, ReplaceDepends
  <2>3. QED
    BY <2>2
<1>1. 0 \in T
  <2>1. ASSUME NEW g, NEW q \in D PROVE ~(q.behind + 0 > end)
    BY EditTypes
  <2>2. Right({}, 0)
    BY <2>1
  <2> HIDE DEF Right
  <2>3. QED
    BY <2>2
<1>2. ASSUME NEW r \in Nat, r \in T PROVE r + 1 \in T
  <2>1. PICK g : Right(g, r)
    <3> HIDE DEF Right
    <3>1. QED
      BY <1>2
  <2> DEFINE h == [q \in D |-> IF q.behind + r > end THEN g[q] ELSE Made(g, q)]
  <2>2. ASSUME NEW q \in D, q.behind + (r + 1) > end PROVE h[q] = Made(h, q)
    <3>1. \A d \in D : d.behind = q.behind + 1 => h[d] = g[d]
      BY <2>2, EditTypes
    <3>2. Made(h, q) = Made(g, q)
      <4> HIDE DEF h
      <4>1. QED
        BY <3>1, ReplaceDepends, SMTT(60)
    <3>3. h[q] = Made(g, q)
      BY <2>1
    <3>4. QED
      BY <3>2, <3>3
  <2>3. Right(h, r + 1)
    <3> HIDE DEF h, Made
    <3>1. QED
      BY <2>2
  <2> HIDE DEF h, Right
  <2>4. QED
    BY <2>3
<1>3. end + 1 \in T
  <2>1. Nat \subseteq T
    <3> HIDE DEF T
    <3>1. QED
      BY <1>1, <1>2, SetInduction
  <2> HIDE DEF T
  <2>2. QED
    BY <2>1
<1>4. PICK g : Right(g, end + 1)
  <2> HIDE DEF Right
  <2>1. QED
    BY <1>3
<1> DEFINE f == [q \in D |-> g[q]]
<1>5. ASSUME NEW q \in D PROVE f[q] = Made(f, q)
  <2>1. q.behind + (end + 1) > end
    BY EditTypes
  <2>2. g[q] = Made(g, q)
    BY <1>4, <2>1
  <2>3. \A d \in D : d.behind = q.behind + 1 => f[d] = g[d]
    OBVIOUS
  <2>4. f[q] = g[q]
    OBVIOUS
  <2> HIDE DEF f
  <2>5. Made(f, q) = Made(g, q)
    BY <2>3, <1>0
  <2>6. QED
    BY <2>2, <2>4, <2>5
<1> HIDE DEF Made
<1>6. f = [q \in D |-> Made(f, q)]
  <2>1. f = [q \in D |-> f[q]]
    OBVIOUS
  <2> HIDE DEF f, D
  <2>2. QED
    BY <1>5, <2>1
<1>7. Replacing(v, segments, put) = CHOOSE h : h = [q \in D |-> Made(h, q)]
  BY DEF Replacing, Made
<1> DEFINE M == Replacing(v, segments, put)
<1>8. M = [q \in D |-> Made(M, q)]
  <2> HIDE DEF f, D
  <2>1. QED
    BY <1>6, <1>7
<1> HIDE DEF M
<1>9. \A q \in D : M[q] = Made(M, q)
  BY <1>8
<1>10. QED
  BY <1>9 DEF M, Made

\* Removing is the function that its recursion defines.
LEMMA RemovingIs ==
  ASSUME NEW v, IsBody(v), NEW segments, Len(segments) \in Nat
  PROVE  \A q \in Edits(v, segments) :
           Removing(v, segments)[q] = RemoveCall(Removing(v, segments), q, segments)
<1> DEFINE D == Edits(v, segments)
           end == Len(segments)
           Made(g, q) == RemoveCall(g, q, segments)
           Right(g, r) == \A q \in D : q.behind + r > end => g[q] = Made(g, q)
           T == {r \in Nat : \E g : Right(g, r)}
<1>0. ASSUME NEW q \in D, NEW a, NEW b, \A d \in D : d.behind = q.behind + 1 => a[d] = b[d]
      PROVE  Made(a, q) = Made(b, q)
  BY <1>0, RemoveDepends
<1>1. 0 \in T
  <2>1. ASSUME NEW g, NEW q \in D PROVE ~(q.behind + 0 > end)
    BY EditTypes
  <2>2. Right({}, 0)
    BY <2>1
  <2> HIDE DEF Right
  <2>3. QED
    BY <2>2
<1>2. ASSUME NEW r \in Nat, r \in T PROVE r + 1 \in T
  <2>1. PICK g : Right(g, r)
    <3> HIDE DEF Right
    <3>1. QED
      BY <1>2
  <2> DEFINE h == [q \in D |-> IF q.behind + r > end THEN g[q] ELSE Made(g, q)]
  <2>2. ASSUME NEW q \in D, q.behind + (r + 1) > end PROVE h[q] = Made(h, q)
    <3>1. \A d \in D : d.behind = q.behind + 1 => h[d] = g[d]
      BY <2>2, EditTypes
    <3>2. Made(h, q) = Made(g, q)
      <4> HIDE DEF h
      <4>1. QED
        BY <3>1, <1>0
    <3>3. h[q] = Made(g, q)
      BY <2>1
    <3>4. QED
      BY <3>2, <3>3
  <2>3. Right(h, r + 1)
    <3> HIDE DEF h, Made
    <3>1. QED
      BY <2>2
  <2> HIDE DEF h, Right
  <2>4. QED
    BY <2>3
<1>3. end + 1 \in T
  <2>1. Nat \subseteq T
    <3> HIDE DEF T
    <3>1. QED
      BY <1>1, <1>2, SetInduction
  <2> HIDE DEF T
  <2>2. QED
    BY <2>1
<1>4. PICK g : Right(g, end + 1)
  <2> HIDE DEF Right
  <2>1. QED
    BY <1>3
<1> DEFINE f == [q \in D |-> g[q]]
<1>5. ASSUME NEW q \in D PROVE f[q] = Made(f, q)
  <2>1. q.behind + (end + 1) > end
    BY EditTypes
  <2>2. g[q] = Made(g, q)
    BY <1>4, <2>1
  <2>3. \A d \in D : d.behind = q.behind + 1 => f[d] = g[d]
    OBVIOUS
  <2>4. f[q] = g[q]
    OBVIOUS
  <2> HIDE DEF f
  <2>5. Made(f, q) = Made(g, q)
    BY <2>3, <1>0
  <2>6. QED
    BY <2>2, <2>4, <2>5
<1> HIDE DEF Made
<1>6. f = [q \in D |-> Made(f, q)]
  <2>1. f = [q \in D |-> f[q]]
    OBVIOUS
  <2> HIDE DEF f, D
  <2>2. QED
    BY <1>5, <2>1
<1>7. Removing(v, segments) = CHOOSE h : h = [q \in D |-> Made(h, q)]
  BY DEF Removing, Made
<1> DEFINE M == Removing(v, segments)
<1>8. M = [q \in D |-> Made(M, q)]
  <2> HIDE DEF f, D
  <2>1. QED
    BY <1>6, <1>7
<1> HIDE DEF M
<1>9. \A q \in D : M[q] = Made(M, q)
  BY <1>8
<1>10. QED
  BY <1>9 DEF M, Made

\* The path up to a segment.
LEMMA UpTo ==
  ASSUME NEW path \in Path, NEW n \in 0..(Len(path) - 1)
  PROVE  /\ SubSeq(path, 1, n) \in Path /\ Len(SubSeq(path, 1, n)) = n /\ Begins(SubSeq(path, 1, n), path)
         /\ SubSeq(path, 1, n) # path
         /\ path[n + 1] \in Segment /\ n + 1 \in 0..Len(path) /\ n \in Nat
         /\ SubSeq(path, 1, n + 1) = Append(SubSeq(path, 1, n), path[n + 1])
         /\ SubSeq(path, 1, Len(path)) = path /\ SubSeq(path, 1, 0) = <<>>
<1>0. path \in Seq(Segment) /\ Len(path) \in Nat /\ n \in 0..Len(path) /\ n # Len(path)
  BY DEF Path
<1>1. SubSeq(path, 1, n) \in Path /\ Len(SubSeq(path, 1, n)) = n /\ Begins(SubSeq(path, 1, n), path)
  BY <1>0, BeginsBasics
<1>2. path[n + 1] \in Segment /\ n + 1 \in 0..Len(path) /\ n \in Nat
  BY <1>0
<1>3. SubSeq(path, 1, n) # path
  BY <1>0, <1>1
<1>4. SubSeq(path, 1, Len(path)) = path /\ SubSeq(path, 1, 0) = <<>>
  BY <1>0
<1>5. SubSeq(path, 1, n + 1) = Append(SubSeq(path, 1, n), path[n + 1])
  BY <1>0, <1>2
<1>6. QED
  BY <1>1, <1>2, <1>3, <1>4, <1>5

\* On the way to what is there, each value is a container and has the next segment.
LEMMA OnTheWay ==
  ASSUME NEW v, IsBody(v), NEW path \in Path, There(v, path) # {}, NEW n \in 0..(Len(path) - 1)
  PROVE  \E x \in There(v, SubSeq(path, 1, n)) :
           /\ x.type \in Containers
           /\ \E c \in Children(x) : c.segment = path[n + 1] /\ c.value \in There(v, SubSeq(path, 1, n + 1))
<1> DEFINE q == SubSeq(path, 1, n)
           s == path[n + 1]
           t == SubSeq(path, 1, n + 1)
<1>1. q \in Path /\ Begins(q, path) /\ q # path /\ s \in Segment /\ t = Append(q, s) /\ Len(path) \in Nat
  BY UpTo DEF Path
<1>2. \E x \in There(v, q) : x.type \in Containers
  <2> HIDE DEF q
  <2>1. QED
    BY <1>1, BeginsAbove
<1>3. There(v, t) # {}
  <2>1. CASE n + 1 = Len(path)
    BY <2>1, <1>1, UpTo
  <2>2. CASE n + 1 # Len(path)
    <3>1. n + 1 \in 0..(Len(path) - 1)
      BY <1>1, <2>2
    <3>2. t \in Path /\ Begins(t, path) /\ t # path
      BY <3>1, UpTo
    <3> HIDE DEF t
    <3>3. QED
      BY <1>1, <3>2, BeginsAbove
  <2>3. QED
    BY <2>1, <2>2
<1>4. PICK w : w \in There(v, t)
  BY <1>3
<1> HIDE DEF q, t, s
<1>5. w \in There(v, Append(q, s))
  BY <1>1, <1>4
<1>6. PICK x \in There(v, q) : \E c \in Children(x) : c.value = w /\ c.segment = s
  BY <1>1, <1>5, ThereAbove
<1>7. x.type \in Containers
  BY <1>2, <1>6, ThereOne
<1>8. QED
  BY <1>4, <1>6, <1>7 DEF q, s, t

\* Other than at one segment, two values hold the same.
Kept(x, y, s) ==
  /\ IsNode(y) /\ y.type = x.type
  /\ \A c \in Children(x) : c.segment # s => c \in Children(y)
  /\ \A c \in Children(y) : c.segment # s => c \in Children(x)

\* What an edit does on the way to its path: up to m it passes to the next value, and
\* after it there is none.
Edited(R, v, path, m) ==
  /\ m \in 0..Len(path) /\ Len(path) - 1 <= m
  /\ \A n \in 0..(Len(path) - 1) : \A x \in There(v, SubSeq(path, 1, n)) :
       /\ Kept(x, R[Edit(x, n)], path[n + 1])
       /\ n >= m => \A d \in Children(R[Edit(x, n)]) : d.segment # path[n + 1]
       /\ n < m => \A c \in Children(x) : c.segment = path[n + 1] =>
            \E d \in Children(R[Edit(x, n)]) : d.segment = c.segment /\ d.value = R[Edit(c.value, n + 1)]
  /\ m = Len(path) => \A x \in There(v, path) :
                        IsNode(R[Edit(x, m)]) /\ Children(R[Edit(x, m)]) = {}

\* An edit makes sound values of sound values.
LEMMA EditSound ==
  ASSUME NEW v, IsBody(v), NEW path \in Path, There(v, path) # {}, NEW R, NEW m, Edited(R, v, path, m)
  PROVE  \A r \in Nat : \A n \in 0..m : \A x \in There(v, SubSeq(path, 1, n)) :
           Sound(x, r) => Sound(R[Edit(x, n)], r)
<1> DEFINE At(n) == SubSeq(path, 1, n)
           T == {r \in Nat : \A n \in 0..m : \A x \in There(v, At(n)) : Sound(x, r) => Sound(R[Edit(x, n)], r)}
<1>0. m \in 0..Len(path) /\ Len(path) \in Nat
  BY DEF Edited, Path
<1>1. 0 \in T
  <2>1. ASSUME NEW x PROVE ~Sound(x, 0)
    BY LevelSteps DEF Sound
  <2>2. QED
    BY <2>1
<1>2. ASSUME NEW r \in Nat, r \in T PROVE r + 1 \in T
  <2>1. ASSUME NEW n \in 0..m, NEW x \in There(v, At(n)), Sound(x, r + 1) PROVE Sound(R[Edit(x, n)], r + 1)
    <3> DEFINE y == R[Edit(x, n)]
               s == path[n + 1]
    <3>1. \A c \in Children(x) : Sound(c.value, r)
      <4>1. (r + 1) - 1 = r /\ r + 1 \in Nat
        OBVIOUS
      <4>2. QED
        BY <2>1, <4>1, SoundChild
    <3>2. CASE n = Len(path)
      <4>1. m = Len(path) /\ n = m /\ At(n) = path
        BY <1>0, <3>2 DEF Path
      <4>2. IsNode(y) /\ Children(y) = {}
        BY <2>1, <4>1 DEF Edited
      <4>3. \A c \in Children(y) : Sound(c.value, r)
        BY <4>2
      <4> HIDE DEF y
      <4>4. QED
        BY <4>2, <4>3, SoundParts DEF y
    <3>3. CASE n # Len(path)
      <4>1. n \in 0..(Len(path) - 1)
        BY <1>0, <3>3
      <4>2. /\ Kept(x, y, s)
            /\ n >= m => \A d \in Children(y) : d.segment # s
            /\ n < m => \A c \in Children(x) : c.segment = s =>
                 \E d \in Children(y) : d.segment = c.segment /\ d.value = R[Edit(c.value, n + 1)]
        BY <2>1, <4>1 DEF Edited
      <4>3. PICK z \in There(v, At(n)) : \E c \in Children(z) : c.segment = s /\ c.value \in There(v, At(n + 1))
        BY <4>1, OnTheWay
      <4>4. z = x
        BY <2>1, ThereOne
      <4>5. PICK c \in Children(x) : c.segment = s /\ c.value \in There(v, At(n + 1))
        BY <4>3, <4>4
      <4> HIDE DEF y, s, At
      <4>6. IsNode(y)
        BY <4>2 DEF Kept
      <4>7. ASSUME NEW d \in Children(y) PROVE Sound(d.value, r)
        <5>1. CASE d.segment # s
          BY <3>1, <4>2, <5>1 DEF Kept
        <5>2. CASE d.segment = s
          <6>1. n < m /\ n + 1 \in 0..m
            BY <1>0, <4>1, <4>2, <5>2
          <6>2. PICK e \in Children(y) : e.segment = c.segment /\ e.value = R[Edit(c.value, n + 1)]
            BY <4>2, <4>5, <6>1
          <6>3. e = d
            BY <4>5, <4>6, <5>2, <6>2, ChildUnique
          <6>4. Sound(R[Edit(c.value, n + 1)], r)
            BY <1>2, <3>1, <4>5, <6>1
          <6>5. QED
            BY <6>2, <6>3, <6>4
        <5>3. QED
          BY <5>1, <5>2
      <4>8. Sound(y, r + 1)
        BY <4>6, <4>7, SoundParts
      <4>9. QED
        BY <4>8 DEF y
    <3>4. QED
      BY <3>2, <3>3
  <2> HIDE DEF At
  <2>2. QED
    BY <2>1
<1>3. Nat \subseteq T
  <2> HIDE DEF T
  <2>1. QED
    BY <1>1, <1>2, SetInduction
<1>4. QED
  BY <1>3

\* What is one segment further in one body is so in another that holds the same there.
LEMMA PassOn ==
  ASSUME NEW v, IsBody(v), NEW w, IsBody(w), NEW q \in Path, NEW s \in Segment,
         \A x \in There(v, q) : \E y \in There(w, q) :
           \A c \in Children(x) : c.segment = s => c \in Children(y)
  PROVE  There(v, Append(q, s)) \subseteq There(w, Append(q, s))
<1>1. ASSUME NEW z \in There(v, Append(q, s)) PROVE z \in There(w, Append(q, s))
  <2>1. PICK x \in There(v, q) : \E c \in Children(x) : c.value = z /\ c.segment = s
    BY ThereAbove
  <2>2. PICK c \in Children(x) : c.value = z /\ c.segment = s
    BY <2>1
  <2>3. PICK y \in There(w, q) : \A d \in Children(x) : d.segment = s => d \in Children(y)
    OBVIOUS
  <2>4. c \in Children(y)
    BY <2>2, <2>3
  <2>5. c.value \in There(w, Append(q, c.segment))
    BY <2>4, ThereBelow
  <2>6. QED
    BY <2>2, <2>5
<1>2. QED
  BY <1>1

\* On the way an edit leaves its own values; elsewhere it leaves what was there.
LEMMA EditPlaces ==
  ASSUME NEW v, IsBody(v), NEW path \in Path, There(v, path) # {}, NEW R, NEW m, Edited(R, v, path, m),
         NEW w, w = R[Edit(v, 0)], IsBody(w)
  PROVE  \A n \in Nat : \A q \in Path : Len(q) = n =>
           /\ Begins(q, path) /\ n <= m => \A x \in There(v, q) : R[Edit(x, n)] \in There(w, q)
           /\ ~Begins(q, path) /\ ~Begins(path, q) => There(w, q) = There(v, q)
<1> DEFINE Way(n, q) == Begins(q, path) /\ n <= m => \A x \in There(v, q) : R[Edit(x, n)] \in There(w, q)
           Off(q) == ~Begins(q, path) /\ ~Begins(path, q) => There(w, q) = There(v, q)
           T == {n \in Nat : \A q \in Path : Len(q) = n => Way(n, q) /\ Off(q)}
<1>0. m \in 0..Len(path) /\ Len(path) \in Nat /\ Len(path) - 1 <= m
  BY DEF Edited, Path
<1>1. 0 \in T
  <2>1. ASSUME NEW q \in Path, Len(q) = 0 PROVE Way(0, q) /\ Off(q)
    <3>1. q = <<>> /\ <<>> \in Path
      BY <2>1, PathEmpty
    <3>2. Begins(q, path)
      BY <1>0, <3>1, BeginsBasics DEF Begins, Path
    <3>3. v \in There(v, q) /\ w \in There(w, q)
      BY <3>1, ThereRoot
    <3>4. ASSUME NEW x \in There(v, q) PROVE R[Edit(x, 0)] \in There(w, q)
      <4>1. x = v
        BY <3>3, ThereOne
      <4>2. QED
        BY <3>3, <4>1
    <3>5. QED
      BY <3>2, <3>4
  <2> HIDE DEF Way, Off
  <2>2. QED
    BY <2>1
<1>2. ASSUME NEW n \in Nat, n \in T PROVE n + 1 \in T
  <2>1. ASSUME NEW q \in Path, Len(q) = n + 1 PROVE Way(n + 1, q) /\ Off(q)
    <3>1. PICK p \in Path : \E s \in Segment : q = Append(p, s) /\ Len(p) = n
      BY <2>1, PathLonger
    <3>2. PICK s \in Segment : q = Append(p, s) /\ Len(p) = n
      BY <3>1
    <3>3. Way(n, p) /\ Off(p)
      <4> HIDE DEF Way, Off
      <4>1. QED
        BY <1>2, <3>2
    <3>4. Begins(p, q)
      BY <3>2, BeginsLonger
    <3>5. Begins(p, path) /\ p # path => n \in 0..(Len(path) - 1) /\ p = SubSeq(path, 1, n) /\ n <= m
      <4> SUFFICES ASSUME Begins(p, path), p # path
                   PROVE  n \in 0..(Len(path) - 1) /\ p = SubSeq(path, 1, n) /\ n <= m
        OBVIOUS
      <4>1. Len(p) \in 0..Len(path) /\ p = SubSeq(path, 1, Len(p)) /\ ~(Len(p) >= Len(path))
        BY BeginsBasics
      <4>2. n \in 0..Len(path) /\ ~(n >= Len(path)) /\ p = SubSeq(path, 1, n)
        BY <3>2, <4>1
      <4>3. QED
        BY <1>0, <4>2
    <3>6. ASSUME Begins(q, path), n + 1 <= m, NEW x \in There(v, q) PROVE R[Edit(x, n + 1)] \in There(w, q)
      <4>1. Begins(p, path)
        BY <3>4, <3>6, BeginsThrough
      <4>2. p # path
        <5>1. Len(q) \in 0..Len(path)
          BY <3>6, BeginsBasics
        <5>2. QED
          BY <1>0, <2>1, <3>2, <5>1
      <4>3. n \in 0..(Len(path) - 1) /\ p = SubSeq(path, 1, n) /\ n < m /\ n <= m
        BY <1>0, <3>5, <3>6, <4>1, <4>2
      <4>4. s = path[n + 1]
        <5>1. Len(q) \in 0..Len(path) /\ q = SubSeq(path, 1, Len(q))
          BY <3>6, BeginsBasics
        <5>2. q = SubSeq(path, 1, n + 1)
          BY <2>1, <5>1
        <5>3. q = Append(p, path[n + 1])
          BY <4>3, <5>2, UpTo
        <5>4. path[n + 1] \in Segment
          BY <4>3, UpTo
        <5>5. Append(p, s)[n + 1] = s /\ Append(p, path[n + 1])[n + 1] = path[n + 1]
          BY <3>2, <5>4 DEF Path
        <5>6. QED
          BY <3>2, <5>3, <5>5
      <4>5. PICK z \in There(v, p) : \E c \in Children(z) : c.value = x /\ c.segment = s
        BY <3>2, <3>6, ThereAbove
      <4>6. PICK c \in Children(z) : c.value = x /\ c.segment = s
        BY <4>5
      <4>7. PICK d \in Children(R[Edit(z, n)]) : d.segment = c.segment /\ d.value = R[Edit(c.value, n + 1)]
        BY <4>3, <4>4, <4>6 DEF Edited
      <4>8. R[Edit(z, n)] \in There(w, p)
        BY <3>3, <4>1, <4>3
      <4>9. d.value \in There(w, Append(p, d.segment))
        BY <4>8, ThereBelow
      <4>10. QED
        BY <3>2, <4>6, <4>7, <4>9
    <3>7. ASSUME ~Begins(q, path), ~Begins(path, q) PROVE There(w, q) = There(v, q)
      <4>1. CASE Begins(p, path)
        <5>1. p # path
          BY <3>4, <3>7
        <5>2. n \in 0..(Len(path) - 1) /\ p = SubSeq(path, 1, n) /\ n <= m
          BY <3>5, <4>1, <5>1
        <5>3. s # path[n + 1]
          <6> SUFFICES ASSUME s = path[n + 1] PROVE FALSE
            OBVIOUS
          <6>1. SubSeq(path, 1, n + 1) = q /\ n + 1 \in 0..Len(path)
            BY <3>2, <5>2, UpTo
          <6>2. Begins(SubSeq(path, 1, n + 1), path)
            BY <6>1, BeginsBasics
          <6>3. QED
            BY <3>7, <6>1, <6>2
        <5>4. PICK x : x \in There(v, SubSeq(path, 1, n))
          BY <5>2, OnTheWay
        <5> DEFINE y == R[Edit(x, n)]
        <5>5. x \in There(v, p) /\ y \in There(w, p)
          BY <3>3, <4>1, <5>2, <5>4
        <5>6. Kept(x, y, path[n + 1])
          BY <5>2, <5>4 DEF Edited
        <5> HIDE DEF y
        <5>7. /\ \A c \in Children(x) : c.segment = s => c \in Children(y)
              /\ \A c \in Children(y) : c.segment = s => c \in Children(x)
          BY <5>3, <5>6 DEF Kept
        <5>8. \A z \in There(v, p) : \E u \in There(w, p) : \A c \in Children(z) : c.segment = s => c \in Children(u)
          BY <5>5, <5>7, ThereOne
        <5>9. \A z \in There(w, p) : \E u \in There(v, p) : \A c \in Children(z) : c.segment = s => c \in Children(u)
          BY <5>5, <5>7, ThereOne
        <5>10. There(v, Append(p, s)) \subseteq There(w, Append(p, s))
          BY <5>8, PassOn
        <5>11. There(w, Append(p, s)) \subseteq There(v, Append(p, s))
          BY <5>9, PassOn
        <5>12. There(w, Append(p, s)) = There(v, Append(p, s))
          BY <5>10, <5>11
        <5>13. QED
          BY <3>2, <5>12
      <4>2. CASE ~Begins(p, path)
        <5>1. ~Begins(path, p)
          BY <3>4, <3>7, BeginsThrough
        <5>2. There(w, p) = There(v, p)
          BY <3>3, <4>2, <5>1
        <5>3. There(v, Append(p, s)) \subseteq There(w, Append(p, s))
          BY <5>2, PassOn
        <5>4. There(w, Append(p, s)) \subseteq There(v, Append(p, s))
          BY <5>2, PassOn
        <5>5. There(w, Append(p, s)) = There(v, Append(p, s))
          BY <5>3, <5>4
        <5>6. QED
          BY <3>2, <5>5
      <4>3. QED
        BY <4>1, <4>2
    <3>8. QED
      BY <3>6, <3>7
  <2> HIDE DEF Way, Off
  <2>2. QED
    BY <2>1
<1>3. Nat \subseteq T
  <2> HIDE DEF T
  <2>1. QED
    BY <1>1, <1>2, SetInduction
<1>4. QED
  BY <1>3

\* A field that another value is put in.
LEMMA FieldPut ==
  ASSUME NEW x, IsNode(x), x.type = "object", NEW k \in DOMAIN x.fields, NEW z
  PROVE  /\ Kept(x, Object([x.fields EXCEPT ![k] = z]), Key(k))
         /\ [segment |-> Key(k), value |-> z] \in Children(Object([x.fields EXCEPT ![k] = z]))
<1> DEFINE f == x.fields
           g == [f EXCEPT ![k] = z]
<1>1. /\ DOMAIN f \subseteq STRING /\ IsFiniteSet(DOMAIN f) /\ f = [j \in DOMAIN f |-> f[j]]
      /\ Children(x) = {[segment |-> Key(j), value |-> f[j]] : j \in DOMAIN f}
  BY NodeKinds
<1>2. DOMAIN g = DOMAIN f /\ g[k] = z /\ g = [j \in DOMAIN g |-> g[j]] /\ \A j \in DOMAIN f : j # k => g[j] = f[j]
  BY <1>1
<1> HIDE DEF f, g
<1>3. /\ Object(g).type = "object" /\ IsNode(Object(g))
      /\ Children(Object(g)) = {[segment |-> Key(j), value |-> g[j]] : j \in DOMAIN g}
  <2>1. DOMAIN g \subseteq STRING /\ IsFiniteSet(DOMAIN g) /\ g = [j \in DOMAIN g |-> g[j]]
    BY <1>1, <1>2
  <2>2. QED
    BY <2>1, ObjectOf
<1>4. ASSUME NEW c \in Children(x), c.segment # Key(k) PROVE c \in Children(Object(g))
  <2>1. PICK j \in DOMAIN f : c = [segment |-> Key(j), value |-> f[j]]
    BY <1>1
  <2>2. j # k
    BY <1>4, <2>1
  <2>3. QED
    BY <1>2, <1>3, <2>1, <2>2
<1>5. ASSUME NEW c \in Children(Object(g)), c.segment # Key(k) PROVE c \in Children(x)
  <2>1. PICK j \in DOMAIN g : c = [segment |-> Key(j), value |-> g[j]]
    BY <1>3
  <2>2. j # k
    BY <1>5, <2>1
  <2>3. QED
    BY <1>1, <1>2, <2>1, <2>2
<1>6. Kept(x, Object(g), Key(k))
  BY <1>3, <1>4, <1>5 DEF Kept
<1>7. k \in DOMAIN g
  BY <1>2 DEF f
<1>8. [segment |-> Key(k), value |-> z] \in Children(Object(g))
  BY <1>2, <1>3, <1>7
<1>9. QED
  BY <1>6, <1>8 DEF f, g

\* An item that another value is put in.
LEMMA ItemPut ==
  ASSUME NEW x, IsNode(x), x.type = "array", NEW k \in DOMAIN x.items, NEW z
  PROVE  /\ Kept(x, Array([x.items EXCEPT ![k] = z]), Index(k))
         /\ [segment |-> Index(k), value |-> z] \in Children(Array([x.items EXCEPT ![k] = z]))
<1> DEFINE f == x.items
           g == [f EXCEPT ![k] = z]
<1>1. /\ f \in Seq({f[i] : i \in DOMAIN f}) /\ Len(f) \in Nat /\ DOMAIN f = 1..Len(f)
      /\ Children(x) = {[segment |-> Index(j), value |-> f[j]] : j \in DOMAIN f}
  BY NodeKinds
<1>2. DOMAIN g = DOMAIN f /\ g[k] = z /\ \A j \in DOMAIN f : j # k => g[j] = f[j]
  BY <1>1
<1>3. g \in Seq({g[i] : i \in DOMAIN g})
  <2>1. g = [j \in 1..Len(f) |-> g[j]]
    BY <1>1
  <2> HIDE DEF f, g
  <2> DEFINE S == {g[i] : i \in DOMAIN g}
  <2>2. \A j \in 1..Len(f) : g[j] \in S
    BY <1>1, <1>2
  <2> HIDE DEF S
  <2>3. g \in [1..Len(f) -> S]
    BY <2>1, <2>2
  <2>4. g \in Seq(S)
    BY <1>1, <2>3
  <2>5. QED
    BY <2>4 DEF S
<1> HIDE DEF f, g
<1>4. /\ Array(g).type = "array" /\ IsNode(Array(g))
      /\ Children(Array(g)) = {[segment |-> Index(j), value |-> g[j]] : j \in DOMAIN g}
  BY <1>3, ArrayOf
<1>5. ASSUME NEW c \in Children(x), c.segment # Index(k) PROVE c \in Children(Array(g))
  <2>1. PICK j \in DOMAIN f : c = [segment |-> Index(j), value |-> f[j]]
    BY <1>1
  <2>2. j # k
    BY <1>5, <2>1
  <2>3. QED
    BY <1>2, <1>4, <2>1, <2>2
<1>6. ASSUME NEW c \in Children(Array(g)), c.segment # Index(k) PROVE c \in Children(x)
  <2>1. PICK j \in DOMAIN g : c = [segment |-> Index(j), value |-> g[j]]
    BY <1>4
  <2>2. j # k
    BY <1>6, <2>1
  <2>3. QED
    BY <1>1, <1>2, <2>1, <2>2
<1>7. Kept(x, Array(g), Index(k))
  BY <1>4, <1>5, <1>6 DEF Kept
<1>8. k \in DOMAIN g
  BY <1>2 DEF f
<1>9. [segment |-> Index(k), value |-> z] \in Children(Array(g))
  BY <1>2, <1>4, <1>8
<1>10. QED
  BY <1>7, <1>9 DEF f, g

\* A field that is taken out.
LEMMA FieldTaken ==
  ASSUME NEW x, IsNode(x), x.type = "object", NEW k \in DOMAIN x.fields,
         NEW g, g = [j \in DOMAIN x.fields \ {k} |-> x.fields[j]], NEW y, y = Object(g)
  PROVE  /\ Kept(x, y, Key(k))
         /\ \A d \in Children(y) : d.segment # Key(k)
<1>1. /\ DOMAIN x.fields \subseteq STRING /\ IsFiniteSet(DOMAIN x.fields)
      /\ Children(x) = {[segment |-> Key(j), value |-> x.fields[j]] : j \in DOMAIN x.fields}
  BY NodeKinds
<1>2. DOMAIN g = DOMAIN x.fields \ {k} /\ g = [j \in DOMAIN g |-> g[j]] /\ \A j \in DOMAIN g : g[j] = x.fields[j]
  OBVIOUS
<1>3. /\ y.type = "object" /\ IsNode(y)
      /\ Children(y) = {[segment |-> Key(j), value |-> g[j]] : j \in DOMAIN g}
  <2>1. IsFiniteSet(DOMAIN g)
    BY <1>1, <1>2, FS_Subset
  <2>2. DOMAIN g \subseteq STRING /\ g = [j \in DOMAIN g |-> g[j]]
    BY <1>1, <1>2
  <2>3. QED
    BY <2>1, <2>2, ObjectOf
<1>4. ASSUME NEW c \in Children(x), c.segment # Key(k) PROVE c \in Children(y)
  <2>1. PICK j \in DOMAIN x.fields : c = [segment |-> Key(j), value |-> x.fields[j]]
    BY <1>1
  <2>2. j # k
    BY <1>4, <2>1
  <2>3. QED
    BY <1>2, <1>3, <2>1, <2>2
<1>5. ASSUME NEW c \in Children(y) PROVE c \in Children(x) /\ c.segment # Key(k)
  <2>1. PICK j \in DOMAIN g : c = [segment |-> Key(j), value |-> g[j]]
    BY <1>3
  <2>2. j # k /\ j \in DOMAIN x.fields /\ g[j] = x.fields[j]
    BY <1>2, <2>1
  <2>3. c.segment # Key(k)
    BY <2>1, <2>2, SegmentForms
  <2>4. QED
    BY <1>1, <2>1, <2>2, <2>3
<1>6. Kept(x, y, Key(k))
  BY <1>3, <1>4, <1>5 DEF Kept
<1>7. \A d \in Children(y) : d.segment # Key(k)
  BY <1>5
<1>8. QED
  BY <1>6, <1>7

\* Where the path leads through a value: it is an object with that key, or an array
\* with that index.
LEMMA WayForms ==
  ASSUME NEW v, IsBody(v), NEW path \in Path, There(v, path) # {},
         NEW n \in 0..(Len(path) - 1), NEW x \in There(v, SubSeq(path, 1, n))
  PROVE  /\ IsNode(x) /\ x \in Values(v)
         /\ \/ x.type = "object" /\ \E k \in DOMAIN x.fields : path[n + 1] = Key(k)
            \/ x.type = "array" /\ \E k \in DOMAIN x.items : path[n + 1] = Index(k)
<1>1. PICK z \in There(v, SubSeq(path, 1, n)) : \E c \in Children(z) : c.segment = path[n + 1]
  BY OnTheWay
<1>2. z = x /\ IsNode(x) /\ x \in Values(v)
  BY ThereOne
<1>3. PICK c \in Children(x) : c.segment = path[n + 1]
  BY <1>1, <1>2
<1>4. \/ x.type = "object" /\ \E k \in DOMAIN x.fields : c = [segment |-> Key(k), value |-> x.fields[k]]
      \/ x.type = "array" /\ \E k \in DOMAIN x.items : c = [segment |-> Index(k), value |-> x.items[k]]
  BY ChildForms
<1>5. QED
  BY <1>2, <1>3, <1>4

\* Replacing a value passes to the value at the path, and puts the new one there.
LEMMA ReplaceEdits ==
  ASSUME NEW v, IsBody(v), NEW path \in Path, There(v, path) # {}, NEW put, IsNode(put), Children(put) = {}
  PROVE  /\ Edited(Replacing(v, path, put), v, path, Len(path))
         /\ \A x \in There(v, path) : Replacing(v, path, put)[Edit(x, Len(path))] = put
<1> DEFINE R == Replacing(v, path, put)
<1>0. Len(path) \in Nat
  BY DEF Path
<1>1. \A q \in Edits(v, path) : R[q] = ReplaceCall(R, q, path, put)
  BY <1>0, ReplacingIs
<1> HIDE DEF R
<1>2. ASSUME NEW n \in 0..Len(path), NEW x \in There(v, SubSeq(path, 1, n))
      PROVE  /\ R[Edit(x, n)] = ReplaceCall(R, Edit(x, n), path, put)
             /\ Edit(x, n).value = x /\ Edit(x, n).behind = n
  <2>1. x \in Values(v)
    BY ThereOne
  <2>2. Edit(x, n) \in Edits(v, path) /\ Edit(x, n).value = x /\ Edit(x, n).behind = n
    BY <2>1, EditTypes
  <2>3. QED
    BY <1>1, <2>2
<1>3. ASSUME NEW x \in There(v, path) PROVE R[Edit(x, Len(path))] = put
  <2>1. Len(path) \in 0..Len(path) /\ SubSeq(path, 1, Len(path)) = path
    BY <1>0 DEF Path
  <2>2. R[Edit(x, Len(path))] = ReplaceCall(R, Edit(x, Len(path)), path, put) /\ Edit(x, Len(path)).behind = Len(path)
    BY <1>2, <2>1
  <2>3. QED
    BY <2>2 DEF ReplaceCall
<1>4. ASSUME NEW n \in 0..(Len(path) - 1), NEW x \in There(v, SubSeq(path, 1, n))
      PROVE  /\ Kept(x, R[Edit(x, n)], path[n + 1])
             /\ \A c \in Children(x) : c.segment = path[n + 1] =>
                  \E d \in Children(R[Edit(x, n)]) : d.segment = c.segment /\ d.value = R[Edit(c.value, n + 1)]
  <2> DEFINE s == path[n + 1]
             y == R[Edit(x, n)]
  <2>0. n \in 0..Len(path) /\ n # Len(path)
    BY <1>0
  <2>1. /\ y = ReplaceCall(R, Edit(x, n), path, put)
        /\ Edit(x, n).value = x /\ Edit(x, n).behind = n
    BY <1>2, <2>0
  <2>2. /\ IsNode(x)
        /\ \/ x.type = "object" /\ \E k \in DOMAIN x.fields : s = Key(k)
           \/ x.type = "array" /\ \E k \in DOMAIN x.items : s = Index(k)
    BY WayForms
  <2> HIDE DEF s, y
  <2>3. ASSUME NEW w, NEW e \in Children(x), e.segment = s, w = R[Edit(e.value, n + 1)],
               Kept(x, y, s), [segment |-> s, value |-> w] \in Children(y)
        PROVE  \A c \in Children(x) : c.segment = s =>
                 \E d \in Children(y) : d.segment = c.segment /\ d.value = R[Edit(c.value, n + 1)]
    <3>1. ASSUME NEW c \in Children(x), c.segment = s
          PROVE  \E d \in Children(y) : d.segment = c.segment /\ d.value = R[Edit(c.value, n + 1)]
      <4>1. c = e
        BY <2>2, <2>3, <3>1, ChildUnique
      <4> DEFINE d == [segment |-> s, value |-> w]
      <4>2. d \in Children(y) /\ d.segment = c.segment /\ d.value = R[Edit(c.value, n + 1)]
        BY <2>3, <3>1, <4>1
      <4> HIDE DEF d
      <4>3. QED
        BY <4>2
    <3>2. QED
      BY <3>1
  <2>4. ASSUME x.type = "object", NEW k \in DOMAIN x.fields, s = Key(k)
        PROVE  /\ Kept(x, y, s)
               /\ \E e \in Children(x) : e.segment = s
                    /\ [segment |-> s, value |-> R[Edit(e.value, n + 1)]] \in Children(y)
    <3> DEFINE w == R[Edit(x.fields[k], n + 1)]
    <3>1. IsKey(s) /\ s.key = k
      BY <2>4, SegmentForms
    <3>2. y = Object([x.fields EXCEPT ![k] = w])
      BY <2>0, <2>1, <2>4, <3>1 DEF ReplaceCall, s
    <3> HIDE DEF w
    <3>3. Kept(x, y, Key(k)) /\ [segment |-> Key(k), value |-> w] \in Children(y)
      BY <2>2, <2>4, <3>2, FieldPut
    <3> DEFINE e == [segment |-> Key(k), value |-> x.fields[k]]
    <3>4. e \in Children(x) /\ e.segment = s /\ e.value = x.fields[k]
      BY <2>2, <2>4, FieldOf
    <3> HIDE DEF e
    <3>5. w = R[Edit(e.value, n + 1)]
      BY <3>4 DEF w
    <3>6. QED
      BY <2>4, <3>3, <3>4, <3>5
  <2>5. ASSUME x.type = "array", NEW k \in DOMAIN x.items, s = Index(k)
        PROVE  /\ Kept(x, y, s)
               /\ \E e \in Children(x) : e.segment = s
                    /\ [segment |-> s, value |-> R[Edit(e.value, n + 1)]] \in Children(y)
    <3> DEFINE w == R[Edit(x.items[k], n + 1)]
    <3>1. IsIndex(s) /\ ~IsKey(s) /\ s.index = k
      BY <2>5, SegmentForms DEF IsKey, IsIndex
    <3>2. y = Array([x.items EXCEPT ![k] = w])
      BY <2>0, <2>1, <2>5, <3>1 DEF ReplaceCall, ReplaceItem, s
    <3> HIDE DEF w
    <3>3. Kept(x, y, Index(k)) /\ [segment |-> Index(k), value |-> w] \in Children(y)
      BY <2>2, <2>5, <3>2, ItemPut
    <3> DEFINE e == [segment |-> Index(k), value |-> x.items[k]]
    <3>4. e \in Children(x) /\ e.segment = s /\ e.value = x.items[k]
      BY <2>2, <2>5, ItemOf
    <3> HIDE DEF e
    <3>5. w = R[Edit(e.value, n + 1)]
      BY <3>4 DEF w
    <3>6. QED
      BY <2>5, <3>3, <3>4, <3>5
  <2>6. /\ Kept(x, y, s)
        /\ \E e \in Children(x) : e.segment = s
             /\ [segment |-> s, value |-> R[Edit(e.value, n + 1)]] \in Children(y)
    BY <2>2, <2>4, <2>5
  <2>7. PICK e \in Children(x) : e.segment = s /\ [segment |-> s, value |-> R[Edit(e.value, n + 1)]] \in Children(y)
    BY <2>6
  <2>8. \A c \in Children(x) : c.segment = s =>
          \E d \in Children(y) : d.segment = c.segment /\ d.value = R[Edit(c.value, n + 1)]
    BY <2>3, <2>6, <2>7
  <2>9. QED
    BY <2>6, <2>8 DEF s, y
<1>5. \A x \in There(v, path) : IsNode(R[Edit(x, Len(path))]) /\ Children(R[Edit(x, Len(path))]) = {}
  BY <1>3
<1>6. \A n \in 0..(Len(path) - 1) : ~(n >= Len(path))
  BY <1>0
<1>7. Len(path) \in 0..Len(path) /\ Len(path) - 1 <= Len(path)
  BY <1>0
<1>8. Edited(R, v, path, Len(path))
  BY <1>4, <1>5, <1>6, <1>7 DEF Edited
<1>9. QED
  BY <1>3, <1>8 DEF R

\* Removing a value passes to the object that has it, and takes it out there.
LEMMA RemoveEdits ==
  ASSUME NEW v, IsBody(v), NEW path \in Path, There(v, path) # {}, path # <<>>, IsKey(path[Len(path)])
  PROVE  Edited(Removing(v, path), v, path, Len(path) - 1)
<1> DEFINE R == Removing(v, path)
           m == Len(path) - 1
<1>0. Len(path) \in Nat /\ Len(path) # 0 /\ m \in 0..Len(path) /\ m \in 0..(Len(path) - 1)
  BY PathEmpty DEF Path
<1>1. \A q \in Edits(v, path) : R[q] = RemoveCall(R, q, path)
  BY <1>0, RemovingIs
<1> HIDE DEF R
<1>2. ASSUME NEW n \in 0..m, NEW x \in There(v, SubSeq(path, 1, n))
      PROVE  /\ R[Edit(x, n)] = RemoveCall(R, Edit(x, n), path)
             /\ Edit(x, n).value = x /\ Edit(x, n).behind = n
  <2>1. x \in Values(v) /\ n \in 0..Len(path)
    BY <1>0, ThereOne
  <2>2. Edit(x, n) \in Edits(v, path) /\ Edit(x, n).value = x /\ Edit(x, n).behind = n
    BY <2>1, EditTypes
  <2>3. QED
    BY <1>1, <2>2
<1>3. ASSUME NEW n \in 0..(Len(path) - 1), NEW x \in There(v, SubSeq(path, 1, n))
      PROVE  /\ Kept(x, R[Edit(x, n)], path[n + 1])
             /\ n >= m => \A d \in Children(R[Edit(x, n)]) : d.segment # path[n + 1]
             /\ n < m => \A c \in Children(x) : c.segment = path[n + 1] =>
                  \E d \in Children(R[Edit(x, n)]) : d.segment = c.segment /\ d.value = R[Edit(c.value, n + 1)]
  <2> DEFINE s == path[n + 1]
             y == R[Edit(x, n)]
  <2>0. n # Len(path) /\ (n < m => n + 1 # Len(path)) /\ (n >= m => n + 1 = Len(path))
    BY <1>0
  <2>1. /\ y = RemoveCall(R, Edit(x, n), path)
        /\ Edit(x, n).value = x /\ Edit(x, n).behind = n
    BY <1>2, <1>0
  <2>2. /\ IsNode(x)
        /\ \/ x.type = "object" /\ \E k \in DOMAIN x.fields : s = Key(k)
           \/ x.type = "array" /\ \E k \in DOMAIN x.items : s = Index(k)
    BY WayForms
  <2> HIDE DEF y
  <2>3. ASSUME NEW w, NEW e \in Children(x), e.segment = s, w = R[Edit(e.value, n + 1)],
               Kept(x, y, s), [segment |-> s, value |-> w] \in Children(y)
        PROVE  \A c \in Children(x) : c.segment = s =>
                 \E d \in Children(y) : d.segment = c.segment /\ d.value = R[Edit(c.value, n + 1)]
    <3> HIDE DEF s
    <3>1. ASSUME NEW c \in Children(x), c.segment = s
          PROVE  \E d \in Children(y) : d.segment = c.segment /\ d.value = R[Edit(c.value, n + 1)]
      <4>1. c = e
        BY <2>2, <2>3, <3>1, ChildUnique
      <4> DEFINE d == [segment |-> s, value |-> w]
      <4>2. d \in Children(y) /\ d.segment = c.segment /\ d.value = R[Edit(c.value, n + 1)]
        BY <2>3, <3>1, <4>1
      <4> HIDE DEF d
      <4>3. QED
        BY <4>2
    <3>2. QED
      BY <3>1
  <2>4. CASE n < m
    <3> HIDE DEF s
    <3>1. ASSUME x.type = "object", NEW k \in DOMAIN x.fields, s = Key(k)
          PROVE  /\ Kept(x, y, s)
                 /\ \E e \in Children(x) : e.segment = s
                      /\ [segment |-> s, value |-> R[Edit(e.value, n + 1)]] \in Children(y)
      <4> DEFINE w == R[Edit(x.fields[k], n + 1)]
      <4>1. IsKey(s) /\ s.key = k
        BY <3>1, SegmentForms
      <4>2. y = Object([x.fields EXCEPT ![k] = w])
        BY <2>0, <2>1, <2>4, <3>1, <4>1 DEF RemoveCall, s
      <4> HIDE DEF w
      <4>3. Kept(x, y, Key(k)) /\ [segment |-> Key(k), value |-> w] \in Children(y)
        BY <2>2, <3>1, <4>2, FieldPut
      <4> DEFINE e == [segment |-> Key(k), value |-> x.fields[k]]
      <4>4. e \in Children(x) /\ e.segment = s /\ e.value = x.fields[k]
        BY <2>2, <3>1, FieldOf
      <4> HIDE DEF e
      <4>5. w = R[Edit(e.value, n + 1)]
        BY <4>4 DEF w
      <4>6. QED
        BY <3>1, <4>3, <4>4, <4>5
    <3>2. ASSUME x.type = "array", NEW k \in DOMAIN x.items, s = Index(k)
          PROVE  /\ Kept(x, y, s)
                 /\ \E e \in Children(x) : e.segment = s
                      /\ [segment |-> s, value |-> R[Edit(e.value, n + 1)]] \in Children(y)
      <4> DEFINE w == R[Edit(x.items[k], n + 1)]
      <4>1. IsIndex(s) /\ ~IsKey(s) /\ s.index = k
        BY <3>2, SegmentForms DEF IsKey, IsIndex
      <4>2. y = Array([x.items EXCEPT ![k] = w])
        BY <2>0, <2>1, <2>4, <3>2, <4>1 DEF RemoveCall, s
      <4> HIDE DEF w
      <4>3. Kept(x, y, Index(k)) /\ [segment |-> Index(k), value |-> w] \in Children(y)
        BY <2>2, <3>2, <4>2, ItemPut
      <4> DEFINE e == [segment |-> Index(k), value |-> x.items[k]]
      <4>4. e \in Children(x) /\ e.segment = s /\ e.value = x.items[k]
        BY <2>2, <3>2, ItemOf
      <4> HIDE DEF e
      <4>5. w = R[Edit(e.value, n + 1)]
        BY <4>4 DEF w
      <4>6. QED
        BY <3>2, <4>3, <4>4, <4>5
    <3>3. /\ Kept(x, y, s)
          /\ \E e \in Children(x) : e.segment = s
               /\ [segment |-> s, value |-> R[Edit(e.value, n + 1)]] \in Children(y)
      BY <2>2, <3>1, <3>2
    <3>4. PICK e \in Children(x) : e.segment = s /\ [segment |-> s, value |-> R[Edit(e.value, n + 1)]] \in Children(y)
      BY <3>3
    <3>5. \A c \in Children(x) : c.segment = s =>
            \E d \in Children(y) : d.segment = c.segment /\ d.value = R[Edit(c.value, n + 1)]
      BY <2>3, <3>3, <3>4
    <3>6. ~(n >= m)
      BY <1>0, <2>4
    <3>7. QED
      BY <3>3, <3>5, <3>6 DEF s, y
  <2>5. CASE ~(n < m)
    <3>1. n >= m /\ n + 1 = Len(path)
      BY <1>0, <2>0, <2>5
    <3>2. IsKey(s)
      BY <3>1
    <3> HIDE DEF s
    <3>3. x.type = "object"
      BY <2>2, <3>2, SegmentForms
    <3>4. PICK k \in DOMAIN x.fields : s = Key(k)
      BY <2>2, <3>3
    <3>5. s.key = k
      BY <3>4, SegmentForms
    <3> DEFINE g == [j \in DOMAIN x.fields \ {k} |-> x.fields[j]]
    <3>6. y = Object(g)
      BY <2>0, <2>1, <3>1, <3>2, <3>3, <3>5 DEF RemoveCall, s
    <3>7. g = [j \in DOMAIN x.fields \ {k} |-> x.fields[j]]
      OBVIOUS
    <3> HIDE DEF g
    <3>8. Kept(x, y, Key(k)) /\ \A d \in Children(y) : d.segment # Key(k)
      BY <2>2, <3>3, <3>6, <3>7, FieldTaken
    <3>9. QED
      BY <2>5, <3>4, <3>8 DEF s, y
  <2>6. QED
    BY <2>4, <2>5
<1>4. m # Len(path) /\ Len(path) - 1 <= m
  BY <1>0
<1>5. Edited(R, v, path, m)
  BY <1>0, <1>3, <1>4 DEF Edited
<1>6. QED
  BY <1>5 DEF R

\* What an edit makes of a body is a body.
LEMMA EditBody ==
  ASSUME NEW v, IsBody(v), NEW path \in Path, There(v, path) # {}, NEW R, NEW m, Edited(R, v, path, m),
         NEW w, w = R[Edit(v, 0)]
  PROVE  IsBody(w)
<1>0. m \in 0..Len(path) /\ Len(path) \in Nat /\ Len(path) - 1 <= m
  BY DEF Edited, Path
<1>1. Nesting + 1 \in Nat /\ 0 \in 0..m
  BY <1>0, NestingAssumption
<1>2. SubSeq(path, 1, 0) = <<>>
  BY <1>0 DEF Path
<1>3. v \in There(v, SubSeq(path, 1, 0))
  BY <1>2, ThereRoot
<1>4. Sound(v, Nesting + 1)
  BY BodyPositions
<1>5. Sound(R[Edit(v, 0)], Nesting + 1)
  BY <1>1, <1>3, <1>4, EditSound
<1>6. Nesting + 1 <= Nesting + 1
  BY <1>1
<1>7. QED
  BY <1>1, <1>5, <1>6, SoundBody

\* It holds on the way what the edit makes, and off it what was there.
LEMMA EditFound ==
  ASSUME NEW v, IsBody(v), NEW path \in Path, There(v, path) # {}, NEW R, NEW m, Edited(R, v, path, m),
         NEW w, w = R[Edit(v, 0)],
         NEW q \in Path
  PROVE  /\ Begins(q, path) /\ Len(q) <= m => \A x \in There(v, q) : R[Edit(x, Len(q))] \in There(w, q)
         /\ ~Begins(q, path) /\ ~Begins(path, q) => There(w, q) = There(v, q)
<1>0. IsBody(w)
  BY EditBody
<1>1. Len(q) \in Nat
  BY DEF Path
<1>2. \A n \in Nat : \A p \in Path : Len(p) = n =>
         /\ Begins(p, path) /\ n <= m => \A x \in There(v, p) : R[Edit(x, n)] \in There(w, p)
         /\ ~Begins(p, path) /\ ~Begins(path, p) => There(w, p) = There(v, p)
  BY <1>0, EditPlaces
<1>3. QED
  BY <1>1, <1>2

\* Beside the path it shows what was there.
LEMMA EditElsewhere ==
  ASSUME NEW v, IsBody(v), NEW path \in Path, There(v, path) # {}, NEW R, NEW m, Edited(R, v, path, m),
         NEW w, w = R[Edit(v, 0)],
         NEW q \in Path, ~Begins(path, q)
  PROVE  /\ \A x \in There(v, q) : \E y \in There(w, q) : Bare(y) = Bare(x)
         /\ \A y \in There(w, q) : \E x \in There(v, q) : Bare(y) = Bare(x)
<1>0. m \in 0..Len(path) /\ Len(path) \in Nat /\ Len(path) - 1 <= m
  BY DEF Edited, Path
<1>body. IsBody(w)
  BY EditBody
<1>1. CASE ~Begins(q, path)
  <2>1. There(w, q) = There(v, q)
    BY EditFound, <1>1
  <2>2. QED
    BY <2>1
<1>2. CASE Begins(q, path)
  <2> DEFINE n == Len(q)
  <2>1. q # path
    BY BeginsBasics
  <2>2. n \in 0..Len(path) /\ q = SubSeq(path, 1, n) /\ ~(n >= Len(path))
    BY <1>2, <2>1, BeginsBasics
  <2>3. n \in 0..(Len(path) - 1) /\ n <= m
    BY <1>0, <2>2
  <2>4. PICK x \in There(v, SubSeq(path, 1, n)) : x.type \in Containers
    BY <2>3, OnTheWay
  <2>5. Kept(x, R[Edit(x, n)], path[n + 1])
    BY <2>3, <2>4 DEF Edited
  <2> DEFINE y == R[Edit(x, n)]
  <2>6. y.type = x.type
    BY <2>5 DEF Kept
  <2>7. y \in There(w, q)
    BY EditFound, <1>2, <2>2, <2>3, <2>4
  <2>8. x \in There(v, q)
    BY <2>2, <2>4
  <2> HIDE DEF y, n
  <2>9. Bare(y) = Bare(x)
    BY <2>4, <2>6, BareTwice
  <2>10. \A z \in There(v, q) : z = x
    BY <2>8, ThereOne
  <2>11. \A z \in There(w, q) : z = y
    BY <1>body, <2>7, ThereOne
  <2>12. QED
    BY <2>7, <2>8, <2>9, <2>10, <2>11
<1>3. QED
  BY <1>1, <1>2

\* At the path it holds what the edit puts there, or nothing.
LEMMA EditPuts ==
  ASSUME NEW v, IsBody(v), NEW path \in Path, There(v, path) # {}, NEW R, NEW m, Edited(R, v, path, m),
         NEW w, w = R[Edit(v, 0)], m = Len(path)
  PROVE  \A x \in There(v, path) : R[Edit(x, m)] \in There(w, path)
<1>1. m \in 0..Len(path)
  BY DEF Edited
<1>2. Begins(path, path) /\ Len(path) <= m
  BY <1>1, BeginsBasics
<1>3. QED
  BY <1>2, EditFound

\* At the path of a removal there is nothing.
LEMMA EditTakes ==
  ASSUME NEW v, IsBody(v), NEW path \in Path, There(v, path) # {}, NEW R, NEW m, Edited(R, v, path, m),
         NEW w, w = R[Edit(v, 0)], m # Len(path)
  PROVE  There(w, path) = {}
<1>0. m \in 0..Len(path) /\ Len(path) \in Nat /\ Len(path) - 1 <= m
  BY DEF Edited, Path
<1>body. IsBody(w)
  BY EditBody
<1>1. m = Len(path) - 1 /\ m \in 0..(Len(path) - 1) /\ m \in Nat /\ Len(path) = m + 1
  BY <1>0
<1> DEFINE q == SubSeq(path, 1, m)
           s == path[m + 1]
<1>2. q \in Path /\ Len(q) = m /\ Begins(q, path) /\ s \in Segment /\ SubSeq(path, 1, m + 1) = Append(q, s)
  BY <1>1, UpTo
<1>3. path = Append(q, s)
  BY <1>1, <1>2, UpTo
<1>4. PICK x : x \in There(v, q)
  BY <1>1, OnTheWay
<1>5. \A d \in Children(R[Edit(x, m)]) : d.segment # s
  BY <1>0, <1>1, <1>4 DEF Edited
<1> HIDE DEF q, s
<1>6. m <= m
  BY <1>1
<1>7. R[Edit(x, m)] \in There(w, q)
  BY EditFound, <1>2, <1>4, <1>6
<1>8. ASSUME NEW z \in There(w, path) PROVE FALSE
  <2>1. z \in There(w, Append(q, s))
    BY <1>3
  <2>2. PICK y \in There(w, q) : \E c \in Children(y) : c.value = z /\ c.segment = s
    BY <1>body, <1>2, <2>1, ThereAbove
  <2>3. y = R[Edit(x, m)]
    BY <1>body, <1>7, ThereOne
  <2>4. QED
    BY <1>5, <2>2, <2>3
<1>9. QED
  BY <1>8

\* What a body shows beside a path.
Spared(v, path) ==
  {[path |-> p.path, shows |-> Bare(p.value)] : p \in {q \in Positions(v) : ~Begins(path, q.path)}}

\* What is shown beside a path is shown where the same is there.
LEMMA SparedWithin ==
  ASSUME NEW v, IsBody(v), NEW w, IsBody(w), NEW path \in Path,
         \A q \in Path : ~Begins(path, q) => \A x \in There(v, q) : \E y \in There(w, q) : Bare(y) = Bare(x)
  PROVE  Spared(v, path) \subseteq Spared(w, path)
<1>1. ASSUME NEW p \in Positions(v), ~Begins(path, p.path)
      PROVE  [path |-> p.path, shows |-> Bare(p.value)] \in Spared(w, path)
  <2>1. p.path \in Path
    BY BodyPaths
  <2>2. p.value \in There(v, p.path)
    BY DEF There
  <2>3. PICK y \in There(w, p.path) : Bare(y) = Bare(p.value)
    BY <1>1, <2>1, <2>2
  <2>4. PICK o \in Positions(w) : o.path = p.path /\ o.value = y
    BY DEF There
  <2>5. [path |-> o.path, shows |-> Bare(o.value)] \in Spared(w, path)
    BY <1>1, <2>4 DEF Spared
  <2>6. QED
    BY <2>3, <2>4, <2>5
<1>2. QED
  BY <1>1 DEF Spared

\* An edit leaves what is shown beside its path.
LEMMA EditSpares ==
  ASSUME NEW v, IsBody(v), NEW path \in Path, There(v, path) # {}, NEW R, NEW m, Edited(R, v, path, m),
         NEW w, w = R[Edit(v, 0)]
  PROVE  Spared(w, path) = Spared(v, path)
<1>1. IsBody(w)
  BY EditBody
<1>2. \A q \in Path : ~Begins(path, q) => \A x \in There(v, q) : \E y \in There(w, q) : Bare(y) = Bare(x)
  BY EditElsewhere
<1>3. \A q \in Path : ~Begins(path, q) => \A y \in There(w, q) : \E x \in There(v, q) : Bare(x) = Bare(y)
  BY EditElsewhere
<1>4. Spared(v, path) \subseteq Spared(w, path)
  BY <1>1, <1>2, SparedWithin
<1>5. Spared(w, path) \subseteq Spared(v, path)
  BY <1>1, <1>3, SparedWithin
<1>6. QED
  BY <1>4, <1>5

\* A position that a body has is a path that leads to something.
LEMMA TargetThere ==
  ASSUME NEW v, IsBody(v), NEW p \in Positions(v)
  PROVE  p.path \in Path /\ p.value \in There(v, p.path) /\ There(v, p.path) # {}
<1>1. p.path \in Path
  BY BodyPaths
<1>2. p.value \in There(v, p.path)
  BY DEF There
<1>3. QED
  BY <1>1, <1>2

\* mutator.rs: replacing a value, ...
LEMMA ReplacePrecise ==
  ASSUME NEW v, IsBody(v), NEW p \in Positions(v), NEW put, IsNode(put), Children(put) = {}
  PROVE  /\ Spared(Replace(v, p.path, put), p.path) = Spared(v, p.path)
         /\ There(Replace(v, p.path, put), p.path) = {put}
<1> DEFINE path == p.path
           R == Replacing(v, path, put)
           w == R[Edit(v, 0)]
<1>1. path \in Path /\ p.value \in There(v, path) /\ There(v, path) # {}
  BY TargetThere
<1> HIDE DEF path
<1>2. Edited(R, v, path, Len(path)) /\ \A x \in There(v, path) : R[Edit(x, Len(path))] = put
  BY <1>1, ReplaceEdits
<1>0. w = R[Edit(v, 0)]
  OBVIOUS
<1> HIDE DEF R, w
<1>3. Spared(w, path) = Spared(v, path)
  BY <1>0, <1>1, <1>2, EditSpares
<1>4. There(w, path) = {put}
  <2> DEFINE m == Len(path)
  <2>1. m = Len(path) /\ Edited(R, v, path, m) /\ \A x \in There(v, path) : R[Edit(x, m)] = put
    BY <1>2
  <2> HIDE DEF m
  <2>2. \A x \in There(v, path) : R[Edit(x, m)] \in There(w, path)
    BY <1>0, <1>1, <2>1, EditPuts
  <2>3. IsBody(w)
    BY <1>0, <1>1, <2>1, EditBody
  <2>4. put \in There(w, path)
    BY <1>1, <2>1, <2>2
  <2>5. QED
    BY <2>3, <2>4, ThereOne
<1>5. w = Replace(v, path, put)
  BY DEF Replace, R, w
<1>6. QED
  BY <1>3, <1>4, <1>5 DEF path

\* ... and removing a field, change that alone.
LEMMA RemovePrecise ==
  ASSUME NEW v, IsBody(v), NEW p \in Positions(v), p.path # <<>>, IsKey(p.path[Len(p.path)])
  PROVE  /\ Spared(RemovePath(v, p.path), p.path) = Spared(v, p.path)
         /\ There(RemovePath(v, p.path), p.path) = {}
<1> DEFINE path == p.path
           R == Removing(v, path)
           w == R[Edit(v, 0)]
<1>1. path \in Path /\ There(v, path) # {} /\ path # <<>> /\ IsKey(path[Len(path)])
  BY TargetThere
<1> HIDE DEF path
<1>2. Edited(R, v, path, Len(path) - 1)
  BY <1>1, RemoveEdits
<1>0. w = R[Edit(v, 0)]
  OBVIOUS
<1> HIDE DEF R, w
<1>3. Len(path) - 1 # Len(path)
  BY <1>1 DEF Path
<1>4. Spared(w, path) = Spared(v, path)
  BY <1>0, <1>1, <1>2, EditSpares
<1>5. There(w, path) = {}
  BY <1>0, <1>1, <1>2, <1>3, EditTakes
<1>6. w = RemovePath(v, path)
  BY DEF RemovePath, R, w
<1>7. QED
  BY <1>4, <1>5, <1>6 DEF path

\* What is tried in place of a value holds nothing.
LEMMA ProbesBare ==
  /\ IsNode(Null) /\ Children(Null) = {}
  /\ \A v : \A put \in Probes(v) : IsNode(put) /\ Children(put) = {}
<1>1. IsNode(Null) /\ Children(Null) = {}
  BY DEF Null, IsNode, Children
<1>2. \A t \in {"sqli", "xss", "", "oversized"} : IsNode(Text(t)) /\ Children(Text(t)) = {}
  BY DEF Text, IsNode, Children
<1>3. \A n \in Int : IsNode(Number(n)) /\ Children(Number(n)) = {}
  BY DEF Number, IsNode, Children
<1>4. IsNode(Array(<<>>)) /\ Children(Array(<<>>)) = {}
  <2>1. <<>> \in Seq({<<>>[i] : i \in DOMAIN <<>>}) /\ DOMAIN <<>> = {}
    OBVIOUS
  <2> DEFINE s == <<>>
  <2> HIDE DEF s
  <2>2. s \in Seq({s[i] : i \in DOMAIN s}) /\ DOMAIN s = {}
    BY <2>1 DEF s
  <2>3. IsNode(Array(s)) /\ Children(Array(s)) = {}
    BY <2>2, ArrayOf
  <2>4. QED
    BY <2>3 DEF s
<1>5. ASSUME NEW v, NEW put \in Probes(v) PROVE IsNode(put) /\ Children(put) = {}
  <2>1. \/ put \in TextProbes
        \/ put \in NumberProbes
        \/ put = Array(<<>>)
    BY <1>5 DEF Probes
  <2>2. CASE put \in TextProbes
    BY <1>2, <2>2 DEF TextProbes
  <2>3. CASE put \in NumberProbes
    <3>1. PICK n \in Int : put = Number(n)
      BY <2>3, MutatorAssumption DEF NumberProbes
    <3>2. QED
      BY <1>3, <3>1
  <2>4. QED
    BY <1>4, <2>1, <2>2, <2>3
<1>6. QED
  BY <1>1, <1>5

\* A mutation takes away a field, or puts something without parts in a value's place.
LEMMA MutationForms ==
  ASSUME NEW v, NEW m \in GenerateMutations(v), m.change # "payload",
         \A p \in Positions(v) : Segments(p.path) = p.path
  PROVE  \E p \in Positions(v) :
           /\ m.path = p.path
           /\ \/ /\ m.change = "missing" /\ m.body = RemovePath(v, p.path)
                 /\ p.path # <<>> /\ IsKey(p.path[Len(p.path)])
              \/ /\ m.change = "replaced" /\ m.body = Replace(v, p.path, m.new)
                 /\ IsNode(m.new) /\ Children(m.new) = {}
<1> DEFINE at == Positions(v)
           fields == {p \in at : p.path # <<>> /\ IsKey(Last(p.path))}
           Put(path, new) == Case("replaced", path, new, Replace(v, Segments(path), new))
<1>1. \/ \E new \in {Null, EmptyObject} : m = Case("payload", <<>>, new, new)
      \/ \E p \in fields : m = Case("missing", p.path, Null, RemovePath(v, Segments(p.path)))
      \/ \E p \in fields : m = Put(p.path, Null)
      \/ \E p \in at : \E new \in Probes(p.value) : m = Put(p.path, new)
  BY DEF GenerateMutations
<1>2. \A kind, path, new, body : LET c == Case(kind, path, new, body)
                                   IN  c.change = kind /\ c.path = path /\ c.new = new /\ c.body = body
  BY DEF Case
<1>3. CASE \E new \in {Null, EmptyObject} : m = Case("payload", <<>>, new, new)
  BY <1>2, <1>3
<1>4. CASE \E p \in fields : m = Case("missing", p.path, Null, RemovePath(v, Segments(p.path)))
  <2>1. PICK p \in fields : m = Case("missing", p.path, Null, RemovePath(v, Segments(p.path)))
    BY <1>4
  <2>2. p \in Positions(v) /\ p.path # <<>> /\ IsKey(p.path[Len(p.path)])
    BY DEF Last
  <2>3. m.change = "missing" /\ m.path = p.path /\ m.body = RemovePath(v, p.path)
    BY <1>2, <2>1, <2>2
  <2>4. QED
    BY <2>2, <2>3
<1>5. CASE \/ \E p \in fields : m = Put(p.path, Null)
           \/ \E p \in at : \E new \in Probes(p.value) : m = Put(p.path, new)
  <2>1. PICK p \in at : \E new : m = Put(p.path, new) /\ IsNode(new) /\ Children(new) = {}
    BY <1>5, ProbesBare
  <2>2. PICK new : m = Put(p.path, new) /\ IsNode(new) /\ Children(new) = {}
    BY <2>1
  <2>3. m.change = "replaced" /\ m.path = p.path /\ m.new = new /\ m.body = Replace(v, p.path, new)
    BY <1>2, <2>2
  <2>4. QED
    BY <2>2, <2>3
<1>6. QED
  BY <1>1, <1>3, <1>4, <1>5

\* Each field is taken away in one mutation, and each text, number or array replaced.
LEMMA MutationTargets ==
  ASSUME NEW v, NEW p \in Positions(v)
  PROVE  /\ p.path # <<>> /\ IsKey(p.path[Len(p.path)]) =>
              \E m \in GenerateMutations(v) : m.change = "missing" /\ m.path = p.path
         /\ p.value.type \in {"string", "number", "array"} =>
              \E m \in GenerateMutations(v) : m.change = "replaced" /\ m.path = p.path
<1>0. \A kind, path, new, body : LET c == Case(kind, path, new, body)
                                   IN  c.change = kind /\ c.path = path
  BY DEF Case
<1>1. ASSUME p.path # <<>>, IsKey(p.path[Len(p.path)])
      PROVE  \E m \in GenerateMutations(v) : m.change = "missing" /\ m.path = p.path
  <2> DEFINE m == Case("missing", p.path, Null, RemovePath(v, Segments(p.path)))
  <2>1. m \in GenerateMutations(v)
    BY <1>1 DEF GenerateMutations, Last
  <2>2. m.change = "missing" /\ m.path = p.path
    BY <1>0
  <2> HIDE DEF m
  <2>3. QED
    BY <2>1, <2>2
<1>2. ASSUME p.value.type \in {"string", "number", "array"}
      PROVE  \E m \in GenerateMutations(v) : m.change = "replaced" /\ m.path = p.path
  <2>1. Text("sqli") \in TextProbes /\ Number(0) \in NumberProbes
    BY DEF TextProbes, NumberProbes
  <2>2. \E new : new \in Probes(p.value)
    BY <1>2, <2>1 DEF Probes
  <2>3. PICK new : new \in Probes(p.value)
    BY <2>2
  <2> DEFINE m == Case("replaced", p.path, new, Replace(v, Segments(p.path), new))
  <2>4. m \in GenerateMutations(v)
    BY <2>3 DEF GenerateMutations
  <2>5. m.change = "replaced" /\ m.path = p.path
    BY <1>0
  <2> HIDE DEF m
  <2>6. QED
    BY <2>4, <2>5
<1>3. QED
  BY <1>1, <1>2

\* What fuzz has in hand are such mutations.
LEMMA FuzzingPrecise == EngineIInv => MutationsPrecise
<1> SUFFICES ASSUME EngineIInv, phase = "fuzzed", \A p \in Positions(answered) : Segments(p.path) = p.path
             PROVE  /\ \A m \in report : m.change # "payload" =>
                         /\ Spared(m.body, m.path) = Spared(answered, m.path)
                         /\ There(m.body, m.path) = IF m.change = "missing" THEN {} ELSE {m.new}
                    /\ \A p \in Positions(answered) :
                         /\ p.path # <<>> /\ IsKey(p.path[Len(p.path)]) =>
                              \E m \in report : m.change = "missing" /\ m.path = p.path
                         /\ p.value.type \in {"string", "number", "array"} =>
                              \E m \in report : m.change = "replaced" /\ m.path = p.path
  BY DEF MutationsPrecise, Spared, Begins, There
<1>1. answered \in Payloads /\ report = GenerateMutations(answered)
  BY DEF EngineIInv
<1>2. IsBody(answered)
  BY <1>1, EngineAssumption
<1>3. ASSUME NEW m \in report, m.change # "payload"
      PROVE  /\ Spared(m.body, m.path) = Spared(answered, m.path)
             /\ There(m.body, m.path) = IF m.change = "missing" THEN {} ELSE {m.new}
  <2>1. PICK p \in Positions(answered) :
           /\ m.path = p.path
           /\ \/ /\ m.change = "missing" /\ m.body = RemovePath(answered, p.path)
                 /\ p.path # <<>> /\ IsKey(p.path[Len(p.path)])
              \/ /\ m.change = "replaced" /\ m.body = Replace(answered, p.path, m.new)
                 /\ IsNode(m.new) /\ Children(m.new) = {}
    BY <1>1, <1>3, MutationForms
  <2>2. CASE m.change = "missing"
    BY <1>2, <2>1, <2>2, RemovePrecise
  <2>3. CASE m.change = "replaced"
    BY <1>2, <2>1, <2>3, ReplacePrecise
  <2>4. QED
    BY <2>1, <2>2, <2>3
<1>4. \A p \in Positions(answered) :
         /\ p.path # <<>> /\ IsKey(p.path[Len(p.path)]) =>
              \E m \in report : m.change = "missing" /\ m.path = p.path
         /\ p.value.type \in {"string", "number", "array"} =>
              \E m \in report : m.change = "replaced" /\ m.path = p.path
  BY <1>1, MutationTargets
<1>5. QED
  BY <1>3, <1>4

\* mutator.rs: each mutation of a request's body changes its target as it says and
\* nothing beside it, and no field, text, number or array is forgotten, whatever the
\* body holds (Engine!MutationsPrecise).
THEOREM EngineMutationsPrecise == EngineSpec => []MutationsPrecise
<1>1. EngineIInv => MutationsPrecise
  BY FuzzingPrecise
<1>2. QED
  BY <1>1, EngineIInvInit, EngineIInvStep, PTL DEF EngineSpec
=============================================================================
