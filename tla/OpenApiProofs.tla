--------------------------- MODULE OpenApiProofs ---------------------------
(***************************************************************************)
(* Theorems about OpenApi, for all configurations, answers, masks, formats *)
(* and supplied files: a specification passes the plain bodies that it was *)
(* generated from, and what it passes has kept their fields and types.     *)
(*                                                                         *)
(* Inferring and conforming are defined by recursion over the parts of a   *)
(* body: that they are the functions that their recursions say, and what   *)
(* they do at each position, is proved by induction on how deep a part     *)
(* nests, with the lemmas about bodies of VerdictProofs.                   *)
(***************************************************************************)
EXTENDS VerdictProofs, OpenApi

-----------------------------------------------------------------------------
(* A schema is data: its parts, and what validation makes of them. *)

\* A schema nests no deeper than a body.
IsSchema(s) == Levels(s)[Nesting + 1] = {}

\* The parts of a schema hold parts of it.
LEMMA SchemaParts ==
  ASSUME NEW s, IsSchema(s)
  PROVE  /\ s \in Values(s)
         /\ \A y \in Values(s) : \A c \in Children(y) : c.value \in Values(s)
<1>1. Nesting \in Nat /\ Nesting + 1 \in Nat
  BY NestingAssumption
<1>2. s \in Values(s)
  <2>1. Position(<<>>, s) \in Levels(s)[0] /\ 0 \in 0..Nesting
    BY <1>1, LevelSteps
  <2>2. QED
    BY <2>1, Fields DEF Values, Positions
<1>3. ASSUME NEW y \in Values(s), NEW c \in Children(y) PROVE c.value \in Values(s)
  <2>1. PICK n \in 0..Nesting : \E p \in Levels(s)[n] : p.value = y
    BY DEF Values, Positions
  <2>2. PICK p \in Levels(s)[n] : p.value = y
    BY <2>1
  <2>3. n \in Nat /\ n <= Nesting
    BY <1>1
  <2>4. Position(Append(p.path, c.segment), c.value) \in Below(p)
    BY <2>2 DEF Below
  <2>5. Position(Append(p.path, c.segment), c.value) \in Levels(s)[n + 1]
    BY <2>2, <2>3, <2>4, LevelSteps DEF Lower
  <2>6. n # Nesting
    BY <2>5 DEF IsSchema
  <2>7. n + 1 \in 0..Nesting
    BY <1>1, <2>3, <2>6
  <2>8. QED
    BY <2>5, <2>7, Fields DEF Values, Positions
<1>4. QED
  BY <1>2, <1>3

\* The fields and the items of a schema are parts of it.
LEMMA SchemaFields ==
  ASSUME NEW s, IsSchema(s), NEW y \in Values(s)
  PROVE  /\ y.type = "object" => \A k \in DOMAIN y.fields : y.fields[k] \in Values(s)
         /\ y.type = "array" => \A i \in DOMAIN y.items : y.items[i] \in Values(s)
<1>1. \A c \in Children(y) : c.value \in Values(s)
  BY SchemaParts
<1>2. ASSUME y.type = "object", NEW k \in DOMAIN y.fields PROVE y.fields[k] \in Values(s)
  <2> DEFINE c == [segment |-> Key(k), value |-> y.fields[k]]
  <2>1. c \in Children(y) /\ c.value = y.fields[k]
    BY <1>2 DEF Children
  <2>2. QED
    BY <1>1, <2>1
<1>3. ASSUME y.type = "array", NEW i \in DOMAIN y.items PROVE y.items[i] \in Values(s)
  <2> DEFINE c == [segment |-> Index(i), value |-> y.items[i]]
  <2>1. c \in Children(y) /\ c.value = y.items[i]
    BY <1>3 DEF Children
  <2>2. QED
    BY <1>1, <2>1
<1>4. QED
  BY <1>2, <1>3

\* What is inferred of a part depends on the parts that it holds.
LEMMA InferDepends ==
  ASSUME NEW v, IsBody(v), NEW x \in Values(v), NEW f, NEW g,
         \A u \in Values(v) : (\E c \in Children(x) : c.value = u) => f[u] = g[u]
  PROVE  InferCall(f, x) = InferCall(g, x)
<1>0. IsNode(x)
  BY ValueOf
<1>1. CASE x.type = "object"
  <2>1. ASSUME NEW k \in DOMAIN x.fields PROVE f[x.fields[k]] = g[x.fields[k]]
    <3> DEFINE c == [segment |-> Key(k), value |-> x.fields[k]]
    <3>1. c \in Children(x) /\ c.value = x.fields[k]
      BY <1>0, <1>1, FieldOf
    <3> HIDE DEF c
    <3>2. x.fields[k] \in Values(v)
      BY <3>1, ValueOf
    <3>3. QED
      BY <3>1, <3>2
  <2>2. [k \in DOMAIN x.fields |-> f[x.fields[k]]] = [k \in DOMAIN x.fields |-> g[x.fields[k]]]
    BY <2>1
  <2>3. \A h : InferCall(h, x) = Object([k \in DOMAIN x.fields |-> h[x.fields[k]]])
    BY <1>1 DEF InferCall, InferObject
  <2>4. QED
    BY <2>2, <2>3
<1>2. CASE x.type = "array"
  <2>1. /\ Len(x.items) \in Nat /\ DOMAIN x.items = 1..Len(x.items)
        /\ x.items \in Seq({x.items[i] : i \in DOMAIN x.items})
        /\ \A i \in 1..Len(x.items) : x.items[i] \in Values(v) /\ \E c \in Children(x) : c.value = x.items[i]
    BY <1>0, <1>2, ItemsBelow, ItemsInside, NodeKinds
  <2>2. x.items # <<>> => 1 \in 1..Len(x.items)
    BY <2>1
  <2>3. x.items # <<>> => f[x.items[1]] = g[x.items[1]]
    BY <2>1, <2>2
  <2>4. \A h : InferCall(h, x) = Array(IF x.items = <<>> THEN <<>> ELSE <<h[x.items[1]]>>)
    BY <1>2 DEF InferCall, InferItems
  <2>5. QED
    BY <2>3, <2>4
<1>3. CASE x.type # "object" /\ x.type # "array"
  BY <1>3 DEF InferCall
<1>4. QED
  BY <1>1, <1>2, <1>3

\* Inferred is the function that its recursion defines.
LEMMA InferredIs ==
  ASSUME NEW v, IsBody(v)
  PROVE  \A x \in Values(v) : Inferred(v)[x] = InferCall(Inferred(v), x)
<1> DEFINE Dom == Values(v)
           Low(x, r) == Levels(x)[r] = {}
           Right(g, r) == \A x \in Dom : Low(x, r) => g[x] = InferCall(g, x)
           T == {r \in Nat : \E g : Right(g, r)}
<1>0. ASSUME NEW x \in Dom, NEW r \in Nat, Low(x, r + 1), NEW f, NEW g,
             \A u \in Dom : Low(u, r) => f[u] = g[u]
      PROVE  InferCall(f, x) = InferCall(g, x)
  <2>1. \A u \in Values(v) : (\E c \in Children(x) : c.value = u) => f[u] = g[u]
    BY <1>0, ChildLower
  <2>2. QED
    BY <2>1, InferDepends
<1>1. 0 \in T
  <2>1. Right({}, 0)
    BY LevelSteps
  <2> HIDE DEF Right
  <2>2. QED
    BY <2>1
<1>2. ASSUME NEW r \in Nat, r \in T PROVE r + 1 \in T
  <2>1. PICK g : Right(g, r)
    <3> HIDE DEF Right
    <3>1. QED
      BY <1>2
  <2> DEFINE h == [x \in Dom |-> IF Low(x, r) THEN g[x] ELSE InferCall(g, x)]
  <2>2. ASSUME NEW x \in Dom, Low(x, r + 1) PROVE h[x] = InferCall(h, x)
    <3> HIDE DEF Dom
    <3>1. \A u \in Dom : Low(u, r) => h[u] = g[u]
      OBVIOUS
    <3>3. h[x] = InferCall(g, x)
      BY <2>1
    <3> HIDE DEF h, Low
    <3>2. InferCall(h, x) = InferCall(g, x)
      BY <1>0, <2>2, <3>1
    <3>4. QED
      BY <3>2, <3>3
  <2>3. Right(h, r + 1)
    <3> HIDE DEF h, Low, Dom
    <3>1. QED
      BY <2>2
  <2> HIDE DEF h, Right
  <2>4. QED
    BY <2>3
<1>3. \A r \in Nat : \E g : Right(g, r)
  <2>1. Nat \subseteq T
    <3> HIDE DEF T
    <3>1. QED
      BY <1>1, <1>2, SetInduction
  <2> HIDE DEF Right
  <2>2. QED
    BY <2>1
<1>4. Nesting + 1 \in Nat /\ (Nesting + 1) + 1 \in Nat
  BY NestingAssumption
<1>5. PICK g : Right(g, (Nesting + 1) + 1)
  <2> HIDE DEF Right
  <2>1. QED
    BY <1>3, <1>4
<1>6. ASSUME NEW x \in Dom PROVE Low(x, Nesting + 1) /\ Low(x, (Nesting + 1) + 1)
  <2>1. Sound(x, Nesting + 1)
    BY ValueOf
  <2>2. Levels(x)[Nesting + 1] = {}
    BY <2>1 DEF Sound
  <2>3. QED
    BY <1>4, <2>2, EmptyStays
<1> DEFINE f == [x \in Dom |-> g[x]]
<1> HIDE DEF Dom
<1>7. ASSUME NEW x \in Dom PROVE f[x] = InferCall(f, x)
  <2>1. g[x] = InferCall(g, x)
    BY <1>5, <1>6
  <2>2. \A u \in Dom : Low(u, Nesting + 1) => f[u] = g[u]
    OBVIOUS
  <2>3. f[x] = g[x]
    OBVIOUS
  <2> HIDE DEF f, Low
  <2>4. InferCall(f, x) = InferCall(g, x)
    BY <1>0, <1>4, <1>6, <2>2
  <2>5. QED
    BY <2>1, <2>3, <2>4
<1>8. f = [x \in Dom |-> InferCall(f, x)]
  <2>1. f = [x \in Dom |-> f[x]]
    OBVIOUS
  <2> HIDE DEF f
  <2>2. QED
    BY <1>7, <2>1
<1>9. Inferred(v) = CHOOSE h : h = [x \in Dom |-> InferCall(h, x)]
  BY DEF Inferred, Dom
<1>10. Inferred(v) = [x \in Dom |-> InferCall(Inferred(v), x)]
  <2> HIDE DEF f
  <2>1. QED
    BY <1>8, <1>9
<1>11. QED
  <2> DEFINE S == Inferred(v)
  <2> HIDE DEF S
  <2>1. S = [x \in Dom |-> InferCall(S, x)]
    BY <1>10 DEF S
  <2>2. \A x \in Dom : S[x] = InferCall(S, x)
    BY <2>1
  <2>3. QED
    BY <2>2 DEF S, Dom

-----------------------------------------------------------------------------
(* The schema that is inferred of a body. *)

\* What is inferred of a part, by its type.
LEMMA InferredForms ==
  ASSUME NEW v, IsBody(v), NEW x \in Values(v)
  PROVE  /\ x.type = "object" =>
              Inferred(v)[x] = Object([k \in DOMAIN x.fields |-> Inferred(v)[x.fields[k]]])
         /\ x.type = "array" =>
              Inferred(v)[x] = Array(IF x.items = <<>> THEN <<>> ELSE <<Inferred(v)[x.items[1]]>>)
         /\ x.type = "number" => Inferred(v)[x] = InferNumber(x.num)
         /\ x.type = "string" => Inferred(v)[x] = InferText(x.str)
         /\ x.type \notin {"object", "array", "number", "string"} => Inferred(v)[x] = [type |-> x.type]
<1> DEFINE I == Inferred(v)
<1>1. I[x] = InferCall(I, x)
  BY InferredIs
<1> HIDE DEF I
<1>2. /\ x.type = "object" => I[x] = Object([k \in DOMAIN x.fields |-> I[x.fields[k]]])
      /\ x.type = "array" => I[x] = Array(IF x.items = <<>> THEN <<>> ELSE <<I[x.items[1]]>>)
      /\ x.type = "number" => I[x] = InferNumber(x.num)
      /\ x.type = "string" => I[x] = InferText(x.str)
      /\ x.type \notin {"object", "array", "number", "string"} => I[x] = [type |-> x.type]
  BY <1>1 DEF InferCall, InferObject, InferItems
<1>3. QED
  BY <1>2 DEF I

\* The types of what is inferred.
LEMMA InferredTypes ==
  ASSUME NEW v, IsBody(v), NEW x \in Values(v)
  PROVE  /\ x.type = "object" => Inferred(v)[x].type = "object"
         /\ x.type = "array" => Inferred(v)[x].type = "array"
         /\ x.type = "number" => Inferred(v)[x].type = IF x.num \in Fractions THEN "number" ELSE "integer"
         /\ x.type = "string" =>
              IF x.str = MaskedEpoch THEN Inferred(v)[x].type = "integer"
              ELSE /\ Inferred(v)[x].type = "string"
                   /\ Inferred(v)[x].format = IF x.str \in DOMAIN Formats THEN Formats[x.str] ELSE "none"
         /\ x.type \notin {"object", "array", "number", "string"} => Inferred(v)[x].type = x.type
<1> DEFINE y == Inferred(v)[x]
<1>1. \A f : Object(f).type = "object" /\ Object(f).fields = f
  BY DEF Object
<1>2. \A f : Array(f).type = "array" /\ Array(f).items = f
  BY DEF Array
<1>3. x.type = "object" => y.type = "object"
  <2>1. x.type = "object" => y = Object([k \in DOMAIN x.fields |-> Inferred(v)[x.fields[k]]])
    BY InferredForms
  <2> HIDE DEF y
  <2>2. QED
    BY <1>1, <2>1
<1>4. x.type = "array" => y.type = "array"
  <2>1. x.type = "array" => y = Array(IF x.items = <<>> THEN <<>> ELSE <<Inferred(v)[x.items[1]]>>)
    BY InferredForms
  <2> HIDE DEF y
  <2>2. QED
    BY <1>2, <2>1
<1>5. x.type = "number" => y.type = IF x.num \in Fractions THEN "number" ELSE "integer"
  <2>1. x.type = "number" => y = InferNumber(x.num)
    BY InferredForms
  <2> HIDE DEF y
  <2>2. QED
    BY <2>1 DEF InferNumber
<1>6. x.type = "string" =>
        IF x.str = MaskedEpoch THEN y.type = "integer"
        ELSE /\ y.type = "string"
             /\ y.format = IF x.str \in DOMAIN Formats THEN Formats[x.str] ELSE "none"
  <2>1. x.type = "string" => y = InferText(x.str)
    BY InferredForms
  <2> HIDE DEF y
  <2>2. QED
    BY <2>1 DEF InferText
<1>7. x.type \notin {"object", "array", "number", "string"} => y.type = x.type
  <2>1. x.type \notin {"object", "array", "number", "string"} => y = [type |-> x.type]
    BY InferredForms
  <2> HIDE DEF y
  <2>2. QED
    BY <2>1
<1>8. QED
  BY <1>3, <1>4, <1>5, <1>6, <1>7

\* An array that is not empty has a first item.
LEMMA FirstItem ==
  ASSUME NEW x, IsNode(x), x.type = "array", x.items # <<>>
  PROVE  1 \in DOMAIN x.items /\ 1 \in 1..Len(x.items)
<1> DEFINE s == x.items
           S == {x.items[i] : i \in DOMAIN x.items}
<1>1. s \in Seq(S) /\ s # <<>>
  BY ArrayNode
<1> HIDE DEF s, S
<1>2. 1 \in DOMAIN s /\ 1 \in 1..Len(s)
  BY <1>1
<1>3. QED
  BY <1>2 DEF s

\* What the inferred schema holds is inferred of what the value holds.
LEMMA InferredChild ==
  ASSUME NEW v, IsBody(v), NEW x \in Values(v), NEW d \in Children(Inferred(v)[x])
  PROVE  \E c \in Children(x) : c.value \in Values(v) /\ d.value = Inferred(v)[c.value]
<1> DEFINE I == Inferred(v)
<1>1. IsNode(x) /\ \A c \in Children(x) : c.value \in Values(v)
  BY ValueOf
<1>2. \A f : Object(f).type = "object" /\ Object(f).fields = f
  BY DEF Object
<1>3. \A f : Array(f).type = "array" /\ Array(f).items = f
  BY DEF Array
<1>4. CASE x.type = "object"
  <2>1. I[x].type = "object" /\ I[x].fields = [k \in DOMAIN x.fields |-> I[x.fields[k]]]
    <3>1. I[x] = Object([k \in DOMAIN x.fields |-> I[x.fields[k]]])
      BY <1>4, InferredForms
    <3> HIDE DEF I
    <3>2. QED
      BY <1>2, <3>1
  <2> HIDE DEF I
  <2>2. d \in Children(I[x])
    BY DEF I
  <2>3. PICK k \in DOMAIN x.fields : d = [segment |-> Key(k), value |-> I[x.fields[k]]]
    BY <2>1, <2>2 DEF Children
  <2>4. [segment |-> Key(k), value |-> x.fields[k]] \in Children(x)
    BY <1>1, <1>4, FieldOf
  <2>5. [segment |-> Key(k), value |-> x.fields[k]].value = x.fields[k] /\ d.value = I[x.fields[k]]
    BY <2>3
  <2>6. \E c \in Children(x) : c.value \in Values(v) /\ d.value = I[c.value]
    BY <1>1, <2>4, <2>5
  <2>7. QED
    BY <2>6 DEF I
<1>5. CASE x.type = "array"
  <2>1. I[x].type = "array" /\ I[x].items = IF x.items = <<>> THEN <<>> ELSE <<I[x.items[1]]>>
    <3>1. I[x] = Array(IF x.items = <<>> THEN <<>> ELSE <<I[x.items[1]]>>)
      BY <1>5, InferredForms
    <3> HIDE DEF I
    <3>2. QED
      BY <1>3, <3>1
  <2> HIDE DEF I
  <2>2. d \in Children(I[x])
    BY DEF I
  <2>3. PICK j \in DOMAIN I[x].items : d = [segment |-> Index(j), value |-> I[x].items[j]]
    BY <2>1, <2>2 DEF Children
  <2>4. x.items # <<>> /\ d.value = I[x.items[1]]
    BY <2>1, <2>3
  <2>6. 1 \in 1..Len(x.items)
    BY <1>1, <1>5, <2>4, FirstItem
  <2>7. PICK c \in Children(x) : c.value = x.items[1]
    BY <1>1, <1>5, <2>6, ItemsBelow
  <2>8. \E b \in Children(x) : b.value \in Values(v) /\ d.value = I[b.value]
    BY <1>1, <2>4, <2>7
  <2>9. QED
    BY <2>8 DEF I
<1>6. CASE x.type # "object" /\ x.type # "array"
  <2>1. I[x].type # "object" /\ I[x].type # "array"
    <3>1. /\ x.type = "number" => I[x].type \in {"number", "integer"}
          /\ x.type = "string" => I[x].type \in {"string", "integer"}
          /\ x.type \notin {"object", "array", "number", "string"} => I[x].type = x.type
      BY InferredTypes
    <3>2. QED
      BY <1>6, <3>1
  <2> HIDE DEF I
  <2>2. Children(I[x]) = {}
    BY <2>1 DEF Children
  <2>3. QED
    BY <2>2 DEF I
<1>7. QED
  BY <1>4, <1>5, <1>6

\* What is inferred of a body is a schema.
LEMMA InferredSchema ==
  ASSUME NEW v, IsBody(v)
  PROVE  IsSchema(Infer(v))
<1> DEFINE I == Inferred(v)
           T == {r \in Nat : \A x \in Values(v) : Levels(x)[r] = {} => Levels(I[x])[r] = {}}
<1>1. 0 \in T
  BY LevelSteps
<1>2. ASSUME NEW r \in Nat, r \in T PROVE r + 1 \in T
  <2>1. ASSUME NEW x \in Values(v), Levels(x)[r + 1] = {} PROVE Levels(I[x])[r + 1] = {}
    <3>1. ASSUME NEW d \in Children(I[x]) PROVE Levels(d.value)[r] = {}
      <4>1. PICK c \in Children(x) : c.value \in Values(v) /\ d.value = I[c.value]
        BY <3>1, InferredChild
      <4>2. Levels(c.value)[r] = {}
        BY <2>1, ChildLower
      <4> HIDE DEF I
      <4>3. QED
        BY <1>2, <4>1, <4>2
    <3> HIDE DEF I
    <3>2. QED
      BY <3>1, FromChild
  <2> HIDE DEF I
  <2>2. QED
    BY <2>1
<1>3. Nat \subseteq T
  <2> HIDE DEF T
  <2>1. QED
    BY <1>1, <1>2, SetInduction
<1>4. v \in Values(v) /\ Nesting + 1 \in Nat /\ Levels(v)[Nesting + 1] = {}
  BY BodyPositions, NestingAssumption DEF IsBody
<1>5. Levels(I[v])[Nesting + 1] = {}
  BY <1>3, <1>4
<1>6. QED
  BY <1>5 DEF IsSchema, Infer

-----------------------------------------------------------------------------
(* What conforms to a schema. *)

\* Whether a part conforms depends on the parts that it holds.
LEMMA ConformsDepends ==
  ASSUME NEW e, IsBody(e), NEW a, IsSchema(a), NEW x \in Values(e), NEW y \in Values(a), NEW f, NEW g,
         \A u \in Values(e), w \in Values(a) :
           (\E c \in Children(x) : c.value = u) => f[<<u, w>>] = g[<<u, w>>]
  PROVE  ConformsCall(f, x, y) <=> ConformsCall(g, x, y)
<1>0. IsNode(x) /\ (\A c \in Children(x) : c.value \in Values(e))
  BY ValueOf
<1>1. CASE y.type = "object" /\ x.type = "object"
  <2>1. ASSUME NEW k \in DOMAIN y.fields, DOMAIN y.fields \subseteq DOMAIN x.fields
        PROVE  f[<<x.fields[k], y.fields[k]>>] = g[<<x.fields[k], y.fields[k]>>]
    <3>1. [segment |-> Key(k), value |-> x.fields[k]] \in Children(x)
      BY <1>0, <1>1, <2>1, FieldOf
    <3>2. y.fields[k] \in Values(a)
      BY <1>1, SchemaFields
    <3>3. x.fields[k] \in Values(e)
      BY <1>0, <3>1
    <3>4. \E c \in Children(x) : c.value = x.fields[k]
      BY <3>1
    <3>5. QED
      BY <3>2, <3>3, <3>4
  <2>2. \A h : ConformsCall(h, x, y) <=>
                 (DOMAIN y.fields \subseteq DOMAIN x.fields
                    /\ \A k \in DOMAIN y.fields : h[<<x.fields[k], y.fields[k]>>])
    BY <1>1 DEF ConformsCall
  <2>3. QED
    BY <2>1, <2>2
<1>2. CASE y.type = "array" /\ x.type = "array"
  <2>1. /\ Len(x.items) \in Nat /\ DOMAIN x.items = 1..Len(x.items)
        /\ \A i \in 1..Len(x.items) : x.items[i] \in Values(e) /\ \E c \in Children(x) : c.value = x.items[i]
    BY <1>0, <1>2, ItemsBelow, ItemsInside
  <2>2. \A j \in DOMAIN y.items : y.items[j] \in Values(a)
    BY <1>2, SchemaFields
  <2>3. ASSUME NEW i \in DOMAIN x.items, NEW j \in DOMAIN y.items
        PROVE  f[<<x.items[i], y.items[j]>>] = g[<<x.items[i], y.items[j]>>]
    BY <2>1, <2>2
  <2>4. \A h : ConformsCall(h, x, y) <=>
                 \A i \in DOMAIN x.items, j \in DOMAIN y.items : h[<<x.items[i], y.items[j]>>]
    BY <1>2 DEF ConformsCall
  <2>5. QED
    BY <2>3, <2>4
<1>3. CASE ~(y.type = "object" /\ x.type = "object") /\ ~(y.type = "array" /\ x.type = "array")
  BY <1>3 DEF ConformsCall
<1>4. QED
  BY <1>1, <1>2, <1>3

\* Conforming is the function that its recursion defines.
LEMMA ConformingIs ==
  ASSUME NEW e, IsBody(e), NEW a, IsSchema(a)
  PROVE  \A q \in Values(e) \X Values(a) :
           Conforming(e, a)[q] = ConformsCall(Conforming(e, a), q[1], q[2])
<1> DEFINE Of(g, q) == ConformsCall(g, q[1], q[2])
           Dom == Values(e) \X Values(a)
           Low(q, r) == Levels(q[1])[r] = {}
           Right(g, r) == \A q \in Dom : Low(q, r) => g[q] = Of(g, q)
           T == {r \in Nat : \E g : Right(g, r)}
<1>0. ASSUME NEW q \in Dom, NEW r \in Nat, Low(q, r + 1), NEW f, NEW g,
             \A d \in Dom : Low(d, r) => f[d] = g[d]
      PROVE  Of(f, q) = Of(g, q)
  <2> DEFINE x == q[1]
             y == q[2]
  <2>1. x \in Values(e) /\ y \in Values(a)
    OBVIOUS
  <2>2. Levels(x)[r + 1] = {}
    BY <1>0
  <2>3. \A u \in Values(e), w \in Values(a) : Low(<<u, w>>, r) => f[<<u, w>>] = g[<<u, w>>]
    BY <1>0
  <2>7. \A u, w : Low(<<u, w>>, r) <=> Levels(u)[r] = {}
    OBVIOUS
  <2> HIDE DEF x, y, Low
  <2>5. \A u \in Values(e), w \in Values(a) :
           (\E c \in Children(x) : c.value = u) => f[<<u, w>>] = g[<<u, w>>]
    BY <2>2, <2>3, <2>7, ChildLower
  <2>4. ConformsCall(f, x, y) <=> ConformsCall(g, x, y)
    BY <2>1, <2>5, ConformsDepends
  <2>6. ConformsCall(f, x, y) = ConformsCall(g, x, y)
    <3>1. \A h : ConformsCall(h, x, y) \in BOOLEAN
      BY DEF ConformsCall
    <3>2. QED
      BY <2>4, <3>1
  <2>8. QED
    BY <2>6 DEF x, y
<1>1. 0 \in T
  <2>1. Right({}, 0)
    BY LevelSteps
  <2> HIDE DEF Right
  <2>2. QED
    BY <2>1
<1>2. ASSUME NEW r \in Nat, r \in T PROVE r + 1 \in T
  <2>1. PICK g : Right(g, r)
    <3> HIDE DEF Right
    <3>1. QED
      BY <1>2
  <2> DEFINE h == [q \in Dom |-> IF Low(q, r) THEN g[q] ELSE Of(g, q)]
  <2>2. ASSUME NEW q \in Dom, Low(q, r + 1) PROVE h[q] = Of(h, q)
    <3>0. Dom = Dom
      OBVIOUS
    <3> HIDE DEF Dom
    <3>1. \A d \in Dom : Low(d, r) => h[d] = g[d]
      OBVIOUS
    <3>3. h[q] = Of(g, q)
      BY <2>1
    <3> HIDE DEF h, Low, Of
    <3>2. Of(h, q) = Of(g, q)
      BY <1>0, <2>2, <3>1
    <3>4. QED
      BY <3>2, <3>3
  <2>3. Right(h, r + 1)
    <3> HIDE DEF h, Low, Of, Dom
    <3>1. QED
      BY <2>2
  <2> HIDE DEF h, Right
  <2>4. QED
    BY <2>3
<1>3. \A r \in Nat : \E g : Right(g, r)
  <2>1. Nat \subseteq T
    <3> HIDE DEF T
    <3>1. QED
      BY <1>1, <1>2, SetInduction
  <2> HIDE DEF Right
  <2>2. QED
    BY <2>1
<1>4. Nesting + 1 \in Nat /\ (Nesting + 1) + 1 \in Nat
  BY NestingAssumption
<1>5. PICK g : Right(g, (Nesting + 1) + 1)
  <2> HIDE DEF Right
  <2>1. QED
    BY <1>3, <1>4
<1>6. ASSUME NEW q \in Dom PROVE Low(q, Nesting + 1) /\ Low(q, (Nesting + 1) + 1)
  <2>0. q[1] \in Values(e)
    OBVIOUS
  <2>1. Sound(q[1], Nesting + 1)
    BY <2>0, ValueOf
  <2>2. Levels(q[1])[Nesting + 1] = {}
    BY <2>1 DEF Sound
  <2>3. QED
    BY <1>4, <2>2, EmptyStays
<1> DEFINE f == [q \in Dom |-> g[q]]
<1> HIDE DEF Dom
<1>7. ASSUME NEW q \in Dom PROVE f[q] = Of(f, q)
  <2>1. g[q] = Of(g, q)
    BY <1>5, <1>6
  <2>2. \A d \in Dom : Low(d, Nesting + 1) => f[d] = g[d]
    OBVIOUS
  <2>3. f[q] = g[q]
    OBVIOUS
  <2> HIDE DEF f, Low, Of
  <2>4. Of(f, q) = Of(g, q)
    BY <1>0, <1>4, <1>6, <2>2
  <2>5. QED
    BY <2>1, <2>3, <2>4
<1>8. f = [q \in Dom |-> Of(f, q)]
  <2>1. f = [q \in Dom |-> f[q]]
    OBVIOUS
  <2> HIDE DEF f, Of
  <2>2. QED
    BY <1>7, <2>1
<1>9. Conforming(e, a) = CHOOSE h : h = [q \in Dom |-> Of(h, q)]
  BY DEF Conforming, Dom
<1>10. Conforming(e, a) = [q \in Dom |-> Of(Conforming(e, a), q)]
  <2> HIDE DEF f, Of
  <2>1. QED
    BY <1>8, <1>9
<1>11. QED
  <2> DEFINE S == Conforming(e, a)
  <2> HIDE DEF S, Of
  <2>1. S = [q \in Dom |-> Of(S, q)]
    BY <1>10 DEF S
  <2>2. \A q \in Dom : S[q] = Of(S, q)
    BY <2>1
  <2>3. QED
    BY <2>2 DEF S, Of, Dom

\* The types of values.
LEMMA NodeTypes ==
  ASSUME NEW x, IsNode(x)
  PROVE  x.type \in {"object", "array", "number", "string", "boolean", "null"}
<1>1. SUFFICES ASSUME x.type \notin {"object", "array", "number", "string", "boolean"}
               PROVE  x.type = "null"
  OBVIOUS
<1>2. x = Null
  BY <1>1 DEF IsNode
<1>3. QED
  BY <1>2 DEF Null

\* A child of a part of a body is at a position of the body.
LEMMA PlaceBelow ==
  ASSUME NEW v, IsBody(v), NEW p \in Positions(v), NEW c \in Children(p.value)
  PROVE  /\ Position(Append(p.path, c.segment), c.value) \in Positions(v)
         /\ p.path \in Path /\ c.segment \in Segment
         /\ p.value \in Values(v) /\ c.value \in Values(v)
<1>1. PICK n \in Nat : n <= Nesting /\ p \in Levels(v)[n]
  BY BodyPositions
<1>2. Sound(v, Nesting + 1) /\ Nesting + 1 \in Nat
  BY BodyPositions, NestingAssumption
<1>3. p.path \in Path /\ IsNode(p.value)
  BY <1>1, <1>2, SoundTyped
<1>4. c.segment \in Segment
  BY <1>3, ChildSegments
<1>5. Position(Append(p.path, c.segment), c.value) \in Below(p)
  BY DEF Below
<1>6. Position(Append(p.path, c.segment), c.value) \in Levels(v)[n + 1] /\ n + 1 \in Nat
  <2> DEFINE below == Position(Append(p.path, c.segment), c.value)
  <2> HIDE DEF below
  <2>1. below \in Lower(Levels(v)[n])
    BY <1>1, <1>5 DEF Lower, below
  <2>2. Levels(v)[n + 1] = Lower(Levels(v)[n])
    BY <1>1, LevelSteps
  <2>3. QED
    BY <1>1, <2>1, <2>2 DEF below
<1>7. Position(Append(p.path, c.segment), c.value) \in Positions(v)
  BY <1>6, BodyPositions
<1>8. p.value \in Values(v)
  BY DEF Values
<1>9. c.value \in Values(v)
  BY <1>8, ValueOf
<1>10. QED
  BY <1>3, <1>4, <1>7, <1>8, <1>9

\* What of a segment tells two places of a body apart that are not items of an array.
AsItem(segment) == IF IsIndex(segment) THEN AnyIndex ELSE segment

\* Paths that are alike, each with a segment that is alike, are alike.
LEMMA AnyItemAppend ==
  ASSUME NEW p \in Path, NEW q \in Path, AnyItem(p) = AnyItem(q),
         NEW b \in Segment, NEW d \in Segment, AsItem(b) = AsItem(d)
  PROVE  AnyItem(Append(p, b)) = AnyItem(Append(q, d))
<1>1. DOMAIN p = DOMAIN q /\ \A n \in DOMAIN p : AsItem(p[n]) = AsItem(q[n])
  <2>1. \A o : AnyItem(o) = [n \in DOMAIN o |-> AsItem(o[n])]
    BY DEF AnyItem, AsItem
  <2>2. [n \in DOMAIN p |-> AsItem(p[n])] = [n \in DOMAIN q |-> AsItem(q[n])]
    BY <2>1
  <2>3. DOMAIN p = DOMAIN q
    BY <2>2
  <2>4. QED
    BY <2>2, <2>3
<1>2. Len(p) = Len(q) /\ Len(p) \in Nat /\ DOMAIN p = 1..Len(p)
  BY <1>1 DEF Path
<1>3. /\ DOMAIN Append(p, b) = 1..(Len(p) + 1)
      /\ \A n \in 1..(Len(p) + 1) : Append(p, b)[n] = IF n = Len(p) + 1 THEN b ELSE p[n]
  BY DEF Path
<1>4. /\ DOMAIN Append(q, d) = 1..(Len(p) + 1)
      /\ \A n \in 1..(Len(p) + 1) : Append(q, d)[n] = IF n = Len(p) + 1 THEN d ELSE q[n]
  BY <1>2 DEF Path
<1>5. \A n \in 1..(Len(p) + 1) : AsItem(Append(p, b)[n]) = AsItem(Append(q, d)[n])
  <2>1. \A n \in 1..(Len(p) + 1) : n = Len(p) + 1 \/ n \in DOMAIN p
    BY <1>2
  <2>2. QED
    BY <1>1, <1>3, <1>4, <2>1
<1>6. \A o : AnyItem(o) = [n \in DOMAIN o |-> AsItem(o[n])]
  BY DEF AnyItem, AsItem
<1>7. QED
  BY <1>3, <1>4, <1>5, <1>6

\* Of a plain body, values of one type at like places are of one type of JSON.
LEMMA PlainTypes ==
  ASSUME NEW x, IsNode(x), NEW u, IsNode(u), TypeOf(x) = TypeOf(u),
         x.type = "string" => x.str # MaskedEpoch, u.type = "string" => u.str # MaskedEpoch
  PROVE  x.type = u.type /\ (x.type = "number" => (x.num \in Fractions <=> u.num \in Fractions))
<1>1. ASSUME NEW w, IsNode(w), w.type = "string" => w.str # MaskedEpoch
      PROVE  TypeOf(w) = IF w.type = "number" THEN IF w.num \in Fractions THEN "number" ELSE "integer"
                         ELSE w.type
  <2>1. w # Text(MaskedEpoch)
    <3>1. Text(MaskedEpoch).type = "string" /\ Text(MaskedEpoch).str = MaskedEpoch
      BY DEF Text
    <3>2. QED
      BY <1>1, <3>1
  <2>2. QED
    BY <2>1 DEF TypeOf
<1>2. x.type \in {"object", "array", "number", "string", "boolean", "null"}
  BY NodeTypes
<1>3. u.type \in {"object", "array", "number", "string", "boolean", "null"}
  BY NodeTypes
<1>4. TypeOf(x) = IF x.type = "number" THEN IF x.num \in Fractions THEN "number" ELSE "integer" ELSE x.type
  BY <1>1
<1>5. TypeOf(u) = IF u.type = "number" THEN IF u.num \in Fractions THEN "number" ELSE "integer" ELSE u.type
  BY <1>1
<1>6. QED
  BY <1>2, <1>3, <1>4, <1>5

\* What conforms to what, by the type of the schema.
LEMMA ConformsCases ==
  ASSUME NEW e, IsBody(e), NEW s, IsSchema(s), NEW x \in Values(e), NEW y \in Values(s)
  PROVE  Conforming(e, s)[<<x, y>>] = ConformsCall(Conforming(e, s), x, y)
<1>1. <<x, y>> \in Values(e) \X Values(s) /\ <<x, y>>[1] = x /\ <<x, y>>[2] = y
  OBVIOUS
<1>2. QED
  BY <1>1, ConformingIs

\* The formats that may be asserted are those that masks have.
AssertedFormats == asserted \subseteq {Formats[mask] : mask \in DOMAIN Formats}

\* schema_infer.rs: a plain body conforms to the schema that is inferred of it.
LEMMA PlainConforms ==
  ASSUME AssertedFormats, NEW v, IsBody(v), Plain(v)
  PROVE  Conforms(v, Infer(v))
<1> DEFINE I == Inferred(v)
           s == Infer(v)
           C == Conforming(v, s)
           Alike(p, q) == AnyItem(p.path) = AnyItem(q.path)
           T == {r \in Nat : \A p, q \in Positions(v) :
                   Alike(p, q) /\ I[q.value] \in Values(s) /\ Levels(p.value)[r] = {}
                     => C[<<p.value, I[q.value]>>]}
<1>0. IsSchema(s)
  BY InferredSchema
<1>1. 0 \in T
  BY LevelSteps
<1>2. ASSUME NEW r \in Nat, r \in T PROVE r + 1 \in T
  <2>1. ASSUME NEW p \in Positions(v), NEW q \in Positions(v), Alike(p, q),
               I[q.value] \in Values(s), Levels(p.value)[r + 1] = {}
        PROVE  C[<<p.value, I[q.value]>>]
    <3> DEFINE x == p.value
               u == q.value
               y == I[u]
    <3> SUFFICES C[<<x, y>>]
      OBVIOUS
    <3>1. x \in Values(v) /\ u \in Values(v) /\ y \in Values(s)
      BY <2>1 DEF Values
    <3>2. IsNode(x) /\ IsNode(u)
      BY <3>1, ValueOf
    <3>3. C[<<x, y>>] = ConformsCall(C, x, y)
      <4> HIDE DEF x, y, s
      <4>1. QED
        BY <1>0, <3>1, ConformsCases
    <3>4. /\ TypeOf(x) = TypeOf(u)
          /\ x.type = "object" => DOMAIN x.fields = DOMAIN u.fields
          /\ x.type = "string" => /\ x.str # MaskedEpoch
                                  /\ x.str \in DOMAIN Formats => Formats[x.str] \notin asserted
          /\ u.type = "string" => /\ u.str # MaskedEpoch
                                  /\ u.str \in DOMAIN Formats => Formats[u.str] \notin asserted
      BY <2>1 DEF Plain
    <3>5. x.type = u.type /\ (x.type = "number" => (x.num \in Fractions <=> u.num \in Fractions))
      <4> HIDE DEF x, u
      <4>1. QED
        BY <3>2, <3>4, PlainTypes
    <3>6. ASSUME NEW c \in Children(x), NEW d \in Children(u), AsItem(c.segment) = AsItem(d.segment),
                 I[d.value] \in Values(s)
          PROVE  C[<<c.value, I[d.value]>>]
      <4> DEFINE pChild == Position(Append(p.path, c.segment), c.value)
                 qChild == Position(Append(q.path, d.segment), d.value)
      <4>1. pChild \in Positions(v) /\ p.path \in Path /\ c.segment \in Segment
        BY PlaceBelow
      <4>2. qChild \in Positions(v) /\ q.path \in Path /\ d.segment \in Segment
        BY PlaceBelow
      <4>3. AnyItem(Append(p.path, c.segment)) = AnyItem(Append(q.path, d.segment))
        BY <2>1, <3>6, <4>1, <4>2, AnyItemAppend
      <4>4. Levels(c.value)[r] = {}
        BY <2>1, ChildLower
      <4>5. pChild.path = Append(p.path, c.segment) /\ pChild.value = c.value
        BY Fields
      <4>6. qChild.path = Append(q.path, d.segment) /\ qChild.value = d.value
        BY Fields
      <4> HIDE DEF pChild, qChild, I, s, C
      <4>7. QED
        BY <1>2, <3>6, <4>1, <4>2, <4>3, <4>4, <4>5, <4>6
    <3>7. CASE x.type = "object"
      <4>1. y = Object([k \in DOMAIN u.fields |-> I[u.fields[k]]])
        <5> HIDE DEF x, u
        <5>1. u \in Values(v) /\ u.type = "object"
          BY <3>1, <3>5, <3>7
        <5>2. QED
          BY <5>1, InferredForms
      <4>2. y.type = "object" /\ y.fields = [k \in DOMAIN u.fields |-> I[u.fields[k]]]
        <5> HIDE DEF y, I
        <5>1. QED
          BY <4>1 DEF Object
      <4>3. ASSUME NEW k \in DOMAIN u.fields PROVE C[<<x.fields[k], y.fields[k]>>]
        <5> DEFINE c == [segment |-> Key(k), value |-> x.fields[k]]
                   d == [segment |-> Key(k), value |-> u.fields[k]]
        <5>1. c \in Children(x)
          BY <3>2, <3>4, <3>7, FieldOf
        <5>2. d \in Children(u)
          BY <3>2, <3>5, <3>7, FieldOf
        <5>3. c.segment = d.segment /\ c.value = x.fields[k] /\ d.value = u.fields[k]
          OBVIOUS
        <5>4. y.fields[k] = I[u.fields[k]] /\ k \in DOMAIN y.fields
          BY <4>2
        <5> HIDE DEF x, u, y, s, C, I, c, d
        <5>5. y.fields[k] \in Values(s)
          BY <1>0, <3>1, <4>2, <5>4, SchemaFields
        <5>6. QED
          BY <3>6, <5>1, <5>2, <5>3, <5>4, <5>5
      <4> HIDE DEF x, y, u, C, I
      <4>4. QED
        BY <3>3, <3>4, <3>7, <4>2, <4>3 DEF ConformsCall
    <3>8. CASE x.type = "array"
      <4>1. y = Array(IF u.items = <<>> THEN <<>> ELSE <<I[u.items[1]]>>)
        <5> HIDE DEF x, u
        <5>1. u \in Values(v) /\ u.type = "array"
          BY <3>1, <3>5, <3>8
        <5>2. QED
          BY <5>1, InferredForms
      <4>2. y.type = "array" /\ y.items = IF u.items = <<>> THEN <<>> ELSE <<I[u.items[1]]>>
        <5> HIDE DEF y, I
        <5>1. QED
          BY <4>1 DEF Array
      <4>3. ASSUME NEW i \in DOMAIN x.items, NEW j \in DOMAIN y.items
            PROVE  C[<<x.items[i], y.items[j]>>]
        <5> DEFINE c == [segment |-> Index(i), value |-> x.items[i]]
                   d == [segment |-> Index(1), value |-> u.items[1]]
        <5>1. c \in Children(x)
          BY <3>2, <3>8, ItemOf
        <5>0. u.items # <<>> /\ j = 1 /\ y.items[j] = I[u.items[1]]
          <6> HIDE DEF u, y, I
          <6>1. QED
            BY <4>2, <4>3
        <5>7. 1 \in 1..Len(u.items)
          BY <3>2, <3>5, <3>8, <5>0, FirstItem
        <5>2. d \in Children(u)
          BY <3>2, <3>5, <3>8, <5>7, ItemOf
        <5>3. AsItem(c.segment) = AsItem(d.segment) /\ c.value = x.items[i] /\ d.value = u.items[1]
          BY SegmentForms DEF AsItem
        <5> HIDE DEF x, u, y, s, C, I, c, d
        <5>5. y.items[j] \in Values(s)
          BY <1>0, <3>1, <4>2, SchemaFields
        <5>6. QED
          BY <3>6, <5>0, <5>1, <5>2, <5>3, <5>5
      <4> HIDE DEF x, y, u, C, I
      <4>4. QED
        BY <3>3, <3>8, <4>2, <4>3 DEF ConformsCall
    <3>9. CASE x.type = "number"
      <4>1. y.type = IF u.num \in Fractions THEN "number" ELSE "integer"
        BY <3>1, <3>5, <3>9, InferredTypes
      <4> HIDE DEF x, y, u, C, I
      <4>2. QED
        BY <3>3, <3>5, <3>9, <4>1 DEF ConformsCall
    <3>10. CASE x.type = "string"
      <4>1. y.type = "string" /\ y.format = IF u.str \in DOMAIN Formats THEN Formats[u.str] ELSE "none"
        BY <3>1, <3>4, <3>5, <3>10, InferredTypes
      <4>2. "none" \notin asserted
        BY OpenApiAssumption DEF AssertedFormats
      <4> HIDE DEF x, y, u, C, I
      <4>3. y.format \notin asserted
        BY <3>4, <3>5, <3>10, <4>1, <4>2
      <4>4. QED
        BY <3>3, <3>10, <4>1, <4>3 DEF ConformsCall
    <3>11. CASE x.type \notin {"object", "array", "number", "string"}
      <4>1. y.type = x.type
        BY <3>1, <3>5, <3>11, InferredTypes
      <4>2. x.type \in {"boolean", "null"}
        BY <3>2, <3>11, NodeTypes
      <4> HIDE DEF x, y, u, C, I
      <4>3. QED
        BY <3>3, <4>1, <4>2 DEF ConformsCall
    <3>12. QED
      BY <3>7, <3>8, <3>9, <3>10, <3>11
  <2> HIDE DEF I, C, s
  <2>2. QED
    BY <2>1
<1>3. Nat \subseteq T
  <2> HIDE DEF T
  <2>1. QED
    BY <1>1, <1>2, SetInduction
<1>4. Position(<<>>, v) \in Positions(v) /\ Nesting + 1 \in Nat /\ Levels(v)[Nesting + 1] = {}
  BY BodyPositions, NestingAssumption DEF IsBody
<1>5. I[v] = s /\ s \in Values(s)
  BY <1>0, SchemaParts DEF Infer
<1>6. Position(<<>>, v).value = v
  BY Fields
<1>7. C[<<v, I[v]>>]
  <2> HIDE DEF I, s, C
  <2>1. QED
    BY <1>3, <1>4, <1>5, <1>6
<1>8. QED
  BY <1>5, <1>7 DEF Conforms

\* The type of a value, spelled out.
LEMMA TypeCases ==
  ASSUME NEW x, IsNode(x)
  PROVE  /\ x.type = "number" => TypeOf(x) = IF x.num \in Fractions THEN "number" ELSE "integer"
         /\ x.type = "string" => TypeOf(x) = IF x.str = MaskedEpoch THEN "epoch" ELSE "string"
         /\ x.type \notin {"number", "string"} => TypeOf(x) = x.type
<1>1. Text(MaskedEpoch).type = "string" /\ Text(MaskedEpoch).str = MaskedEpoch
  BY DEF Text
<1>2. x.type = "string" => x = Text(x.str)
  BY DEF IsNode
<1>3. x.type = "string" => (x = Text(MaskedEpoch) <=> x.str = MaskedEpoch)
  BY <1>1, <1>2
<1>4. x.type # "string" => x # Text(MaskedEpoch)
  BY <1>1
<1>5. QED
  BY <1>3, <1>4 DEF TypeOf

\* What conforms to the schema inferred of a value has a type that passes for its type.
LEMMA ConformsType ==
  ASSUME NEW e, IsBody(e), NEW x \in Values(e), NEW w, IsNode(w), NEW f,
         ConformsCall(f, w, Inferred(e)[x])
  PROVE  TypeOf(w) \in Passed(TypeOf(x))
<1> DEFINE y == Inferred(e)[x]
<1>1. IsNode(x)
  BY ValueOf
<1>2. ConformsCall(f, w, y)
  OBVIOUS
<1>3. /\ x.type = "object" => y.type = "object"
      /\ x.type = "array" => y.type = "array"
      /\ x.type = "number" => y.type = IF x.num \in Fractions THEN "number" ELSE "integer"
      /\ x.type = "string" => IF x.str = MaskedEpoch THEN y.type = "integer" ELSE y.type = "string"
      /\ x.type \notin {"object", "array", "number", "string"} => y.type = x.type
  BY InferredTypes
<1> HIDE DEF y
<1>4. /\ y.type \in {"object", "array", "string", "number", "boolean", "null"} => w.type = y.type
      /\ y.type = "integer" => w.type = "number" /\ w.num \notin Fractions
  BY <1>2 DEF ConformsCall
<1>5. x.type \in {"object", "array", "number", "string", "boolean", "null"}
  BY <1>1, NodeTypes
<1>6. /\ w.type = "number" => TypeOf(w) = IF w.num \in Fractions THEN "number" ELSE "integer"
      /\ w.type = "string" => TypeOf(w) = IF w.str = MaskedEpoch THEN "epoch" ELSE "string"
      /\ w.type \notin {"number", "string"} => TypeOf(w) = w.type
  BY TypeCases
<1>7. /\ x.type = "number" => TypeOf(x) = IF x.num \in Fractions THEN "number" ELSE "integer"
      /\ x.type = "string" => TypeOf(x) = IF x.str = MaskedEpoch THEN "epoch" ELSE "string"
      /\ x.type \notin {"number", "string"} => TypeOf(x) = x.type
  BY <1>1, TypeCases
<1>8. /\ Passed("number") = {"number", "integer"} /\ Passed("epoch") = {"integer"}
      /\ Passed("string") = {"string", "epoch"} /\ Passed("integer") = {"integer"}
      /\ Passed("object") = {"object"} /\ Passed("array") = {"array"}
      /\ Passed("boolean") = {"boolean"} /\ Passed("null") = {"null"}
  BY DEF Passed
<1>9. CASE x.type = "number"
  BY <1>3, <1>4, <1>6, <1>7, <1>8, <1>9
<1>10. CASE x.type = "string"
  BY <1>3, <1>4, <1>6, <1>7, <1>8, <1>10
<1>11. CASE x.type \in {"object", "array", "boolean", "null"}
  BY <1>3, <1>4, <1>6, <1>7, <1>8, <1>11
<1>12. QED
  BY <1>5, <1>9, <1>10, <1>11

\* What conforms to the schema inferred of a body has, outside arrays, a place for each
\* place of the body, and what is there conforms to what was inferred of what was there.
LEMMA ConformsPlaces ==
  ASSUME NEW e, IsBody(e), NEW a, IsBody(a), Conforms(a, Infer(e))
  PROVE  \A n \in Nat : \A p \in Levels(e)[n] : KeysOnly(p.path) =>
           \E t \in Positions(a) : /\ t.path = p.path
                                   /\ Inferred(e)[p.value] \in Values(Infer(e))
                                   /\ Conforming(a, Infer(e))[<<t.value, Inferred(e)[p.value]>>]
<1> DEFINE I == Inferred(e)
           s == Infer(e)
           C == Conforming(a, s)
           Met(p) == \E t \in Positions(a) : /\ t.path = p.path /\ I[p.value] \in Values(s)
                                             /\ C[<<t.value, I[p.value]>>]
           T == {n \in Nat : \A p \in Levels(e)[n] : KeysOnly(p.path) => Met(p)}
<1>0. IsSchema(s) /\ Sound(e, Nesting + 1) /\ Nesting + 1 \in Nat /\ I[e] = s
  BY InferredSchema, BodyPositions, NestingAssumption DEF Infer
<1>1. 0 \in T
  <2>1. C[<<a, s>>] /\ s \in Values(s)
    BY <1>0, SchemaParts DEF Conforms
  <2> DEFINE root == Position(<<>>, a)
  <2>2. root \in Positions(a) /\ root.path = <<>> /\ root.value = a
    BY BodyPositions, Fields
  <2>3. Levels(e)[0] = {Position(<<>>, e)}
    BY LevelSteps
  <2>4. Position(<<>>, e).path = <<>> /\ Position(<<>>, e).value = e
    BY Fields
  <2> HIDE DEF root, I, s, C
  <2>5. Met(Position(<<>>, e))
    BY <1>0, <2>1, <2>2, <2>4
  <2> HIDE DEF Met
  <2>6. QED
    BY <2>3, <2>5
<1>2. ASSUME NEW n \in Nat, n \in T PROVE n + 1 \in T
  <2>1. ASSUME NEW p \in Levels(e)[n + 1], KeysOnly(p.path) PROVE Met(p)
    <3>1. Levels(e)[n + 1] = Lower(Levels(e)[n])
      BY LevelSteps
    <3>2. PICK o \in Levels(e)[n] : p \in Below(o)
      BY <3>1 DEF Lower
    <3>3. PICK c \in Children(o.value) : p = Position(Append(o.path, c.segment), c.value)
      BY <3>2 DEF Below
    <3>4. p.path = Append(o.path, c.segment) /\ p.value = c.value
      BY <3>3, Fields
    <3>5. o \in Positions(e)
      BY BodyPositions
    <3>6. o.path \in Path /\ c.segment \in Segment /\ o.value \in Values(e) /\ c.value \in Values(e)
      BY <3>5, PlaceBelow
    <3>7. KeysOnly(o.path) /\ IsKey(c.segment)
      <4>1. \A i \in DOMAIN Append(o.path, c.segment) : IsKey(Append(o.path, c.segment)[i])
        BY <2>1, <3>4 DEF KeysOnly
      <4>2. /\ Len(o.path) \in Nat /\ DOMAIN o.path = 1..Len(o.path)
            /\ DOMAIN Append(o.path, c.segment) = 1..(Len(o.path) + 1)
            /\ \A i \in 1..Len(o.path) : Append(o.path, c.segment)[i] = o.path[i]
            /\ Append(o.path, c.segment)[Len(o.path) + 1] = c.segment
        BY <3>6 DEF Path
      <4>3. Len(o.path) + 1 \in 1..(Len(o.path) + 1) /\ 1..Len(o.path) \subseteq 1..(Len(o.path) + 1)
        BY <4>2
      <4>4. QED
        BY <4>1, <4>2, <4>3 DEF KeysOnly
    <3>8. PICK t \in Positions(a) : /\ t.path = o.path /\ I[o.value] \in Values(s)
                                    /\ C[<<t.value, I[o.value]>>]
      <4> HIDE DEF I, s, C
      <4>1. QED
        BY <1>2, <3>7
    <3> DEFINE x == o.value
               y == I[x]
    <3>9. PICK k \in DOMAIN x.fields : x.type = "object" /\ c = [segment |-> Key(k), value |-> x.fields[k]]
      <4> HIDE DEF x
      <4>1. ~IsKey(Index(0)) /\ \A i : ~IsKey(Index(i))
        BY SegmentForms
      <4>2. c \in Children(x)
        BY <3>3 DEF x
      <4>3. QED
        BY <3>7, <4>1, <4>2, ChildForms
    <3>10. y.type = "object" /\ y.fields = [l \in DOMAIN x.fields |-> I[x.fields[l]]]
      <4>1. I[x] = Object([l \in DOMAIN x.fields |-> I[x.fields[l]]])
        <5> HIDE DEF x
        <5>1. x \in Values(e) /\ x.type = "object"
          BY <3>6, <3>9 DEF x
        <5>2. QED
          BY <5>1, InferredForms
      <4> HIDE DEF I
      <4>2. QED
        BY <4>1 DEF Object
    <3>11. t.value \in Values(a) /\ y \in Values(s)
      BY <3>8 DEF Values
    <3>12. ConformsCall(C, t.value, y)
      <4> HIDE DEF s, y
      <4>1. C[<<t.value, y>>]
        BY <3>8 DEF y
      <4>2. QED
        BY <1>0, <3>11, <4>1, ConformsCases
    <3>13. t.value.type = "object" /\ k \in DOMAIN t.value.fields /\ C[<<t.value.fields[k], y.fields[k]>>]
      <4> HIDE DEF C, y, I, x
      <4>1. k \in DOMAIN y.fields
        BY <3>10
      <4>2. QED
        BY <3>10, <3>12, <4>1 DEF ConformsCall
    <3>14. y.fields[k] = I[p.value] /\ c.segment = Key(k)
      BY <3>4, <3>9, <3>10
    <3>15. y.fields[k] \in Values(s)
      <4> HIDE DEF s, y, I, x
      <4>1. k \in DOMAIN y.fields
        BY <3>10
      <4>2. QED
        BY <1>0, <3>10, <3>11, <4>1, SchemaFields
    <3> DEFINE d == [segment |-> Key(k), value |-> t.value.fields[k]]
               u == Position(Append(t.path, d.segment), d.value)
    <3>16. d \in Children(t.value)
      BY <3>13 DEF Children
    <3>17. u \in Positions(a)
      <4> HIDE DEF d
      <4>1. QED
        BY <3>16, PlaceBelow
    <3>18. u.path = p.path /\ u.value = t.value.fields[k]
      <4>1. u.path = Append(t.path, d.segment) /\ u.value = d.value
        BY Fields
      <4>2. d.segment = Key(k) /\ d.value = t.value.fields[k]
        OBVIOUS
      <4> HIDE DEF u, d
      <4>3. QED
        BY <3>4, <3>8, <3>14, <4>1, <4>2
    <3> HIDE DEF u, d, I, s, C, x, y
    <3>19. C[<<u.value, I[p.value]>>] /\ I[p.value] \in Values(s)
      BY <3>13, <3>14, <3>15, <3>18
    <3>20. QED
      BY <3>17, <3>18, <3>19
  <2> HIDE DEF Met
  <2>2. QED
    BY <2>1
<1>3. Nat \subseteq T
  <2> HIDE DEF T
  <2>1. QED
    BY <1>1, <1>2, SetInduction
<1>4. QED
  BY <1>3

\* schema_infer.rs and verifier.rs: what conforms to the schema inferred of a body has kept,
\* outside arrays, every field of it with its type.
LEMMA ConformsKeeps ==
  ASSUME NEW e, IsBody(e), NEW a, IsBody(a), Conforms(a, Infer(e))
  PROVE  \A s \in Skeleton(e) : \E t \in Skeleton(a) : s.path = t.path /\ t.type \in Passed(s.type)
<1> SUFFICES ASSUME NEW b \in Skeleton(e)
             PROVE  \E t \in Skeleton(a) : b.path = t.path /\ t.type \in Passed(b.type)
  OBVIOUS
<1> DEFINE s == Infer(e)
<1>1. PICK p \in Positions(e) : KeysOnly(p.path) /\ b = [path |-> p.path, type |-> TypeOf(p.value)]
  BY DEF Skeleton
<1>2. PICK n \in Nat : p \in Levels(e)[n]
  BY BodyPositions
<1>3. PICK t \in Positions(a) : /\ t.path = p.path
                                /\ Inferred(e)[p.value] \in Values(s)
                                /\ Conforming(a, s)[<<t.value, Inferred(e)[p.value]>>]
  BY <1>1, <1>2, ConformsPlaces
<1>4. t.value \in Values(a) /\ p.value \in Values(e)
  BY DEF Values
<1>5. IsNode(t.value)
  BY <1>4, ValueOf
<1>6. IsSchema(s)
  BY InferredSchema
<1>7. ConformsCall(Conforming(a, s), t.value, Inferred(e)[p.value])
  <2> HIDE DEF s
  <2>1. QED
    BY <1>3, <1>4, <1>6, ConformsCases
<1>8. TypeOf(t.value) \in Passed(TypeOf(p.value))
  BY <1>4, <1>5, <1>7, ConformsType
<1> DEFINE w == [path |-> t.path, type |-> TypeOf(t.value)]
<1>9. w \in Skeleton(a)
  BY <1>1, <1>3 DEF Skeleton
<1>10. w.path = b.path /\ w.type \in Passed(b.type)
  BY <1>1, <1>3, <1>8
<1> HIDE DEF w
<1>11. QED
  BY <1>9, <1>10

-----------------------------------------------------------------------------
(* The commands. *)

\* What verify says of an answer depends on the configuration, the file and the validator.
LEMMA MatchesKept ==
  ASSUME UNCHANGED <<operations, asserted, spec>>, NEW i, NEW f
  PROVE  Matches(i, f)' <=> Matches(i, f)
<1>1. \A v, s : Conforms(v, s)' = Conforms(v, s)
  BY DEF Conforms, Conforming, ConformsCall
<1>2. QED
  BY <1>1 DEF Matches

\* What a snapshot that can be read holds, and what an answer is that is verified.
IsAnswer(f) == f = [body |-> f.body, status |-> f.status] /\ IsBody(f.body) /\ f.status # "default"

Snapshots(files) ==
  /\ files = [i \in Configured |-> files[i]]
  /\ \A i \in Configured : files[i] \in {None, Damaged} \/ IsAnswer(files[i])

Origin == spec = Specification(described)
          /\ \A i \in Configured : described[i] = None \/ IsAnswer(described[i])

Verdict ==
  /\ DOMAIN verdict.answers \subseteq Configured
  /\ \A i \in DOMAIN verdict.answers :
       IsAnswer(verdict.answers[i]) /\ (i \in verdict.drift <=> ~Matches(i, verdict.answers[i]))

\* What was generated is what the snapshots it was generated from say; and what verify
\* reports is what the specification says of the answers.
OpenApiIInv ==
  /\ operations \in Configs
  /\ AssertedFormats
  /\ Snapshots(snapshots)
  /\ described # None => Origin
  /\ verdict # None => Verdict

\* What an endpoint may answer.
LEMMA AnswerOf ==
  ASSUME operations \in Configs, NEW i \in Configured, NEW f \in Answers[i]
  PROVE  IsAnswer(f) /\ IsAnswer(Masked(f))
<1>1. IsAnswer(f)
  BY OpenApiAssumption DEF IsAnswer, Configured
<1>2. Masked(f) = [body |-> MaskValue(f.body, Masking), status |-> f.status]
  BY <1>1 DEF Masked, IsAnswer
<1>3. IsBody(f.body) /\ Masking.maxDepth \in Nat
  BY <1>1, OpenApiAssumption DEF IsAnswer
<1>4. IsBody(MaskValue(f.body, Masking))
  BY <1>3, MaskedBody
<1> DEFINE b == MaskValue(f.body, Masking)
<1> HIDE DEF b
<1>5. Masked(f) = [body |-> b, status |-> f.status] /\ IsBody(b) /\ f.status # "default"
  BY <1>1, <1>2, <1>4 DEF b, IsAnswer
<1>6. IsAnswer(Masked(f))
  BY <1>5 DEF IsAnswer
<1>7. QED
  BY <1>1, <1>6

\* A snapshot that can be read is there and is not damaged.
LEMMA AnswerForms ==
  ASSUME NEW f, IsAnswer(f)
  PROVE  f # None /\ f # Damaged
<1>1. None # [body |-> f.body, status |-> f.status]
  BY DEF None
<1>2. Damaged # [body |-> f.body, status |-> f.status]
  BY DEF Damaged
<1>3. QED
  BY <1>1, <1>2 DEF IsAnswer

\* The invariant holds at first.
LEMMA OpenApiIInvInit == OpenApiInit => OpenApiIInv
<1> SUFFICES ASSUME OpenApiInit PROVE OpenApiIInv
  OBVIOUS
<1>1. operations \in Configs /\ described = None /\ verdict = None
  BY DEF OpenApiInit
<1>2. AssertedFormats
  BY DEF OpenApiInit, AssertedFormats
<1>3. Snapshots(snapshots)
  BY DEF OpenApiInit, Snapshots
<1>4. QED
  BY <1>1, <1>2, <1>3 DEF OpenApiIInv

\* Recording leaves what was generated and what it was generated from.
LEMMA RecordSnapshotKeeps ==
  ASSUME OpenApiIInv, verdict = None, NEW i \in Configured, NEW f \in Answers[i], RecordSnapshot(i, f)
  PROVE  OpenApiIInv'
<1> USE DEF OpenApiIInv, RecordSnapshot
<1>1. operations' \in Configs /\ AssertedFormats' /\ verdict' = None
  BY DEF AssertedFormats
<1>2. IsAnswer(Masked(f))
  BY AnswerOf
<1>3. Snapshots(snapshots)'
  BY <1>2 DEF Snapshots, Configured
<1>4. (described # None => Origin)'
  <2>1. Specification(described)' = Specification(described)
    BY DEF Specification, LastOf, Present, Configured
  <2>2. QED
    BY <2>1 DEF Origin, Configured
<1>5. QED
  BY <1>1, <1>3, <1>4

\* So does damage.
LEMMA DamageKeeps ==
  ASSUME OpenApiIInv, verdict = None, NEW i \in Configured, Damage(i)
  PROVE  OpenApiIInv'
<1> USE DEF OpenApiIInv, Damage
<1>1. operations' \in Configs /\ AssertedFormats' /\ verdict' = None
  BY DEF AssertedFormats
<1>3. Snapshots(snapshots)'
  BY DEF Snapshots, Configured
<1>4. (described # None => Origin)'
  <2>1. Specification(described)' = Specification(described)
    BY DEF Specification, LastOf, Present, Configured
  <2>2. QED
    BY <2>1 DEF Origin, Configured
<1>5. QED
  BY <1>1, <1>3, <1>4

\* Generating, from snapshots that can all be read, describes these.
LEMMA GenerateKeeps ==
  ASSUME OpenApiIInv, verdict = None, Generate
  PROVE  OpenApiIInv'
<1> USE DEF OpenApiIInv, Generate
<1>1. operations' \in Configs /\ AssertedFormats' /\ verdict' = None
  BY DEF AssertedFormats
<1>3. Snapshots(snapshots)'
  BY DEF Snapshots, Configured
<1>4. (described # None => Origin)'
  <2>1. CASE Readable
    <3>1. spec' = Specification(snapshots) /\ described' = snapshots
      BY <2>1
    <3>2. Specification(described)' = Specification(snapshots)
      BY <3>1 DEF Specification, LastOf, Present, Configured
    <3>3. \A i \in Configured : snapshots[i] = None \/ IsAnswer(snapshots[i])
      BY <2>1 DEF Snapshots, Readable, Present
    <3>4. QED
      BY <3>1, <3>2, <3>3 DEF Origin, Configured
  <2>2. CASE ~Readable
    <3>1. UNCHANGED <<spec, described, operations>>
      BY <2>2
    <3>2. Specification(described)' = Specification(described)
      BY <3>1 DEF Specification, LastOf, Present, Configured
    <3>3. QED
      BY <3>1, <3>2 DEF Origin, Configured
  <2>3. QED
    BY <2>1, <2>2
<1>5. QED
  BY <1>1, <1>3, <1>4

\* A step that leaves all but the verdict as it is.
LEMMA VerdictKeeps ==
  ASSUME OpenApiIInv, UNCHANGED <<operations, asserted, snapshots, spec, described>>,
         (verdict # None => Verdict)'
  PROVE  OpenApiIInv'
<1>1. operations' \in Configs /\ AssertedFormats'
  BY DEF OpenApiIInv, AssertedFormats
<1>3. Snapshots(snapshots)'
  BY DEF OpenApiIInv, Snapshots, Configured
<1>4. (described # None => Origin)'
  <2>1. Specification(described)' = Specification(described)
    BY DEF Specification, LastOf, Present, Configured
  <2>2. QED
    BY <2>1 DEF OpenApiIInv, Origin, Configured
<1>5. QED
  BY <1>1, <1>3, <1>4 DEF OpenApiIInv

\* A verdict on answers.
LEMMA VerdictOf ==
  ASSUME UNCHANGED <<operations, asserted, spec>>, NEW answers, DOMAIN answers \subseteq Configured,
         \A i \in DOMAIN answers : IsAnswer(answers[i]), NEW more, more \cap DOMAIN answers = {},
         verdict' = [answers |-> answers,
                     drift |-> {i \in DOMAIN answers : ~Matches(i, answers[i])} \cup more]
  PROVE  Verdict'
<1>1. verdict'.answers = answers
      /\ verdict'.drift = {i \in DOMAIN answers : ~Matches(i, answers[i])} \cup more
  OBVIOUS
<1>2. \A i : Matches(i, answers[i])' <=> Matches(i, answers[i])
  BY MatchesKept
<1>3. Configured' = Configured
  BY DEF Configured
<1>4. ASSUME NEW i \in DOMAIN answers
      PROVE  i \in verdict'.drift <=> ~Matches(i, verdict.answers[i])'
  <2>1. Matches(i, verdict.answers[i])' <=> Matches(i, answers[i])
    BY <1>1, <1>2 DEF Matches
  <2>2. i \in verdict'.drift <=> ~Matches(i, answers[i])
    BY <1>1
  <2>3. QED
    BY <2>1, <2>2
<1>5. QED
  BY <1>1, <1>3, <1>4 DEF Verdict

\* The verdict on the snapshots.
LEMMA VerifyRecordedKeeps ==
  ASSUME OpenApiIInv, VerifyRecorded
  PROVE  OpenApiIInv'
<1>1. UNCHANGED <<operations, asserted, snapshots, spec, described>>
  BY DEF VerifyRecorded
<1>2. CASE spec # None /\ Readable
  <2>1. PICK f : f = [i \in Present(snapshots) |-> snapshots[i]]
    OBVIOUS
  <2>2. verdict' = Reported(f)
    BY <1>2, <2>1 DEF VerifyRecorded
  <2>3. verdict' = [answers |-> f, drift |-> {i \in DOMAIN f : ~Matches(i, f[i])} \cup {}]
    BY <2>2 DEF Reported
  <2>4. DOMAIN f \subseteq Configured /\ DOMAIN f = Present(snapshots)
    BY <2>1 DEF Present
  <2>5. \A i \in DOMAIN f : IsAnswer(f[i])
    BY <1>2, <2>1, <2>4 DEF OpenApiIInv, Snapshots, Readable, Present
  <2>6. UNCHANGED <<operations, asserted, spec>>
    BY <1>1
  <2>7. Verdict'
    BY <2>3, <2>4, <2>5, <2>6, {} \cap DOMAIN f = {}, VerdictOf
  <2>8. QED
    BY <1>1, <2>7, VerdictKeeps
<1>3. CASE ~(spec # None /\ Readable)
  <2>1. verdict' = None
    BY <1>3 DEF VerifyRecorded
  <2>2. QED
    BY <1>1, <2>1, VerdictKeeps
<1>4. QED
  BY <1>2, <1>3

\* The verdict on what the API answers.
LEMMA VerifyLiveKeeps ==
  ASSUME OpenApiIInv, NEW answers \in Answering, VerifyLive(answers)
  PROVE  OpenApiIInv'
<1>1. UNCHANGED <<operations, asserted, snapshots, spec, described>>
  BY DEF VerifyLive
<1>2. CASE spec # None
  <2>1. DOMAIN answers \subseteq Configured /\ \A i \in DOMAIN answers : answers[i] \in Answers[i]
    BY DEF Answering
  <2> DEFINE f == [i \in DOMAIN answers |-> Masked(answers[i])]
             more == Configured \ DOMAIN answers
  <2>2. verdict' = [Reported(f) EXCEPT !.drift = @ \cup more]
    BY <1>2 DEF VerifyLive
  <2>3. DOMAIN f \subseteq Configured /\ more \cap DOMAIN f = {}
    BY <2>1
  <2>4. \A i \in DOMAIN f : IsAnswer(f[i])
    <3>1. ASSUME NEW i \in DOMAIN answers PROVE IsAnswer(Masked(answers[i]))
      <4>1. i \in Configured /\ answers[i] \in Answers[i] /\ operations \in Configs
        BY <2>1 DEF OpenApiIInv
      <4>2. QED
        BY <4>1, AnswerOf
    <3>2. QED
      BY <3>1
  <2>9. PICK b, m : b = f /\ m = more
    OBVIOUS
  <2> HIDE DEF f, more
  <2>5. verdict' = [answers |-> b, drift |-> {i \in DOMAIN b : ~Matches(i, b[i])} \cup m]
    BY <2>2, <2>9 DEF Reported
  <2>6. UNCHANGED <<operations, asserted, spec>>
    BY <1>1
  <2>7. Verdict'
    BY <2>3, <2>4, <2>5, <2>6, <2>9, VerdictOf
  <2>8. QED
    BY <1>1, <2>7, VerdictKeeps
<1>3. CASE spec = None
  <2>1. verdict' = None
    BY <1>3 DEF VerifyLive
  <2>2. QED
    BY <1>1, <2>1, VerdictKeeps
<1>4. QED
  BY <1>2, <1>3

\* Every step keeps the invariant.
LEMMA OpenApiIInvStep == OpenApiIInv /\ [OpenApiNext]_openApiVars => OpenApiIInv'
<1> SUFFICES ASSUME OpenApiIInv, [OpenApiNext]_openApiVars PROVE OpenApiIInv'
  OBVIOUS
<1>1. ASSUME verdict = None, NEW i \in Configured, NEW f \in Answers[i], RecordSnapshot(i, f)
      PROVE  OpenApiIInv'
  BY <1>1, RecordSnapshotKeeps
<1>2. ASSUME verdict = None, NEW i \in Configured, Damage(i) PROVE OpenApiIInv'
  BY <1>2, DamageKeeps
<1>3. CASE verdict = None /\ Generate
  BY <1>3, GenerateKeeps
<1>4. CASE VerifyRecorded
  BY <1>4, VerifyRecordedKeeps
<1>5. ASSUME NEW answers \in Answering, VerifyLive(answers) PROVE OpenApiIInv'
  BY <1>5, VerifyLiveKeeps
<1>6. CASE ReadReport
  <2>1. verdict' = None /\ UNCHANGED <<operations, asserted, snapshots, spec, described>>
    BY <1>6 DEF ReadReport
  <2>2. QED
    BY <2>1, VerdictKeeps
<1>7. CASE UNCHANGED openApiVars
  <2>1. UNCHANGED <<operations, asserted, snapshots, spec, described>> /\ verdict' = verdict
    BY <1>7 DEF openApiVars
  <2>2. (verdict # None => Verdict)'
    <3>1. \A i : Matches(i, verdict.answers[i])' <=> Matches(i, verdict.answers[i])
      <4>1. \A i, f : Matches(i, f)' <=> Matches(i, f)
        BY <2>1, MatchesKept
      <4>2. QED
        BY <2>1, <4>1 DEF Matches
    <3>2. QED
      BY <2>1, <3>1 DEF OpenApiIInv, Verdict, Configured
  <2>3. QED
    BY <2>1, <2>2, VerdictKeeps
<1>8. QED
  BY <1>1, <1>2, <1>3, <1>4, <1>5, <1>6, <1>7 DEF OpenApiNext

\* The operation of an endpoint that was described last is described by its snapshot.
LEMMA DescribedIs ==
  ASSUME OpenApiIInv, NEW i \in Configured, Described(i)
  PROVE  /\ operations[i] \in DOMAIN spec
         /\ spec[operations[i]] = [status \in {described[i].status} |-> Infer(described[i].body)]
         /\ IsAnswer(described[i])
<1>1. described # None /\ described[i] # None /\ Origin
  BY DEF Described, OpenApiIInv
<1> DEFINE operation == operations[i]
           S == {j \in Present(described) : operations[j] = operation}
<1>2. Configured \subseteq Nat
  <2>1. operations \in Seq({operations[j] : j \in DOMAIN operations})
    BY OpenApiAssumption DEF OpenApiIInv
  <2> DEFINE R == {operations[j] : j \in DOMAIN operations}
  <2> HIDE DEF R
  <2>2. operations \in Seq(R)
    BY <2>1 DEF R
  <2>3. DOMAIN operations \subseteq Nat
    BY <2>2
  <2>4. QED
    BY <2>3 DEF Configured
<1>3. i \in S /\ S \subseteq Nat
  BY <1>1, <1>2 DEF Present
<1>4. \A j \in S : j <= i
  <2>1. ASSUME NEW j \in S, ~(j <= i) PROVE FALSE
    <3>1. j \in Configured /\ described[j] # None /\ operations[j] = operations[i]
      BY DEF Present
    <3>2. j > i
      BY <1>2, <2>1, <3>1
    <3>3. QED
      BY <3>1, <3>2 DEF Described
  <2>2. QED
    BY <2>1
<1>5. Max(S) = i
  <2> HIDE DEF S
  <2>1. QED
    BY <1>3, <1>4, LargestOf
<1>6. LastOf(described, operation) = described[i]
  BY <1>5 DEF LastOf
<1>7. operation \in {operations[j] : j \in Present(described)}
  BY <1>3
<1>8. operation \in DOMAIN Specification(described)
      /\ Specification(described)[operation]
           = [status \in {LastOf(described, operation).status} |-> Infer(LastOf(described, operation).body)]
  <2> HIDE DEF operation
  <2>1. QED
    BY <1>7 DEF Specification
<1>9. IsAnswer(described[i])
  BY <1>1 DEF Origin
<1>10. QED
  BY <1>1, <1>6, <1>8, <1>9 DEF Origin

\* What verify passes against it is what conforms to what was inferred of its snapshot.
LEMMA MatchesIs ==
  ASSUME OpenApiIInv, NEW i \in Configured, Described(i), NEW f, IsAnswer(f)
  PROVE  Matches(i, f) <=> /\ f.status = described[i].status
                           /\ Conforms(f.body, Infer(described[i].body))
<1> DEFINE responses == spec[operations[i]]
<1>1. operations[i] \in DOMAIN spec
  BY DescribedIs
<1>2. responses = [status \in {described[i].status} |-> Infer(described[i].body)]
  BY DescribedIs
<1>3. IsAnswer(described[i])
  BY DescribedIs
<1>4. Matches(i, f) <=> \/ f.status \in DOMAIN responses /\ Conforms(f.body, responses[f.status])
                        \/ /\ f.status \notin DOMAIN responses /\ "default" \in DOMAIN responses
                           /\ Conforms(f.body, responses["default"])
  BY <1>1 DEF Matches
<1>5. described[i].status # "default"
  BY <1>3 DEF IsAnswer
<1> HIDE DEF responses
<1>6. QED
  BY <1>2, <1>4, <1>5

\* openapi/generator.rs and openapi/verifier.rs: what has not changed since the specification
\* was generated of it does not drift from it.
THEOREM OpenApiGeneratedVerifies == OpenApiSpec => []GeneratedVerifies
<1>1. OpenApiIInv => GeneratedVerifies
  <2> SUFFICES ASSUME OpenApiIInv, verdict # None, NEW i \in DOMAIN verdict.answers,
                      Described(i), verdict.answers[i] = described[i], Plain(described[i].body)
               PROVE  i \notin verdict.drift
    BY DEF GeneratedVerifies
  <2>1. Verdict /\ AssertedFormats
    BY DEF OpenApiIInv
  <2>2. i \in Configured /\ IsAnswer(described[i])
    BY <2>1 DEF Verdict
  <2>3. IsBody(described[i].body)
    BY <2>2 DEF IsAnswer
  <2>4. Conforms(described[i].body, Infer(described[i].body))
    BY <2>1, <2>3, PlainConforms
  <2>5. Matches(i, described[i])
    BY <2>2, <2>4, MatchesIs
  <2>6. QED
    BY <2>1, <2>5 DEF Verdict
<1>2. QED
  BY <1>1, OpenApiIInvInit, OpenApiIInvStep, PTL DEF OpenApiSpec

\* openapi/verifier.rs: what verify passes against a generated specification has kept, outside
\* arrays, every field of the snapshot with its type, and has its status.
THEOREM OpenApiVerifyCatches == OpenApiSpec => []VerifyCatches
<1>1. OpenApiIInv => VerifyCatches
  <2> SUFFICES ASSUME OpenApiIInv, verdict # None, NEW i \in Configured \ verdict.drift,
                      i \in DOMAIN verdict.answers, Described(i)
               PROVE  /\ verdict.answers[i].status = described[i].status
                      /\ \A s \in Skeleton(described[i].body) : \E t \in Skeleton(verdict.answers[i].body) :
                           s.path = t.path /\ t.type \in Passed(s.type)
    BY DEF VerifyCatches
  <2>1. Verdict
    BY DEF OpenApiIInv
  <2>2. IsAnswer(verdict.answers[i]) /\ Matches(i, verdict.answers[i])
    BY <2>1 DEF Verdict
  <2>3. IsAnswer(described[i])
    BY DescribedIs
  <2> DEFINE f == verdict.answers[i]
  <2>4. f.status = described[i].status /\ Conforms(f.body, Infer(described[i].body))
    <3> HIDE DEF f
    <3>1. IsAnswer(f) /\ Matches(i, f)
      BY <2>2 DEF f
    <3>2. QED
      BY <3>1, MatchesIs
  <2>5. IsBody(f.body) /\ IsBody(described[i].body)
    BY <2>2, <2>3 DEF IsAnswer
  <2>6. QED
    BY <2>4, <2>5, ConformsKeeps
<1>2. QED
  BY <1>1, OpenApiIInvInit, OpenApiIInvStep, PTL DEF OpenApiSpec
=============================================================================
