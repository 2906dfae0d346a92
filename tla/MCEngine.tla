------------------------------ MODULE MCEngine ------------------------------
(* Instance of Engine for TLC: small bodies over texts that are recognised  *)
(* or not, numbers that are close or not, a key in two Unicode forms, and    *)
(* settings that each turn on one feature or two that interact.              *)
EXTENDS Engine

NfcOf(k) == IF k = "a~" THEN "a" ELSE k
Labels == [u1 |-> "<MASKED_UUID>", u2 |-> "<MASKED_UUID>", m1 |-> "<MASKED_EMAIL>"]
Times == {"t"}
EpochNumbers == {8, 9}

Leaves == {Null, Number(0), Number(1), Number(9), Text("s"), Text("u1"), Text("u2"), Text("m1")}
Numbers == {Number(i) : i \in 0..2}
Triples == { <<x, y, z>> : x, y, z \in Numbers }
Arrays == {Array(<<>>)} \cup {Array(<<x>>) : x \in Numbers \cup {Text("u1"), Number(9)}}
            \cup {Array(<<x, y>>) : x, y \in Numbers}
            \cup {Array(s) : s \in {t \in Triples : Cardinality({t[i] : i \in 1..3}) = 3}}
Inner == {Object([b |-> x]) : x \in Leaves} \cup {Object([b |-> x, c |-> Number(0)]) : x \in {Null, Text("u1")}}
MCBodies ==
  {Object([a |-> x]) : x \in Leaves \cup Arrays \cup Inner}
  \cup {Object([t |-> x]) : x \in {Number(9), Number(8), Number(1)} \cup {Array(<<Number(n)>>) : n \in {1, 8, 9}}}
  \cup {Object([a |-> x, t |-> y]) : x \in {Text("u1"), Number(0)}, y \in {Number(9), Number(0)}}
  \cup {[type |-> "object", fields |-> [k \in {"a~"} |-> x]] : x \in {Number(0), Text("u1")}}
  \cup {Object([a |-> Array(<<Array(<<x>>), Array(<<y>>)>>)]) : x, y \in {Number(0), Number(2)}}
  \cup {Object([a |-> Object([k \in ks |-> Number(0)])]) : ks \in SUBSET {"a", "a~"}}
  \cup {Object([k \in {s} |-> x]) : s \in {"a[0]", "a.b"}, x \in {Text("s"), Text("u1"), Number(1)}}
  \cup {Object([k \in {"a.b", "a"} |-> IF k = "a" THEN Object([b |-> x]) ELSE Number(1)])
          : x \in {Number(0), Number(1)}}

\* A path as text, counting from 0; and the path and the words that are read in a text,
\* which are those of the path of simple keys that is written like it.
Spelled(s) ==
  CASE IsKey(s) -> "." \o s.key
    [] IsIndex(s) -> "[" \o ToString(s.index - 1) \o "]"
    [] OTHER -> "[*]"
TextOf(path) == FoldLeft(LAMBDA text, s : text \o Spelled(s), "$", path)
SimplePaths == SeqOf({Key(k) : k \in {"a", "b", "c", "t", "a~"}} \cup {Index(i) : i \in 1..3}, 3)
SimpleTexts == [path \in SimplePaths |-> TextOf(path)]
ParsedIn(text) == CHOOSE path \in SimplePaths : SimpleTexts[path] = text
AddWord(words, s) ==
  IF IsKey(s) THEN Append(words, s.key)
  ELSE IF words = <<>> THEN <<Spelled(s)>>
  ELSE Append(Front(words), Last(words) \o Spelled(s))
WordsOf(path) == FoldLeft(AddWord, <<>>, path)
WordsIn(text) == WordsOf(ParsedIn(text))

SplitKey(k) == IF k = "a.b" THEN <<Key("a"), Key("b")>> ELSE <<Key(k)>>
MCPayloads ==
  {Array(<<>>), Array(<<Text("s"), Number(3)>>), Object([a |-> Null]), Object([a |-> Number(3), b |-> Text("s")]),
   Object([a |-> Object([b |-> Number(3), c |-> Array(<<Number(1), Text("s"), Number(2)>>)])]),
   Object([a |-> Array(<<Object([b |-> Text("s")]), Object([b |-> Text("u1")])>>)]),
   Object([k \in {"a.b", "a"} |-> IF k = "a" THEN Object([b |-> Number(3)]) ELSE Text("s")])}
a == <<Key("a")>>
MCConsumers == {{}, {a}, {Append(a, Key("b"))}, {Append(a, Index(1)), <<Key("t")>>}}
Mask1(path) == [path |-> path, words |-> WordsOf(path), replacement |-> "<R>", matches |-> NoPattern]
Mask2(path) == [path |-> path, words |-> WordsOf(path), replacement |-> "<R2>", matches |-> NoPattern]
Substitute(path) ==
  [path |-> path, words |-> WordsOf(path), replacement |-> "<P>", matches |-> {"s", "u1"}]
Plain == [rules |-> <<>>, heuristics |-> TRUE, strict |-> FALSE, allowed |-> {}, maxDepth |-> 4,
          epsilon |-> 0, setPaths |-> {}, nfc |-> TRUE]
MCSettings ==
  {Plain,
   [Plain EXCEPT !.nfc = FALSE, !.heuristics = FALSE],
   [Plain EXCEPT !.epsilon = 1],
   [Plain EXCEPT !.setPaths = {a}],
   [Plain EXCEPT !.setPaths = {a}, !.epsilon = 1],
   [Plain EXCEPT !.maxDepth = 1],
   [Plain EXCEPT !.strict = TRUE, !.allowed = {a, Append(a, Index(2))}],
   [Plain EXCEPT !.rules = <<Mask1(a)>>],
   [Plain EXCEPT !.rules = <<Mask1(a), Mask2(a)>>],
   [Plain EXCEPT !.rules = <<Mask1(Append(a, AnyIndex)), Mask2(Append(a, Index(1)))>>],
   [Plain EXCEPT !.rules = <<Mask1(Append(a, Key("b"))), Mask2(a)>>],
   [Plain EXCEPT !.rules = <<Mask1(Append(a, Key("b"))), Mask2(Append(a, AnyIndex))>>],
   [Plain EXCEPT !.rules = <<Substitute(a)>>, !.strict = TRUE]}
=============================================================================
