---------------------------- MODULE RuleMatcher -----------------------------
(***************************************************************************)
(* Which mask rule covers a position: match_tokenized_rule                 *)
(* (src/src/engine/masker.rs) and the matcher that it asks first, a trie   *)
(* of the rules' paths that is compiled (src/src/engine/jit_rule.rs).      *)
(* A rule has its path and `words`, the parts of its text between the dots *)
(* (empty ones left out), which the trie is built from: `$.a[0].b` has the *)
(* words a[0] and b.  The FNV-1a hashes do not collide (external).         *)
(***************************************************************************)
EXTENDS Paths, FiniteSets, FiniteSetsExt

\* segments_match.
SegmentsMatch(rule, path) ==
  /\ Len(rule) = Len(path)
  /\ \A i \in DOMAIN path : rule[i] = path[i] \/ (rule[i] = AnyIndex /\ IsIndex(path[i]))

\* The rules that end at a leaf of the compiler's trie: no rule goes on from there.
TrieLeaves(rules) ==
  {i \in DOMAIN rules :
    LET w == rules[i].words IN
      \A j \in DOMAIN rules :
        LET more == rules[j].words IN
          ~(Len(more) > Len(w) /\ SubSeq(more, 1, Len(w)) = w)}

\* The words are those of the keys at the beginning of a path.
LeadsAlong(words, path) ==
  Len(words) <= Len(path) /\ \A n \in DOMAIN words : path[n] = Key(words[n])

\* Mutant: the trie is built from the keys of a path alone.
JitMatches_KeysAlone(rules, path) ==
  {i \in DOMAIN rules :
    LET q == SelectSeq(rules[i].path, IsKey)
    IN  q # <<>> /\ Len(q) <= Len(path) /\ SubSeq(path, 1, Len(q)) = q}

\* The rules at the leaf that the matcher reaches along the path, whether or not
\* the path ends there; the leaf keeps the last of them.
JitMatches(rules, path) ==
  {i \in TrieLeaves(rules) : LeadsAlong(rules[i].words, path)}

\* match_tokenized_rule: the number of the rule, or 0.
StandardRule(rules, path) ==
  LET m == {i \in DOMAIN rules : SegmentsMatch(rules[i].path, path)}
  IN  IF m = {} THEN 0 ELSE Min(m)

RuleFor(rules, path) ==
  LET jit == IF path # <<>> /\ KeysOnly(path) THEN JitMatches(rules, path) ELSE {}
  IN  IF jit # {} THEN Max(jit) ELSE StandardRule(rules, path)
=============================================================================
