------------------------------- MODULE Engine -------------------------------
(***************************************************************************)
(* What the commands make of two bodies of an endpoint (src/src/cli/       *)
(* commands.rs): record masks one and stores it, test and blast-radius     *)
(* mask what the API answers later and compare the two, `record --learn`   *)
(* takes them for probes, shadow for the answers of its two upstreams, and *)
(* fuzz makes mutations of a body.                                         *)
(***************************************************************************)
EXTENDS Learner, BlastRadius, ShadowFilter, Mutator

CONSTANTS Bodies,    \* response bodies
          Settings,  \* the masking and diff options of an endpoint
          Consumers, \* the consumers of the endpoint
          Payloads   \* its request bodies

\* Options as a configuration gives them.
IsSettings(s) ==
  /\ DOMAIN s = {"rules", "heuristics", "strict", "allowed", "maxDepth", "epsilon", "setPaths", "nfc"}
  /\ s.maxDepth \in Nat /\ s.epsilon \in Nat
  /\ s.setPaths \subseteq Path /\ s.allowed \subseteq Path
  /\ s.rules \in Seq({s.rules[i] : i \in DOMAIN s.rules})
  /\ \A i \in DOMAIN s.rules : s.rules[i].path \in Path /\ s.rules[i].words \in Seq(STRING)

ASSUME EngineAssumption ==
  /\ \A body \in Bodies \cup Payloads : IsBody(body)
  /\ \A s \in Settings : IsSettings(s)

VARIABLES settings, recorded, stored,
          answered, \* the other body that the command has
          report,   \* what the command reports: a set
          phase

engineVars == <<settings, recorded, stored, answered, report, phase>>

EngineInit ==
  /\ settings \in Settings
  /\ recorded \in Bodies
  /\ stored = Nothing /\ answered = Nothing /\ report = {}
  /\ phase = "new"

Record ==
  /\ phase = "new"
  /\ stored' = MaskValue(recorded, settings)
  /\ phase' = "recorded"
  /\ UNCHANGED <<settings, recorded, answered, report>>

Test(body) ==
  /\ phase = "recorded"
  /\ answered' = body
  /\ report' = CompareJsonAst(stored, MaskValue(body, settings), settings)
  /\ phase' = "tested"
  /\ UNCHANGED <<settings, recorded, stored>>

\* DiffOptions::default(), and the depth that MaskContext::new gives.
DefaultDepth == 512
DefaultOptions == [epsilon |-> 0, setPaths |-> {}, nfc |-> TRUE, maxDepth |-> DefaultDepth]
Undepthed == [settings EXCEPT !.maxDepth = DefaultDepth]

\* handle_blast_radius: with the rules of the endpoint and default options.
HandleBlastRadius(body) ==
  /\ phase = "recorded"
  /\ answered' = body
  /\ report' = Calculate(CompareJsonAst(stored, MaskValue(body, Undepthed), DefaultOptions),
                         Consumers)
  /\ phase' = "blasted"
  /\ UNCHANGED <<settings, recorded, stored>>

\* record --learn, with two probes that are answered.
Learn(body) ==
  /\ phase = "new"
  /\ answered' = body
  /\ report' = UnstablePaths({recorded, body}, Undepthed)
  /\ phase' = "learned"
  /\ UNCHANGED <<settings, recorded, stored>>

\* A session of the shadow proxy: the baseline's body and the candidate's.
Shadow(body) ==
  /\ phase = "new"
  /\ answered' = body
  /\ report' = {x \in {"drift"} : StructurallyDrifted(recorded, body)}
  /\ phase' = "shadowed"
  /\ UNCHANGED <<settings, recorded, stored>>

\* run_fuzz sends each of the mutations of the request's body, whatever is answered
\* to the others.
Fuzz(payload) ==
  /\ phase = "new"
  /\ answered' = payload
  /\ report' = GenerateMutations(payload)
  /\ phase' = "fuzzed"
  /\ UNCHANGED <<settings, recorded, stored>>

EngineNext ==
  \/ Record
  \/ \E body \in Bodies : Test(body)
  \/ \E body \in Bodies : HandleBlastRadius(body)
  \/ \E body \in Bodies : Learn(body)
  \/ \E body \in Bodies : Shadow(body)
  \/ \E payload \in Payloads : Fuzz(payload)

EngineSpec == EngineInit /\ [][EngineNext]_engineVars

-----------------------------------------------------------------------------
Tested == phase = "tested"
Actual == MaskValue(answered, settings)

\* No position lies deeper than max_depth.
Shallow(v) == \A p \in Positions(v) : Len(p.path) <= settings.maxDepth

\* The reference for comparing: two bodies agree when there is a way to pair what
\* they hold.
Pair(e, a, path) == [expected |-> e, actual |-> a, path |-> path]
SameParts(same, e, a, path) ==
  /\ e.type = a.type
  /\ CASE e.type = "object" ->
            LET old == Normalized(e.fields, settings)
                new == Normalized(a.fields, settings)
            IN  /\ DOMAIN old = DOMAIN new
                /\ \A k \in DOMAIN old : same[Pair(old[k], new[k], Append(path, Key(k)))]
       [] e.type = "array" ->
            /\ Len(e.items) = Len(a.items)
            /\ IF path \in settings.setPaths
               THEN CanPair({q \in (DOMAIN e.items) \X (DOMAIN a.items) :
                               same[Pair(e.items[q[1]], a.items[q[2]], path)]},
                            Len(e.items), Len(a.items))
               ELSE \A i \in DOMAIN e.items :
                      same[Pair(e.items[i], a.items[i], Append(path, Index(i)))]
       [] e.type = "number" ->
            e.num - a.num \in (-settings.epsilon)..settings.epsilon
       [] OTHER -> e = a
Pairs(e, a) == [expected : Values(e), actual : Values(a), path : Path]
Sameness(e, a) ==
  LET same[q \in Pairs(e, a)] == SameParts(same, q.expected, q.actual, q.path) IN same
Same(e, a, path) == Sameness(e, a)[Pair(e, a, path)]

\* A container without what it holds.
Bare(v) == IF v.type \in Containers THEN [type |-> v.type] ELSE v

\* The reference for masking: what each position of a body shows.  A position below
\* a rule's shows nothing, one at a rule's shows all of what the rule makes of it, a
\* container shows its type, and a leaf shows itself unless it is masked.
ParentKey(path) ==
  LET keys == {i \in DOMAIN path : IsKey(path[i])}
  IN  IF keys = {} THEN "$" ELSE path[Max(keys)].key
Ruled(path) == StandardRule(settings.rules, path) # 0
Seen(v) ==
  {p \in Positions(v) : \A n \in 0..(Len(p.path) - 1) : ~Ruled(SubSeq(p.path, 1, n))}
Shown(p) ==
  CASE Ruled(p.path) -> Apply(settings.rules[StandardRule(settings.rules, p.path)], p.value)
    [] ~Ruled(p.path) /\ p.value.type \in Containers -> Bare(p.value)
    [] OTHER -> IF settings.strict /\ IsLeaf(p.value) /\ p.path \notin settings.allowed
                THEN Redacted ELSE MaskLeaf(p.value, ParentKey(p.path), settings)
Parts(p) ==
  IF Ruled(p.path) THEN {Position(p.path \o q.path, q.value) : q \in Positions(Shown(p))}
  ELSE {Position(p.path, Shown(p))}
NormalPath(path) ==
  [i \in DOMAIN path |-> IF IsKey(path[i]) /\ settings.nfc
                         THEN Key(Nfc(path[i].key)) ELSE path[i]]
View(v) ==
  {[path |-> NormalPath(q.path), shown |-> Bare(q.value)] : q \in UNION {Parts(p) : p \in Seen(v)}}

\* compare_json_ast finds no difference only in bodies that agree; and, unless
\* sets are matched under a tolerance (where the greedy choice may miss a pairing)
\* or a position is too deep, it finds none in all of those.
NoDifferenceIffSame ==
  Tested =>
    /\ report = {} => Same(stored, Actual, <<>>)
    /\ ( /\ Same(stored, Actual, <<>>)
         /\ settings.epsilon = 0 \/ settings.setPaths = {}
         /\ Shallow(stored) /\ Shallow(Actual) )
       => report = {}

\* No two keys of one object have the same normal form.
Apart(v) == \A p, q \in Positions(v) : NormalPath(p.path) = NormalPath(q.path) => p = q

\* Every difference that is reported is one: at its path the two bodies hold what
\* it says, or one of them holds nothing.
DifferencesReal ==
  LET At(v, path) == {p.value : p \in {q \in Positions(v) : NormalPath(q.path) = path}}
  IN  Tested => \A d \in report :
        CASE d.kind \in {"modified", "type", "length"} ->
               /\ d.old \in At(stored, d.path) /\ d.new \in At(Actual, d.path)
               /\ ~Same(d.old, d.new, d.path)
          [] d.kind = "removed" /\ ~(AnyIndex \in {d.path[i] : i \in DOMAIN d.path}) ->
               d.old \in At(stored, d.path) /\ (Apart(Actual) => At(Actual, d.path) = {})
          [] d.kind = "added" /\ ~(AnyIndex \in {d.path[i] : i \in DOMAIN d.path}) ->
               d.new \in At(Actual, d.path) /\ (Apart(stored) => At(stored, d.path) = {})
          [] OTHER -> TRUE

\* No two rules have one path: where they do, the compiled matcher gives the last of
\* them and the standard one the first.
DistinctRules ==
  \A i, j \in DOMAIN settings.rules : settings.rules[i].path = settings.rules[j].path => i = j

KeysOf(v) == UNION {KeysIn(p.path) : p \in Positions(v)}

\* As far as the words are keys of the bodies, they are the path's: a rule that ends
\* there is for the keys it names.  The compiled matcher takes `$.a[0]` for a rule about
\* a key with the name a[0]; where there is no such key the rule is plain.
PlainlyWritten(words, path, keys) ==
  \A n \in 0..Len(words) :
    (\A i \in 1..n : words[i] \in keys) =>
      /\ LeadsAlong(SubSeq(words, 1, n), path)
      /\ n = Len(words) => Len(path) = n
PlainRules(keys) ==
  \A i \in DOMAIN settings.rules : PlainlyWritten(settings.rules[i].words, settings.rules[i].path, keys)

\* Masking hides the noise and nothing else: a test finds no difference exactly
\* when every position shows the same in the recorded body and in the answer.
OnlyNoiseIsHidden ==
  ( /\ Tested /\ settings.epsilon = 0 /\ settings.setPaths = {}
    /\ DistinctRules /\ PlainRules(KeysOf(recorded) \cup KeysOf(answered))
    /\ \A v \in {recorded, answered} : Shallow(v) /\ Apart(v) )
  => (report = {} <=> View(recorded) = View(answered))

\* masker.rs:281, "Fast path": where rule paths are distinct and no key of the body reads
\* like a bracket of a rule, the compiled matcher gives the rule that the standard
\* matching gives, at every position that masking comes to.
JitAgrees ==
  DistinctRules /\ PlainRules(KeysOf(recorded)) =>
    \A p \in Seen(recorded) :
      RuleFor(settings.rules, p.path) = StandardRule(settings.rules, p.path)

\* Adopted, the learned rules settle the noise and hide nothing else: two probes of
\* the same shape are masked alike, and what was stable still shows.  Left out: an
\* unstable path under a rule whose pattern does not match, which comes first, and
\* bodies with keys that are not read back as themselves from the text of a path.
LearnedRulesSettle ==
  LET Masked(b) == MaskValue(b, Undepthed)
      After(b) == MaskValue(b, Adopt(Undepthed, report))
      Kind(v) == IF v.type \in Containers THEN v.type ELSE "leaf"
      Shape(v) == {[path |-> p.path, kind |-> Kind(p.value)] : p \in Positions(v)}
      Leaves(v) == {p \in Positions(v) : p.value.type \notin Containers}
      Kept(v) == {p \in Leaves(v) : Written(p.path) \notin report}
      keys == KeysOf(recorded) \cup KeysOf(answered)
      ReadBack(path) == /\ Parsed(Written(path)) = path
                        /\ PlainlyWritten(Words(Written(path)), path, keys)
  IN  ( /\ phase = "learned"
        /\ Shape(Masked(recorded)) = Shape(Masked(answered))
        /\ PlainRules(keys)
        /\ \A b \in {recorded, answered} : \A p \in Leaves(Masked(b)) : ReadBack(p.path)
        /\ \A text \in report :
             \A n \in 0..Len(Parsed(text)) : ~Ruled(SubSeq(Parsed(text), 1, n)) )
      => /\ After(recorded) = After(answered)
         /\ \A b \in {recorded, answered} : Kept(Masked(b)) \subseteq Positions(After(b))

\* A consumer of the whole body hears of every difference.  One that names its paths
\* hears of each that differs by itself, as critical when the field is gone, and of
\* nothing else.  Left out: what a change above or below the path does to it.
BlastTells ==
  LET live == MaskValue(answered, Undepthed)
      At(v, path) == {p.value : p \in {q \in Positions(v) : q.path = path}}
      Gone(path) == /\ path # <<>> /\ IsKey(path[Len(path)])
                    /\ At(stored, path) # {} /\ At(live, path) = {}
                    /\ \A v \in {stored, live} :
                         \E o \in At(v, SubSeq(path, 1, Len(path) - 1)) : o.type = "object"
      Finding(c) == {f \in report : f.consumer = c}
  IN  (phase = "blasted" /\ \A p \in Positions(stored) \cup Positions(live) :
                               \A i \in DOMAIN p.path :
                                 IsKey(p.path[i]) => Nfc(p.path[i].key) = p.path[i].key) =>
        \A c \in Consumers :
          /\ c = {} => (Finding(c) # {} <=> stored # live)
          /\ \A path \in c : Gone(path) => \E f \in Finding(c) : f.critical /\ path \in f.paths
          /\ c # {} =>
               \A f \in Finding(c) : \A path \in f.paths : At(stored, path) # At(live, path)

\* The shadow proxy and the diff engine agree on structure: a drift is found exactly
\* when comparing the two answers finds a field too many or too few, another length,
\* or a container in the place of something else.
DriftIsStructure ==
  LET Structural(d) ==
        \/ d.kind \in {"removed", "added", "length"}
        \/ d.kind = "type" /\ {d.old.type, d.new.type} \cap Containers # {}
  IN  phase = "shadowed" =>
        (report # {} <=> \E d \in CompareJsonAst(recorded, answered, [DefaultOptions EXCEPT !.nfc = FALSE]) :
                           Structural(d))

\* mutator.rs:4, "targeting a specific JSONPath": a mutation changes its target as it
\* says and nothing beside it, and no field, text, number or array is forgotten.
\* Left out: bodies with keys that are not read back as themselves.
MutationsPrecise ==
  LET at == Positions(answered)
      Under(path, q) == Len(path) <= Len(q) /\ SubSeq(q, 1, Len(path)) = path
      Beside(v, path) ==
        {[path |-> p.path, shows |-> Bare(p.value)]
           : p \in {q \in Positions(v) : ~Under(path, q.path)}}
      At(v, path) == {p.value : p \in {q \in Positions(v) : q.path = path}}
      Targets(change) == {m.path : m \in {x \in report : x.change = change}}
  IN  (phase = "fuzzed" /\ \A p \in at : Segments(p.path) = p.path) =>
        /\ \A m \in report : m.change # "payload" =>
             /\ Beside(m.body, m.path) = Beside(answered, m.path)
             /\ At(m.body, m.path) = IF m.change = "missing" THEN {} ELSE {m.new}
        /\ \A p \in at :
             /\ p.path # <<>> /\ IsKey(p.path[Len(p.path)]) => p.path \in Targets("missing")
             /\ p.value.type \in {"string", "number", "array"} => p.path \in Targets("replaced")
=============================================================================
