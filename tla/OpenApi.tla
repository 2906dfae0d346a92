------------------------------- MODULE OpenApi ------------------------------
(***************************************************************************)
(* `apisnap openapi` (src/src/openapi/): generate makes a specification of *)
(* the snapshots, verify holds the snapshots, or the answers of the        *)
(* running API, against a specification.                                   *)
(*                                                                         *)
(* An operation is the path and the method of an endpoint.  A              *)
(* specification has for each of its operations a schema for each status,  *)
(* or for "default".  Of a schema only what validation looks at is         *)
(* modelled; it is data like a body, so that it has parts as a body does.  *)
(***************************************************************************)
EXTENDS Masker

CONSTANTS Configs,    \* the operations of the configured endpoints, in their order
          Answers,    \* for each endpoint, what the API may answer: a body and a status
          Masking,    \* the masking options
          Fractions,  \* the numbers that are not whole
          Formats,    \* for each mask that a schema has a format for, the format
          Supplied    \* specifications that the user may have written

ASSUME OpenApiAssumption ==
  /\ Masking.maxDepth \in Nat
  /\ \A mask \in DOMAIN Formats : Formats[mask] # "none"
  /\ \A config \in Configs :
       /\ config \in Seq({config[i] : i \in DOMAIN config})
       /\ \A i \in DOMAIN config : \A answer \in Answers[i] :
            /\ answer = [body |-> answer.body, status |-> answer.status]
            /\ IsBody(answer.body) /\ answer.status # "default"
  /\ \A file \in Supplied : \A operation \in DOMAIN file : \A status \in DOMAIN file[operation] :
       Levels(file[operation][status])[Nesting + 1] = {}

VARIABLES operations,  \* the configuration
          asserted,    \* the formats that the validator asserts
          snapshots,   \* for each endpoint its snapshot
          spec,        \* the file of the specification
          described,   \* history: the snapshots that it was generated from
          verdict       \* what verify reports

openApiVars == <<operations, asserted, snapshots, spec, described, verdict>>

None == [none |-> TRUE]
Damaged == [damaged |-> TRUE]
MaskedEpoch == "<MASKED_EPOCH>"
Configured == DOMAIN operations

AnyValue == [type |-> "any"]

InferText(s) ==
  IF s = MaskedEpoch THEN [type |-> "integer"]
  ELSE [type |-> "string", format |-> IF s \in DOMAIN Formats THEN Formats[s] ELSE "none"]

\* Mutant: every number is taken for a whole one.
InferNumber_Whole(n) == [type |-> "integer"]

InferNumber(n) == [type |-> IF n \in Fractions THEN "number" ELSE "integer"]

\* Below, `infer` has for each part of a value the schema that is inferred of it.
\* Mutant: a field that was null in the snapshot is not required.
InferObject_NullsOptional(infer, fields) ==
  Object([k \in {f \in DOMAIN fields : fields[f].type # "null"} |-> infer[fields[k]]])

\* Every field is required, and others are allowed.
InferObject(infer, fields) == Object([k \in DOMAIN fields |-> infer[fields[k]]])

\* The items of an array are like the first; of those of an empty one nothing is asked.
InferItems(infer, items) == Array(IF items = <<>> THEN <<>> ELSE <<infer[items[1]]>>)

InferCall(infer, v) ==
  CASE v.type = "object" -> InferObject(infer, v.fields)
    [] v.type = "array" -> InferItems(infer, v.items)
    [] v.type = "number" -> InferNumber(v.num)
    [] v.type = "string" -> InferText(v.str)
    [] OTHER -> [type |-> v.type]

\* infer_schema_from_value.
Inferred(v) == LET infer[x \in Values(v)] == InferCall(infer, x) IN infer
Infer(v) == Inferred(v)[v]

\* The texts that have a format are those that masking recognises by it.
HasFormat(s, format) ==
  s \in DOMAIN Recognised /\ Recognised[s] \in DOMAIN Formats /\ Formats[Recognised[s]] = format

ConformsCall(conforms, v, schema) ==
  CASE schema.type = "any" -> TRUE
    [] schema.type = "object" ->
         /\ v.type = "object" /\ DOMAIN schema.fields \subseteq DOMAIN v.fields
         /\ \A k \in DOMAIN schema.fields : conforms[<<v.fields[k], schema.fields[k]>>]
    [] schema.type = "array" ->
         /\ v.type = "array"
         /\ \A i \in DOMAIN v.items, j \in DOMAIN schema.items :
              conforms[<<v.items[i], schema.items[j]>>]
    [] schema.type = "integer" -> v.type = "number" /\ v.num \notin Fractions
    [] schema.type = "string" ->
         v.type = "string" /\ (schema.format \in asserted => HasFormat(v.str, schema.format))
    [] OTHER -> v.type = schema.type

\* JSONSchema::validate (external).
Conforming(v, schema) ==
  LET conforms[q \in Values(v) \X Values(schema)] == ConformsCall(conforms, q[1], q[2])
  IN  conforms
Conforms(v, schema) == Conforming(v, schema)[<<v, schema>>]

\* validate_ast_against_openapi.
Matches(i, answer) ==
  LET operation == operations[i] IN
  /\ operation \in DOMAIN spec
  /\ LET responses == spec[operation] IN
     \/ /\ answer.status \in DOMAIN responses
        /\ Conforms(answer.body, responses[answer.status])
     \/ /\ answer.status \notin DOMAIN responses /\ "default" \in DOMAIN responses
        /\ Conforms(answer.body, responses["default"])

Masked(answer) == [answer EXCEPT !.body = MaskValue(@, Masking)]

OpenApiInit ==
  /\ operations \in Configs
  /\ asserted \in {{}, {Formats[mask] : mask \in DOMAIN Formats}}
  /\ snapshots = [i \in Configured |-> None]
  /\ spec \in {None} \cup Supplied
  /\ described = None /\ verdict = None

\* record and approve-diff.
RecordSnapshot(i, answer) ==
  /\ snapshots' = [snapshots EXCEPT ![i] = Masked(answer)]
  /\ UNCHANGED <<operations, asserted, spec, described, verdict>>

\* A file of a snapshot that cannot be read, as a capture that was cut short leaves it.
Damage(i) ==
  /\ snapshots[i] # None
  /\ snapshots' = [snapshots EXCEPT ![i] = Damaged]
  /\ UNCHANGED <<operations, asserted, spec, described, verdict>>

Present(files) == {i \in Configured : files[i] # None}
Readable == \A i \in Present(snapshots) : snapshots[i] # Damaged

\* Of the endpoints with the same operation the last counts.
LastOf(files, operation) ==
  files[Max({i \in Present(files) : operations[i] = operation})]

Specification(files) ==
  [operation \in {operations[i] : i \in Present(files)} |->
     [status \in {LastOf(files, operation).status} |-> Infer(LastOf(files, operation).body)]]

\* generate_openapi_spec; what cannot be read ends it.
Generate ==
  /\ IF Readable THEN spec' = Specification(snapshots) /\ described' = snapshots
                 ELSE UNCHANGED <<spec, described>>
  /\ UNCHANGED <<operations, asserted, snapshots, verdict>>

Reported(answers) ==
  [answers |-> answers, drift |-> {i \in DOMAIN answers : ~Matches(i, answers[i])}]

\* verify_openapi_spec; what cannot be read ends it.
VerifyRecorded ==
  /\ verdict' = IF spec # None /\ Readable
               THEN Reported([i \in Present(snapshots) |-> snapshots[i]]) ELSE None
  /\ UNCHANGED <<operations, asserted, snapshots, spec, described>>

\* verify_openapi_live: of all endpoints those that do not answer count as drift.
VerifyLive(answers) ==
  /\ verdict' = IF spec = None THEN None
               ELSE [Reported([i \in DOMAIN answers |-> Masked(answers[i])])
                       EXCEPT !.drift = @ \cup (Configured \ DOMAIN answers)]
  /\ UNCHANGED <<operations, asserted, snapshots, spec, described>>

Answering == UNION {{f \in [answering -> UNION {Answers[i] : i \in Configured}] :
                       \A i \in answering : f[i] \in Answers[i]} : answering \in SUBSET Configured}

\* The user reads the report before the next command.
ReadReport ==
  /\ verdict # None
  /\ verdict' = None
  /\ UNCHANGED <<operations, asserted, snapshots, spec, described>>

OpenApiNext ==
  \/ /\ verdict = None
     /\ \/ \E i \in Configured : \E answer \in Answers[i] : RecordSnapshot(i, answer)
        \/ \E i \in Configured : Damage(i)
        \/ Generate
        \/ VerifyRecorded
        \/ \E answers \in Answering : VerifyLive(answers)
  \/ ReadReport

OpenApiSpec == OpenApiInit /\ [][OpenApiNext]_openApiVars

-----------------------------------------------------------------------------
\* The snapshot that the operation of an endpoint was generated from is its own.
Described(i) ==
  /\ described # None /\ described[i] # None
  /\ \A j \in Configured : j > i /\ operations[j] = operations[i] => described[j] = None

\* The type of a value; a masked time is a text, and its schema is that of an integer.
TypeOf(v) ==
  CASE v.type = "number" -> IF v.num \in Fractions THEN "number" ELSE "integer"
    [] v = Text(MaskedEpoch) -> "epoch"
    [] OTHER -> v.type

\* The types that a schema inferred of a value of this one passes.
Passed(type) ==
  CASE type = "number" -> {"number", "integer"}
    [] type = "epoch" -> {"integer"}
    [] type = "string" -> {"string", "epoch"}
    [] OTHER -> {type}

\* The positions of a value with their types, those in arrays aside.
Skeleton(v) == {[path |-> p.path, type |-> TypeOf(p.value)] :
                  p \in {q \in Positions(v) : KeysOnly(q.path)}}

AnyItem(path) == [n \in DOMAIN path |-> IF IsIndex(path[n]) THEN AnyIndex ELSE path[n]]

\* A body is plain when what its arrays hold is alike, at any depth, and it holds no
\* text that its own schema refuses: a masked time, or a mask whose format is asserted.
Plain(v) ==
  /\ \A p, q \in Positions(v) : AnyItem(p.path) = AnyItem(q.path) =>
       /\ TypeOf(p.value) = TypeOf(q.value)
       /\ p.value.type = "object" => DOMAIN p.value.fields = DOMAIN q.value.fields
  /\ \A p \in Positions(v) : p.value.type = "string" =>
       /\ p.value.str # MaskedEpoch
       /\ p.value.str \in DOMAIN Formats => Formats[p.value.str] \notin asserted

\* README.md:55, "Bidirectional OpenAPI 3.1 Sync": what has not changed since the
\* specification was generated of it, noise aside, does not drift from it, whether
\* it is read from the snapshots or answered by the API.  Left out: endpoints whose
\* operation a later one describes, and bodies that are not plain.
GeneratedVerifies ==
  verdict # None => \A i \in DOMAIN verdict.answers :
    (Described(i) /\ verdict.answers[i] = described[i] /\ Plain(described[i].body))
      => i \notin verdict.drift

\* What verify passes against a generated specification has kept, outside arrays,
\* every field of the snapshot with its type, and has its status.  A time that
\* masking makes a text of passes for a text.
VerifyCatches ==
  verdict # None => \A i \in Configured \ verdict.drift :
    (i \in DOMAIN verdict.answers /\ Described(i)) =>
      /\ verdict.answers[i].status = described[i].status
      /\ \A s \in Skeleton(described[i].body) : \E t \in Skeleton(verdict.answers[i].body) :
           s.path = t.path /\ t.type \in Passed(s.type)
=============================================================================
