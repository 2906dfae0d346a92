# A TLA+ model of apisnap

apisnap records the responses of an HTTP or gRPC API as masked snapshots
(`record`), compares later responses with them (`test`), and lets a person
accept what changed (`review`, `approve-diff`). Around that core it keeps a
content-addressed store of the bodies with a timeline per endpoint, and offers
proxies, a sniffer, a fuzzer, importers and OpenAPI tools.

This directory holds TLA+ modules that model the core, TLC configurations that
check them on small instances, and machine-checked proofs about the dispatcher, the
commands, the snapshot files, the timeline, the content-addressed store and its branch
pointers, the token cache, the approval ledger, the listening commands, the engine
(masking, comparing, learning, the blast radius, structural drift and fuzzing), and OpenAPI
generation and verification, the last two for bodies of every shape.
Paths below are relative to the repository's `src/` directory of Rust sources
unless they name `docs/`, `tests/` or `action.yml`.

## 1. Inventory

Every component of the program, the state it keeps, what works on that state,
what makes it hard, and what makes it correct.

| Component | State | Operations | Hard because | Correct when |
|---|---|---|---|---|
| Dispatcher, `cli/commands.rs` `dispatch_requests` | queue of endpoints, `JoinSet`, result vector | initial batch, join and respawn, return | any completion order; a task may panic; concurrency may be 0 | no endpoint is lost or asked twice, never more than `concurrency` in flight, it returns |
| `record`, `test`, `review`, `approve-diff`, `cli/commands.rs`, `ui/review.rs` | snapshot files, approval ledger, timeline, exit code | one handler each | results in completion order, aborts in the middle, commands that compare differently, interrupts | a green test means every endpoint was compared, a red one that something differs; record and review settle the next test |
| Snapshot files, `snapshot/snapshot.rs`, `crypto/encryption.rs` | `x.snap.json`, `x.snap.enc`, `x.snap.tmp` | `read_snapshot`, `write_snapshot_atomic` | crash, error or power loss between create, write, sync and rename; a directory that is never synced; two files per name; two writers | a reader finds the old snapshot or the new one, whole |
| Approval ledger, `snapshot/approvals.rs` | `.approved_diffs.json` | load, approve, consume, save | truncate-then-write without a lock | no approval is lost unnoticed |
| Timeline, `storage/timeline.rs` | `<endpoint>.jsonl` | `record_observation`, `get_timeline`, `diff_historical_commits` | read of the parent and append are separate; torn lines and characters; bodies that are gone | one linear chain, nothing acknowledged is lost |
| Merkle store, `storage/merkle.rs` | one file per node, an in-memory cache | `ingest`, `reconstruct` | crash between nodes, power loss of names and contents, shared temporary names, a cache that is never invalidated | what was acknowledged can be reconstructed |
| Token cache, `client/auth.rs` | `RwLock<Option<TokenCache>>` | `get_valid_token` | all tasks miss at once; the lock is held across a request; two clocks | one fetch at a time, no stale token, everyone is answered |
| Branch pointers, `storage/pointer.rs`, `cli/commands.rs` | `.ptr` files | save, compare two branches | written in place, refer to objects that another step writes, compared under each endpoint's options | branches compare without an error, and exactly what differs under them is reported |
| HTTP and gRPC clients, `client/http.rs`, `client/grpc.rs`, `engine/fast_parser.rs` | none between requests | execute | status and error mapping, frames | each failure has the right exit code |
| Diff engine, `engine/differ.rs` | none | `compare_json_ast` | sets matched greedily under a tolerance that is not transitive | no difference found exactly when the bodies agree within the tolerance |
| Masking, `engine/masker.rs`, `engine/jit_rule.rs` | compiled rules | mask a tree | wildcards, positions, two matchers that read a rule's text differently | masked fields never differ, others always show |
| Noise learner, `engine/learner.rs` | none | probe and compare | rules and strict mode mask before it looks; a path is written as text and parsed again | what is proposed settles the noise and hides nothing that was stable |
| Blast radius, `engine/blast_radius.rs` | none | walk dependencies | only the consumed path itself counts | every consumer of a changed path hears of it, with its severity |
| Capture proxy, `client/proxy_capture.rs` | snapshot files | one task per connection | concurrent writes without a temporary file; a client may not read its reply | the newest capture is kept; every session ends that its client lets end |
| Sniffer, `ebpf/sniffer.rs` | a counter, snapshot files | one task per connection | the counter is read before a connection is awaited and raised after the write | it stops after `max` captures, and each of those was stored |
| Shadow proxy, `wasm/shadow_server.rs`, `wasm/shadow_filter.rs` | counters | two requests per session | one fails, one is late | the session ends; a drift is found exactly when the structure differs |
| OpenAPI, `openapi/*` | the specification file | generate, verify, infer | masks, arrays, equal operations | what was generated verifies, and what lost a field does not |
| Fuzzer, `fuzz/*` | none | generate, send, classify | paths are written as text and parsed again | a mutation changes its target and nothing beside it |
| Importers, `importer/*` | configuration file | parse, append | — | — |
| Telemetry, configuration, reports, command line | none | format | — | — |

How they interact: a command calls the dispatcher with the selected endpoints;
each request task runs a client, which asks the token cache. The dispatcher's
results go to the handler's loop, which masks, diffs, and writes snapshot files;
`record` also ingests the body into the Merkle store and appends a commit to the
timeline; `test` reads the approval ledger once, after the dispatcher has
returned. `approve-diff`, the proxies and the sniffer are processes of their own
that share the snapshot directory with no lock; so a test may read the ledger in the
middle of its rewriting.

## 2. Modules

| Module | Models | State and code |
|---|---|---|
| `Dispatch` | `dispatch_requests` | `head..total` is `queue`, `inflight` the `JoinSet`, `results` the returned vector, `lost` the panicked tasks |
| `Suite` | the handlers of record, test, review and approve-diff, over an instance of `Dispatch` | `snap` the snapshot files, `observed` the newest timeline entries, `approved` the ledger file (`torn` when it is cut short) and `ledger` the copy a test has loaded, `next` the position of the handler's `for` loop, `exit` the exit code |
| `SnapshotRegister` | what a snapshot file promises: an atomic register, which a power loss takes back to what had settled | |
| `SnapshotStore` | `write_snapshot_atomic` and `read_snapshot` on a file system | `entry` the directory that processes see, `disk` the one on the disk, `content` the inodes, `fd` the open files, `key` the environment |
| `Timeline` | `record_observation`, `append_commit`, `get_timeline` | `lines` the file, `broken` whether it is no text, `parent` the commit a recorder has read |
| `ContentStore` | what the object store promises: a set that grows children first, and that only a power loss shrinks | |
| `MerkleCas` | `ingest`, `write_if_absent`, `reconstruct` on a file system | `final`, `tmp` the names, `content` the inodes, `cache` and `todo` of each process |
| `BranchPointers` | `SnapshotPointer` and `handle_test_branch_pointers`, over `MerkleCas` | `pointer` the files, `saving` the save that a process is in, `kept` what was saved last |
| `Approvals` | the ledger's `load_from_dir`, `approve`, `consume_approval`, `save` | `file` the ledger file, `copy` what a process has loaded |
| `Sessions` | what capture, sniff and shadow share: accept, one task per connection, one read | `loop` the accept loop, `stage` each session's position, `write` its snapshot write, in `SnapshotStore`'s variables |
| `CaptureProxy` | the sessions of `capture`: forward, relay, write in place | `answer` the upstream's answer, `sent` the client's reply |
| `Sniffer` | the sessions of `sniff` and its loop | `count` is `captured_count`, `total` what `run` returned |
| `ShadowProxy` | the sessions of `shadow` | `upstream` the two requests |
| `Listeners` | a process that runs one of the three, killed and restarted | |
| `Paths`, `JsonValues` | the segments of a path; `serde_json::Value`, as data, with the positions of a body | `Nesting` is how deep a body nests at most |
| `SetMatching` | `diff_array_as_set`: the greedy pairing of the items | pure operators; `fits` has the pairs without a difference |
| `Differ` | `compare_json_ast`: objects, ordered and set arrays, tolerance, Unicode keys, depth | a function of the calls of `diff_recursive`; an option record stands for `DiffOptions` |
| `RuleMatcher` | `match_tokenized_rule` and the compiled trie that it asks first | pure operators; a rule has its `path`, for the one, and its `words`, for the other |
| `Masker` | `mask_value`: rules, strict mode, heuristics | a function of the calls of `mask_recursive`; a record stands for `MaskContext` |
| `Learner` | `AdaptiveBaselineLearner`: the paths that vary between masked probes, as texts | pure operators; `Written`, `Parsed` and `Words` are the writing and the two readings of a path's text |
| `BlastRadius` | `BlastRadiusCalculator` | pure operators |
| `ShadowFilter` | `structurally_drifted` | a function of its calls |
| `Mutator` | `generate_mutations`: the walk, the path's text and its parser, replace and remove | functions of a part of the body and the place in the path |
| `Engine` | one body through record and test, blast-radius, `--learn`, a shadow session or fuzz, with the references for all of these | `stored` the snapshot, `answered` the other body, `report` what the command reports |
| `OpenApi` | `openapi generate` and `openapi verify`, against snapshots and against the API | `snapshots`, `spec` the file, `verdict` what verify reports |
| `TokenCache` | `get_valid_token` | `cache` the Option, `waiting` and `holder` the RwLock, `given` what each task got |
| `Recursion` | theorems about numbers: induction, and functions defined by recursion | |
| `DispatchProofs`, `OpenApiProofs` | theorems about the module each is named after | |
| `SuiteProofs` | theorems about `Suite` and about `TokenCache` | |
| `StorageProofs` | theorems about `MerkleCas`, about `BranchPointers` over it, and about `Timeline` | |
| `ListenersProofs` | theorems about `SnapshotStore` and about `Listeners` over it | |
| `VerdictProofs` | theorems about `RuleMatcher`, `SetMatching` and `Approvals`, and about what `Engine` finds in two bodies: comparing, blast radius, drift | |
| `EngineProofs` | theorems about what `Engine` makes of a body: masking, learning, fuzzing; over `VerdictProofs` | |

`MCDispatch`, `MCSuite`, `MCSnapshotStore`, `MCMerkleCas`, `MCListeners`, `MCOpenApi`
and `MCEngine` only give constants their values; `Timeline`, `TokenCache` and
`Approvals` are checked directly.

Composition: `Suite` instantiates `Dispatch` over its own variables, so that a
command's dispatch steps are exactly those the proofs are about. `Suite` takes
the write of a snapshot as one step. That is what `SnapshotStore` shows with
`RegisterSpec`: seen by a reader, a file moves from one whole snapshot to a newer
one and, until a power loss, does nothing else. In the same way `MerkleCas` implements
`ContentStore`, and `BranchPointers` adds the pointers to its steps. `CaptureProxy`
and `Sniffer` write through the file operations of `SnapshotStore` itself, since what
they do to each other lies between those. `Suite` takes masked bodies and the verdict
of a comparison as data; `Engine` is about what these two computations do.

Definitions with an underscore in their name, such as `Join_Peek`, are mutations
of the definition that follows them; a property is listed only with such a
mutation that it catches. They stand beside the code they mutate and no
specification uses them.

Choices that keep the models small:

* A body is a model value for the MASKED body; `Similar` says which pairs the
  diff engine takes for equal within `float_epsilon` and `array_modes`.
* Endpoints are positions of the configuration; their names matter only through
  `FileOf`, the sanitised name.
* A task's completion and its join are one step: nothing reads the `JoinSet` in
  between.
* `SnapshotStore` follows one sanitised name: different names share no file.
* The directory of the snapshots reaches the disk as a whole (`WriteBack`), at any moment
  and in no relation to the program, which never syncs it; a power loss brings back the
  one that is there. Entries of one directory are taken to be written back together and in
  order, as a journal of metadata does; what the code may rely on without one is
  nothing. The objects of `MerkleCas` lie in many directories, so there a power loss may take
  any set of names, whatever order they appeared in, and the content of any file; a renamed
  file may have its temporary name again.
* In `Suite` one `approve-diff` at a time truncates the ledger and then writes it, and may
  die in between; `Approvals` has several, file operation by file operation.
* The text of a path is a value with three operators, constants of `Learner`: `Written`
  makes it, `Parsed` is what `parse_json_path_to_segments` reads in it and `Words` are its
  parts between dots. They need not fit together; the run has keys like `a.b` and `a[0]`, for
  which they do not.
* `Agree` says between which bodies `compare_json_ast` finds no difference under the options
  of an endpoint; it need be no equivalence.
* Two definitions are coarser than the code where it makes no difference to a property:
  `Apply` replaces the whole text of a leaf where `replace_all` replaces the part that
  matched, and `SniffCheck` has the two loads of the sniffer's counter in one step, which
  only grows.
* Files are inodes with names, because `File::create` on an existing temporary
  file truncates the inode another writer may have open.
* In `Timeline`, `writeln!` on an unbuffered file is two writes, so that a cut may
  leave a part of the text, or the whole text without its newline.
* In `Differ` and `Masker` floats are integers, a list of differences is a set, a
  path is a sequence of segments instead of a text, and a regular expression is
  the set of the texts it matches. Two keys of one object with the same Unicode
  normal form are left to an unspecified choice.
* Where the code recurses over bodies, the model has a function whose arguments are
  the calls: the parts of the body (`Values`), with a path, a depth or a place in a
  path. What a call makes of the results of the calls below it is an operator of its own
  (`DiffCall`, `MaskCall`, `DriftedCall`, `ReplaceCall`, `RemoveCall`, `InferCall`,
  `ConformsCall`), one per function of the code, and no operator is RECURSIVE, so that the
  engine and OpenAPI can be proved about. A schema is data with parts, as a body is. A
  body is of finite depth (`IsBody`): serde_json refuses to parse one that nests
  deeper than 128, which `Nesting` stands for.
* In `TokenCache` granting the lock and looking at the cache are one step, since
  no `await` lies between them.

## 3. Runs

Every run is TLC on all reachable states of the instance; a violation run shows
where the code departs from a sentence of the repository.

| Run | Bounds | Question |
|---|---|---|
| `dispatch` | up to 4 endpoints, 2 slots, 2 outcomes, panics | Does every endpoint end in exactly one place, are slots kept busy, does the pool return? |
| `store` | 4 writes of lengths 1, 2, 1, 3, one at a time, key toggled between them | Is each file an atomic register under errors and crashes, and what does a power loss leave of it? |
| `timeline` | 4 commits, 2 shapes, 2 appends cut short, perhaps inside a character | Does the log stay one chain, and how much can a cut cost? |
| `timeline_crash` | 1 append cut short | violated: an acknowledged commit is readable |
| `token` | 3 tasks, lifetimes 0 and 2, margin 1, latency 1, clock to 3 | Stampede, staleness, and (liveness) whether everyone is answered |
| `suite` | 2 endpoints, 2 slots, 2 bodies, 3 commands, 1 deployment, interrupts | What may each command rely on after the ones before it? |
| `suite_approvals` | 1 slot, panics, 3 bodies of which 2 are similar and 1 is null, approvals of one endpoint at any moment, 2 commands | Is a green test sound and a red one right under all of that? |
| `cas` | 4 nodes with shared and repeated subtrees, of which 2 agree, 2 ingests, 2 branches, 2 pointer saves, 1 crash, 1 power loss | Are acknowledged hashes reconstructible, are exactly the new nodes written, and do branches compare? |
| `engine` | bodies of up to 3 levels and 3 items, keys with dots and brackets, 13 settings, 4 sets of consumed paths, 7 request bodies | Does a test find exactly the differences there are, does masking hide exactly the noise, and do the tools built on both tell the truth? |
| `listeners` | 2 or 3 clients, 2 writes at a time, 1 restart, 1 packet asked for | Which snapshot survives, is the count honest, does the sniffer stop, do sessions end? |
| `openapi` | 2 endpoints with the same or different operations, asserted formats or not | Does a generated specification accept what it was generated from, and refuse what lost a field? |
| `approvals` | 3 names, 2 crashes or failed writes | Is an approval ever lost without an error? |

Why the bounds are enough to be worth something. *dispatch*: 4 over 2 is the
smallest instance with a full batch, refills, and a queue that drains while tasks
are in flight; the theorems of section 5 remove the bound. *store*: lengths that
grow and shrink let an old tail show behind a new payload if a file were not
truncated, and four writes allow a stop, a power loss and a key change between
two successes. *timeline*: two cuts make a line that collects more than one
piece, and two commits remain to be lost behind them. *token*: two tasks may wait
while a third holds the lock; lifetime 2 with margin 1 and latency 1 is the
boundary at which the margin exactly covers the reply's delay, lifetime 0 is a
token that is never fresh. *suite*: three commands are a baseline, a change of it
and a verdict; one deployment splits them anywhere. *cas*: a leaf in both bodies
and twice in one of them, and a body inside a body; two branches with one endpoint, whose
pointers may be equal, differ in root or in status, agree though their roots differ, or be
cut short. *listeners*: three
sessions are two that overlap on one temporary file and one that raises the count past
the limit; snapshots of two lengths tell a file that was not truncated. *openapi*: two
endpoints with one operation, arrays whose items differ, arrays of arrays, a masked time
and a text in the place of one, and a masked text with a format. *engine*: three numbers of
which neighbours are within the tolerance make it intransitive; two recognised
texts of one kind, one of another and one that is not recognised tell masking
from equality; the settings put a rule under another, a wildcard beside an index, two rules on
one path, and a depth limit that cuts bodies off; two keys of one object have one normal
form; and arrays, objects and leaves stand in each other's place.

Deadlock is not checked where a cfg says so: each of these systems stops when its
bounded commands, writes, commits or ingests are used up.

### Fairness

* `DispatchSpec` has weak fairness of its next-state action: `join_next().await`
  is polled for as long as a task is in the set, and every request ends because
  `ReqwestExecutor::new` builds its client with a timeout.
* `TokenFairSpec` has weak fairness of each task's steps: tokio's lock is fair and
  wakes the front of its queue, and the token request runs under the client's
  timeout. Nothing is assumed of time, nor that a task begins.
* `ListenersFairness` has weak fairness of the accept loop and of each session's
  steps: tokio runs a task that can go on, and the clients of both proxies are built
  with a timeout of 30 s (`client/proxy_capture.rs:33`, `wasm/shadow_server.rs:26`), so
  that a request ends. Nothing is assumed of clients: none must connect, one that is
  connected need not send, and none need read its reply: `write_all` to it has no timeout
  (`client/proxy_capture.rs:164`, `wasm/shadow_server.rs:206`), so the steps of a
  session that is `Replying` have no fairness.

The other properties are safety properties and assume no fairness.

## 4. What the runs show

**Dispatch.** `Conservation` is the heart: queue, in flight, reported and lost
are disjoint and cover the endpoints. `SlotsAccounted` says what a panic costs:
its slot, for good. `NoneForgotten` is what the handlers rely on.

**Suite.** `TestSound` (exit 0) and `TestAccusesRightly` (exit 1) relate the
verdict to the answers and the files, whatever the order of completion and
whatever approvals arrive while the test runs. What counts as approved is what was when the
test started (`known`); a test that found the ledger torn is left out (`unread`), because
it takes the file for empty (see the divergences below). `RecordComplete` and
`ReviewComplete` say what success leaves behind. `Settles` joins them over
several commands: after a successful record or review of everything, and while
the API answers the same, a test finds nothing, whatever failed or interrupted
commands came in between. Two provisos are part of it because the code needs
them: the statuses are the expected ones (a review cannot accept a status) and no
body is `null` (a review takes a missing snapshot for `null`).

**Snapshot files.** `FinalsWhole` holds between any two file operations of one
writer, also after power loss: the `sync_all` before the rename is needed, and
the mutation that skips it breaks the refinement. `RegisterSpec` is the
refinement, for the plain and the encrypted file each. The register has two versions, the
one a reader gets and the one that has settled on the disk: a power loss takes the first
back to the second, which is older but whole, so an acknowledged write can be undone.
`ReadBack` therefore speaks of acknowledged writes that no power loss has undone.

**Timeline.** `LinearChain` ties the parent links to the order of the lines,
`DeltasTellChanges` ties each delta to the entry before it, `LossBounded` bounds
what a cut can cost. Two failures of the code are part of the statements: where a body
could not be reconstructed the delta is empty, and the log does not tell that from no
change; and a file that was cut inside a character of several bytes is no text any more,
so that `get_timeline` fails and every later record with it.

**Listeners.** `NewestKept`: as long as writes do not overlap, the snapshot read is the
newest that was recorded; it says what a capture that stops in the middle costs.
`CountHonest` holds although sessions share a temporary file and rename each other's
away, because only a successful rename is counted. `SnifferStops` needs a further
connection, because the loop looks at the counter before it awaits one. `SessionsEnd`
is where the timeouts are needed; it leaves out the one thing that has none, a client
that never reads its reply.

**OpenAPI.** `GeneratedVerifies` and `VerifyCatches` are the two directions of
README.md:55. The provisos are the code's limits: equal operations, arrays of unlike
items, also of arrays (the schema is that of the first item at every level), masks whose
schema refuses them. `Passed` has the types that verify lets through for
each: a time that masking makes a text of is described as an integer, and where a text
was recorded such a time passes for one.

**Branch pointers.** `BranchVerdict` says what `test --baseline --candidate` finds, in
the middle of other processes' steps and after crashes: the endpoints that were saved with
another status, or with bodies that do not agree under their options. In the run two leaves
agree although they are different nodes, as 1 and 1.0 do within a tolerance.

**Merkle store.** `AckedReconstruct` and the refinement `ContentSpec` hold across
failed writes and crashes of one process. After a power loss any object may be missing or
empty, a child without its parent too, and only `ContentSpec` still says something: that what
is added from then on comes after its children again. `WritesAreTheNewSubtrees` is the
promise of the comment at `storage/merkle.rs:70`.

**Approvals.** `NoSilentLoss`: a crash inside `fs::write` leaves a ledger that does
not parse, and never one that parses and has forgotten an approval.

**Token cache.** `NoStampede` needs the second look under the write lock,
`CachedTokenAccepted` needs the margin, `EveryTaskAnswered` needs the guard to be
dropped on every path.

**Diff engine and masking.** `NoDifferenceIffSame` sets the comparison, with its
greedy matching, its three loops over arrays and its depth limit, against a
recursive definition that asks whether there is a pairing at all. It has two
provisos because the code needs them: under a tolerance the greedy choice can
miss a pairing (below), and a position past the limit is always reported.
`DifferencesReal` is the converse for each single report. `OnlyNoiseIsHidden`
compares a record and a test of two raw bodies with what each position of them
shows under the rules (`View`). Its provisos are needed: no two rules with one path (a
path of keys is answered by the last of them, all others by the first), no two keys of one object
with one normal form (`Apart`: the comparison keeps one of them), no tolerance and no
sets, and no position below the depth limit. `JitAgrees` is about the compiled matcher, which looks at
keys only and answers at a leaf of its trie: at every position that masking comes
to it gives the rule the standard matcher gives. Both have one more proviso, `PlainRules`:
the trie is built from a rule's words, and a bracket is a part of a word, so that the rule
`$.a[0]` is found for a body key with the name `a[0]` (below). Without such a key in
the bodies a rule is plain.

The tools on top: `LearnedRulesSettle` adopts the proposals of `--learn` and asks that
the two probes mask alike and nothing stable is hidden. It asks for probes of one shape,
which tells an object from an array, since the learner looks into both and proposes
nothing for `{}` beside `[]`; it leaves out an unstable path under a rule whose
pattern does not match, because that rule comes first; and it leaves out bodies with a leaf
whose path is not read back from its text. There the adopted rule goes elsewhere: for the
key `a.b` it is a rule for `b` inside `a`, which settles nothing and may hide what was
stable. `BlastTells` relates the
findings to the two bodies, not to the differences. `DriftIsStructure` sets the shadow
proxy's comparison against the diff engine's. `MutationsPrecise` asks of each fuzz body
that it differs from the request at its target alone.

### Divergences shown by a run

1. `timeline_crash`: the next commit is appended behind a torn line and is
   acknowledged, and `get_timeline` skips that line. `README.md:42` promises an
   immutable append-only log.

### Divergences met while modelling, without a run

* Two writers of one snapshot name share `x.snap.tmp` (`snapshot/snapshot.rs:158`),
  against "atomic write guarantees" (`:32`): `FinalsWhole` fails with
  `MaxWriters = 2`. The sniffer's tasks and a proxy beside `record` are such
  writers.
* The files of a snapshot are synced and their directory is not (`snapshot/snapshot.rs:185`),
  so that a power loss may undo a write that was acknowledged; `:32` speaks of "atomic write
  guarantees", which are kept, and nothing of durability.
* A process without a key reads the encrypted file of a name when there is one
  (`:86`), and fails, although it has just written a plain one: `ReadBack` needs
  its proviso.
* `approve-diff` truncates the ledger before it writes it (`snapshot/approvals.rs:85`), and
  `load_from_dir(..).unwrap_or_default()` (`cli/commands.rs:253`) takes a torn one for empty,
  so that a difference that was approved before the test started fails it, once or, when
  `approve-diff` was killed, always; `README.md:36` promises approvals "without breaking CI
  pipelines". `TestAccusesRightly` fails without `unread`.
* `compile_rules` compiles every rule and splits its text at dots only
  (`engine/jit_rule.rs:57`), although `engine/masker.rs:114` says that the matcher is compiled
  "for linear key paths": a rule `$.a[0]` hides a key named `a[0]`. `JitAgrees` and
  `OnlyNoiseIsHidden` fail without `PlainRules`.
* Two recorders of one endpoint name the same parent (`storage/timeline.rs:62`),
  against the linear chain of `docs/ROADMAP.md:91`: `LinearChain` fails with
  `MaxRecorders = 2`.
* With a concurrency of 0 (`cli/commands.rs:958`) nothing is requested and a test
  ends with exit code 0, which `action.yml:32` describes as all snapshots matched.
* A review passes over failed requests (`cli/commands.rs:378`) and prints "All
  endpoints match!" (`ui/review.rs:25`) when none answered.
* In set mode with a tolerance of 1, the stored items 0, 1, 2 and the actual items
  1, 2, 0 make a difference: 0 takes 1, 1 takes 2, and nothing is left for 2 but 0
  (`engine/differ.rs:355`), although `tests/integration_test.rs:50` says that
  reordering alone must not. Without the first proviso `NoDifferenceIffSame` fails.
* Of two rules with the same path the compiled matcher takes the last
  (`engine/jit_rule.rs:67`) and the standard matcher the first
  (`engine/masker.rs:301`); only a path of keys alone goes to the former.
  `JitAgrees` asks for distinct paths.
* Accepting a status difference in a review does not settle it: a test compares
  with `expected_status` of the configuration, although `ui/pr_comment.rs:64`
  names the review as the way to accept.
* `docs/ROADMAP.md:66` says that the next record consumes an approval;
  `consume_approval` (`snapshot/approvals.rs:63`) has no caller outside the tests, and
  the loop of record (`cli/commands.rs:169`) does not look at the ledger.
* The temporary file of an object is named after the hash alone
  (`storage/merkle.rs:159`), so that two processes share it, against the atomic write of
  `docs/RFC-002.md:176`: with two writers `ObjectsWhole` fails.
* The capture proxy relays the header Transfer-Encoding with a body that is already
  decoded (`client/proxy_capture.rs:154`), which a client cannot read, although
  `README.md:25` calls it transparent; the shadow proxy leaves that header out
  (`wasm/shadow_server.rs:195`).
* The sniffer may capture more than `cli/args.rs:309`, the maximum before stopping:
  sessions that were accepted are stored and counted past it.
* A candidate that fails or is late leaves the client of the shadow proxy without the
  baseline's answer (`wasm/shadow_server.rs:126`), which `:189` says is returned
  transparently; and an answer that is not JSON is reported as a match (`:155`).
* A specification generated from a snapshot with a masked time refuses that snapshot:
  the mask is a text and its schema an integer (`openapi/schema_infer.rs:85`), although
  `README.md:55` promises a bidirectional sync.
* Blast radius and OpenAPI read snapshots without the encryptor, so that encrypted ones
  are not found; the fuzzer and the live verification send no authentication.
* The learner and blast radius mask to the default depth of 512, not to the configured
  one, so that they may see what record cuts off.
* `--baseline` without `--candidate` is ignored (`cli/commands.rs:204`).
* A capture names its file after the method and the path, with only the slashes replaced
  (`client/proxy_capture.rs:172`), a test after the sanitised endpoint name
  (`snapshot/snapshot.rs:221`): a captured path with a query or a dot is not found again.

## 5. Proofs

`DispatchProofs` proves, for every number of endpoints, every concurrency (0
included) and every set of outcomes, with or without panics:

* `DispatchInvariant`: the inductive invariant `DispatchIInv` always holds;
* `DispatchTypeCorrect`, and `DispatchConserves`, `DispatchBounded`,
  `DispatchKeepsSlotsBusy`, `DispatchReportsAll`: the four safety invariants of
  the `dispatch` run follow from it.

The only assumption is `DispatchAssumption`: the bound and the concurrency are
natural numbers and `MayPanic` is a Boolean.

Why the invariant is stronger than the properties: `SlotsAccounted` counts the
tasks in flight and the lost ones, so that a `Join` must be known to take one
task out and to put at most one in that was not there (`Conservation`), the set
in flight must be finite, and while the pool is idle nothing may have moved yet.
`DispatchIInv` joins these. The proof has one step per action, with the counting
facts as lemmas of their own.

`SuiteProofs` proves, for every number of endpoints, every set of bodies and of similar
pairs, every concurrency and every sequence of commands, approvals, deployments and
interrupts:

* `SuiteTestVerdict`: exit codes 0 and 1 of a test are right (`TestSound` and
  `TestAccusesRightly`, the latter for a test that could read the ledger);
  `SuiteTestSound` is its first half;
* `SuiteRecordComplete`: a successful record leaves each endpoint its own answer;
* `SuiteReviewComplete`: a successful review leaves every endpoint that answered in line
  with its answer;
* `SuiteSettles`: after a record or a review of everything that succeeded, and while the
  API answers the same, a test finds nothing, over any number of commands.

Its steps in the dispatcher are discharged by the lemmas of `DispatchProofs`, through an
instance of that module, so that the two proofs compose as the modules do. The
invariant `SuiteIInv` adds to the dispatcher's that a result is its own endpoint's
answer (`AnsweredAs`, which needs that no endpoint is selected or reported twice), what
a test has found and a record has left of the results before the loop's position
(`TestedSoFar`, `RecordedSoFar`), and that a concluded loop has all of them behind it.
Proving it for any number of endpoints is what showed that a red test may rest on fewer
endpoints than were selected: when panics have cost every slot, the rest of the queue
is not asked, which takes three endpoints at a concurrency of 1 and so lies outside the
run's instance; `TestAccusesRightly` names those endpoints.

`ReviewIInv` is the second half, for a review and for what outlasts a command. The items
that a review shows are numbered, which `Collected` does by recursion over the results:
each result gives at most one (`CollectedItems`), and all that are left to resolve are
collected (`AllCollected`); what is before the prompt's position is up to date
(`ReviewedSoFar`), and what quitting leaves is not counted as resolved (`ReviewEnded`).
For `SuiteSettles` the snapshots are compared with the API instead of with a command's
results: since the last deployment every answer recorded is the API's (`AnswersCurrent`),
and once a command has settled the suite no later command can put anything else into a
snapshot (`SnapshotsCurrent`): what an interrupted record or review leaves behind is an
answer as well.

`ListenersProofs` proves first of the snapshot files, for every number and length of
writes, whatever fails, stops or loses power, and however the key changes:

* `StoreTypeCorrect`, for any number of concurrent writers;
* with `MaxWriters = 1`, `StoreInvariant`, and from it `StoreFinalsWhole`,
  `StoreReadBack` and the refinement `StoreRefinesRegister`.

The hypothesis `MaxWriters = 1` is needed: two writers share the temporary file
(section 4). The invariant `StoreIInv` adds to the types that the write under way
is the last that began (`InOrder`), that it owns the temporary file and what that
holds at each of its steps (`OwnsTemporary`), that the temporary file's inode is
under no final name and that a new inode is under none at all (`Apart`), that what is
under a final name is synced and whole (`FinalsSynced`), and that the file of an
acknowledged write holds it or a newer one (`AckedHeld`). Each of the last three is said
of both directories, of the one on the disk for the writes that have reached it
(`Durable`), because a power loss makes that one the directory. `Sync` before `Rename` is
what makes `FinalsSynced` survive the rename and `PowerLoss`. The refinement has a case
for the rename, which is a `Put` of a newer version, for `WriteBack`, which settles, for
`PowerLoss`, which loses what had not, and one for everything else, which leaves the
register alone.

`SuiteProofs` also proves of the token cache, which the requests of a command share, for every set of tasks, every lifetime, margin and
latency: `TokenInvariant`, `TokenTypeCorrect`, `TokenNoStampede`, and, when the
latency is at most the margin, `TokenCachedAccepted`. Behind the first two stands
`OthersExpired`: a token that is good for longer than the margin is the cached one,
and while a request is under way there was none when it was sent, which is what the
second look under the write lock establishes. Behind the last stands
`LateByLatency`: the client's idea of an expiry is late by the latency at most.
The hypothesis is met by the default settings: the margin is 30 s (`auth.rs:182`) and
the token request goes through the shared client, whose timeout is 30 s unless one is
configured (`http.rs:90`). With a longer configured timeout the theorem says nothing.

`StorageProofs` proves of the timeline, for every number of processes, commits, shapes and appends cut
short, with one process recording at a time:

* `LinearChainTheorem`, `DeltasTellChangesTheorem`: what can be read is one chain, and
  each delta is against the entry before it, also where a cut has swallowed commits, and
  empty where the bodies could not be compared;
* `ShowsRecentTheorem`: without a cut the timeline shows the latest acknowledged
  commits, for every limit (0 shows one, as in the code);
* `LossBoundedTheorem`: as long as the file is text, no more commits are lost than appends
  were cut short.

The hypothesis is needed: two recorders name the same parent (section 4). The invariant
follows the last line, because nothing else of the file changes: what is read is the
commit on it, if it is one, before what the lines above it hold (`Above`), which
`ReadInSteps` derives from the recursion of `ReadIn`. `ChainHolds` is the chain above the
last line with its continuation, `NothingLost` what an uncut file holds, and `Losses`
counts, beside the commits that are lost, the line on which the next one will be
(`Spoiled`): without that term the bound is not inductive, since the cut comes before the
commit that it costs.

It proves of the object store, for every structure of nodes and every
number of ingests, crashes and power losses:

* `CasImplementsContent`, for any number of writers: it implements `ContentStore`, in
  which a node appears after its children, once, and stays until a power loss, which may
  take any node (`Lose`). Two writers that share a
  temporary file may leave a short object, and so `Present` has the names, not the
  contents;
* with one process, `ObjectsWholeTheorem`, `AckedReconstructTheorem` and
  `WritesAreTheNewSubtreesTheorem`: files are whole, acknowledged hashes reconstruct, and
  exactly the new nodes are written;
* `PointersImplementCas`: every behaviour of `BranchPointers` is one of `MerkleCas`, so
  that all of these hold under the pointers; and `BranchVerdictTheorem`: two saved
  branches compare without an error and exactly what differs is found, whatever `Agree` is.

One process is the hypothesis because `record` runs its ingests one after the other in a
handler of its own (`cli/commands.rs:135`), and with two the property fails (section 4).
The refinement needs that what a process has left to visit is in post-order after what is
there (`ChildrenFirst`), which is a fact about the recursion `PostOrder`, by induction over
the nodes; a cached hash is of a present node and a renamed one was missing. For whole
objects the writer owns its temporary file (`OwnFile`), and for the writes the nodes that
were missing at the beginning are those written, those left, or those present since
(`WroteWhatAppeared`).

`VerdictProofs` proves of the matching of set arrays, for all arrays and whatever fits
what: an item that is taken fits and is taken once (`MatchedOnce`), and no difference is
found only where the items can be paired (`NoSetDifferencePairs`). The converse,
`PairsNoSetDifference`, holds where items that fit each other are interchangeable; were
one item left without a partner, those that fit it would all be taken by items that fit
its own partner, one more than there are. At a tolerance of 0 items that fit are equal
where it counts; above 0 the hypothesis fails and so does the conclusion (section 4).
`RuleMatchersAgree` is about all rules and positions: along a path of keys the
trie can only stop early at a rule that covers the position from above, where masking
does not come. Its hypothesis `PlainlyWritten` is about the words of a rule's text: as far as
they are keys of the body, they are the rule's path.

It also proves `LedgerNoSilentLoss` of the approval ledger, for every set of names and of editors,
with one editor at work at a time: the copy of the editor at work covers what will be
owed once it is stored (`CopyCovers`).

The engine, in `VerdictProofs` and `EngineProofs`, for every set of bodies, settings,
consumers and request bodies that satisfies `EngineAssumption`, and every depth at which
bodies may nest. All eight invariants of the `engine` run are theorems:

* `EngineJitAgrees`: the compiled matcher gives the standard one's rule wherever masking
  comes to, if no key reads like a bracket of a rule;
* `EngineNoDifferenceIffSame`, `EngineDifferencesReal`: a test finds exactly what differs;
* `EngineOnlyNoiseIsHidden`: masking hides the noise and nothing else;
* `EngineLearnedRulesSettle`: what is learned, written and read again settles the noise and
  hides nothing stable, for bodies whose paths are read back from their texts;
* `EngineBlastTells`, `EngineDriftIsStructure`: the consumers of what differs hear of it,
  and the shadow proxy finds the structural part of what the diff engine finds;
* `EngineMutationsPrecise`: a mutation changes its target and nothing beside it.

Hypotheses of single theorems. `NfcOfTexts`: the normal form of a text is a text. `Nesting <=
DefaultDepth`, where the code compares or masks to the default depth of 512: a body that was
parsed nests no deeper than 128 (serde_json's limit, which the code leaves on), and without
the hypothesis a position past 512 would be cut off or reported for its depth alone.
`WordsOfTexts`, for the learned rules: the words of the text of a path are a sequence of
strings. All hold of the run's instance.

The invariant `EngineIInv` says no more than what the state is: the stored body is the
mask of the recorded one, and the report is what the command computes of the two bodies.
The work is in what those computations are, in four layers:

1. *Positions.* `Levels` is a function by recursion on the depth (`LevelSteps`). Each part
   of a body is at a position no deeper than `Nesting`, what it holds is a part too
   (`ValueOf`).
2. *The functions are what their recursions say.* A function that is defined by a
   recursion over calls is in TLA+ only chosen; that there is one, and that it satisfies
   its equation at every call, needs a measure. For each of them (comparison, masking,
   drift, agreement, replacement, removal) a call depends only on those one step further
   (`DiffDepends`, `MaskDepends`, `SameDepends` ...), and past the depth limit, the end of the path or
   the depth of the body it depends on none, so that a function is built backwards from there by
   induction (`DiffIs`, `MaskIs`, `SameIs` ...).
3. *Induction over bodies* is induction on how deep a part still nests, with a set of the
   depths for which the claim holds of all parts (`SetInduction`). So the comparison is
   shown to agree with its reference `Same` at every pair of parts and path, for the
   greedy matching by `PairsNoSetDifference`, and each single difference to be where it is said to be.
4. *Masking against its reference.* What masking holds at a path is what `Parts` says of
   the position above it, and where keys stay apart two bodies with one view are, part for
   part, equal to the comparison. For the learned rules a mask under more rules is compared,
   part for part, with the mask under the old ones: they differ on an adopted path alone.

Three statements turned out too strong when they were to be proved, and were corrected after
TLC had found the counterexample on a larger instance, which the runs have since:
`OnlyNoiseIsHidden` without `DistinctRules` and `Apart`; `LearnedRulesSettle` with shapes
that do not tell `{}` from `[]`; and `GeneratedVerifies` and `VerifyCatches` for
arrays of arrays and for masked times that are recorded as texts.

`OpenApiProofs` proves of generation and verification, for every configuration, answer,
mask, format and supplied file that satisfies `OpenApiAssumption` (answers are bodies, no
status is "default", a supplied schema nests no deeper than a body):

* `OpenApiGeneratedVerifies`: a plain body that has not changed since the specification was
  generated from it does not drift from it;
* `OpenApiVerifyCatches`: what verify passes against a generated specification has the
  snapshot's status and, outside arrays, each of its fields with its type.

The invariant `OpenApiIInv` says that the file is what `Specification` makes of the
snapshots it was generated from, and that a verdict is what `Matches` says of the answers in
hand; `DescribedIs` and `MatchesIs` reduce both theorems to one body and the schema that is
inferred of it. `InferredIs` and `ConformingIs` are the recursions, in the way of the engine's.
The first theorem then rests on `PlainConforms`: at two positions that differ in indices
only, what is at the one conforms to what was inferred at the other, which is the claim that
goes through the induction, since the items of an array are all held against the schema of the first.
The second rests on `ConformsPlaces`, which follows a path of keys down both, and on
`ConformsType`.

Of the listening commands `ListenersProofs` proves `ListenersCountHonest` for every number of clients, of writers
at a time and of packets asked for, and `ListenersTypeCorrect` for the three commands.
The invariant `CountCovered` counts, beside the sessions that were counted, those that
are about to be: each of them has a stored write, which no other session has, because
a session reaches the counter in the step of its own rename.

`ListenersNewestKept` is proved for any number of clients and of writes: `NewestKept` itself
asks that no two sessions have written at once (`overlapped`), and assumes nothing else.
For the sniffer the invariant is that of the snapshot files, whose lemmas are stated for a
write that begins while none is under way; the capture proxy, which writes in place,
has one of its own (`CaptureIInv`): the file belongs to the session that writes, and holds
the newest capture or one that a later capture has destroyed (`CapturedHeld`).

The types of `Dispatch`, `SnapshotStore`, `Timeline`, `MerkleCas`, `TokenCache` and
`Approvals` are parts of the inductive invariants and are not checked again by a run.

Induction. The library's induction rules take a predicate as a parameter, which none of
the provers here can be given. `Recursion` states induction about a set
(`SetInduction`: a set that holds 0 and the successor of each of its numbers holds them
all) and recursion about a function that gives each next value (`RecursiveFunction`,
`RecursiveUpTo`); both come from the well-foundedness of the numbers. A proof defines the
set or the function that it needs, which is why `ReadIn`, `Visit`, `Collected` and `Taken`
are functions on an interval.

Only model-checked: liveness (`EventuallyReturns`, `EveryTaskAnswered`, `SnifferStops`,
`SessionsEnd`), which needs ENABLED and fairness and is out of the prover's reach. Every
other property of a passing run is stated by a theorem.

## 6. Not modelled

* The clients, `client/http.rs` and `client/grpc.rs`, with `engine/fast_parser.rs`: what
  is in them is the form of URLs, headers, frames and statuses, and they keep nothing
  between requests; a request is an outcome in `Dispatch` and `Suite`.
* The importers: parsers of curl commands, HAR files and Postman collections.
* Telemetry, reports and PR comments: identifiers and layout.
* Configuration and the command line: deserialisation, whose values (a concurrency of
  0, equal names, a limit of 0) are the constants of the modules.
* `diff_historical_commits` and the timeline command's output; the words by which the
  fuzzer knows an anomaly; the forms of the OAuth2 reply.
* The canonical bytes of a Merkle node: numbers above `i64::MAX` become floats
  (`storage/merkle.rs:206`). Cryptography and hashing are abstract: a payload decrypts
  or not, and a node is its hash.
* The end of standard input during a review (`ui/review.rs:67`) makes the prompt repeat
  for ever without a change of state. Equal sanitised names (`snapshot/snapshot.rs:221`)
  appear as the precondition `DistinctFiles`.
* The BPF program, the editor extension and the CI workflows.

## 7. Plan

Done: the dispatcher, the commands, the files (snapshots, ledger, timeline, objects,
pointers), the token cache, the diff engine, masking and the tools on top of them, the
three listening commands, and OpenAPI; the theorems of section 5.

Open: the mapping of gRPC statuses to exit codes, and the properties that no theorem can
state here (liveness).
