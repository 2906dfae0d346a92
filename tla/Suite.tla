------------------------------- MODULE Suite -------------------------------
(***************************************************************************)
(* The commands record, test and review (src/src/cli/commands.rs), run one *)
(* after the other against an API that is deployed anew in between, and    *)
(* approve-diff, which another person may run at any time.                 *)
(*                                                                         *)
(* Each command takes the selected endpoints through Dispatch, instantiated*)
(* here over this module's variables, and then walks the results in the    *)
(* order in which the requests completed.  A body stands for the MASKED    *)
(* body: every command masks a response by the same configuration before   *)
(* it looks at it.  Writing a snapshot is one atomic step, as SnapshotStore*)
(* shows for one process; a Git checkout, a key change and a second        *)
(* process are left to that module.                                        *)
(***************************************************************************)
EXTENDS Integers, Sequences, FiniteSets

CONSTANTS NumEndpoints, \* config.endpoints.len(); an endpoint is its position
          FileOf,       \* FileOf[e]: sanitize_filename of its name
          Bodies,       \* masked response bodies
          NullBody,     \* the JSON body null, in Bodies or not
          NoBody,       \* no snapshot file, or one that cannot be read
          Similar,      \* pairs of bodies within float_epsilon / array_modes
          ErrorCodes,   \* exit codes of failed requests: 2 network, 3 others
          Concurrency, MayPanic,
          CasWorks,     \* FALSE: the CAS or timeline write may fail
          Approvable,   \* the endpoints approve-diff is used for
          MaxRuns,      \* bound on the number of commands
          MaxDeploys    \* bound on the number of deployments

ASSUME SuiteAssumption ==
  /\ NumEndpoints \in Nat \ {0} /\ Concurrency \in Nat
  /\ MaxRuns \in Nat /\ MaxDeploys \in Nat
  /\ MayPanic \in BOOLEAN
  /\ NoBody \notin Bodies
  /\ ErrorCodes \subseteq {2, 3}
  /\ Approvable \subseteq 1..NumEndpoints

Endpoints == 1..NumEndpoints

VARIABLES server,     \* what the API answers now, per endpoint
          snap,       \* the snapshot files
          observed,   \* the body of each endpoint's newest timeline commit
          approved,   \* the endpoints that approve-diff has approved
          approving,  \* the endpoint approve-diff is rewriting the ledger for, or 0
          torn,       \* .approved_diffs.json is cut short; otherwise it names approved
          kind,       \* the command: "record", "test" or "review"
          sel,        \* filtered_endpoints
          next,       \* position of the loop over results (then over items)
          ledger,     \* the approval ledger as `test` loaded it
          unread,     \* history: `test` could not read the ledger
          known,      \* history: what was approved when the command started
          items,      \* review_items
          open,       \* mismatches of a test; rejected + skipped of a review
          exit,       \* exit code, or Running, or Killed
          runs, deploys,                   \* the bounded counters
          answer,     \* history: what each endpoint answered in this command
          settled,    \* history: see Finish
          total, head, inflight, results, lost, phase  \* Dispatch's

world == <<server, deploys>>
files == <<snap, observed>>
approvals == <<approved, approving, torn>>
command == <<kind, sel, runs, known>>
loaded == <<ledger, unread>>
dispatch == <<total, head, inflight, results, lost, phase>>
loop == <<next, items, open>>
history == <<answer, settled>>
suiteVars == <<world, files, approvals, command, loaded, loop, exit, history, dispatch>>

Running == -1
Killed == -2

\* An answer with code 0 carries a body and whether its status is the expected
\* one; the others are errors, with the exit code of their ApiSnapError.
Served == [code : {0}, expected : BOOLEAN, body : Bodies]
Failure(c) == [code |-> c, expected |-> FALSE, body |-> NoBody]
Answers == Served \cup {Failure(c) : c \in ErrorCodes}
NotAnswered == Failure(Running)

INSTANCE Dispatch WITH MaxTotal <- NumEndpoints, Outcomes <- Answers

\* filter_endpoints: all of them, the one with the name, or none.
Everything == [e \in Endpoints |-> e]
Selections == {Everything, <<>>} \cup {<<e>> : e \in Endpoints}

\* compare_json_ast finds no difference.
Match(stored, actual) == stored = actual \/ {stored, actual} \in Similar

-----------------------------------------------------------------------------
SuiteInit ==
  /\ server \in [Endpoints -> {a \in Served : a.expected}]
  /\ snap = [f \in {FileOf[e] : e \in Endpoints} |-> NoBody]
  /\ observed = [e \in Endpoints |-> NoBody]
  /\ approved = {} /\ approving = 0 /\ torn = FALSE /\ known = {}
  /\ kind = "test" /\ sel = <<>> /\ next = 1 /\ items = <<>>
  /\ ledger = {} /\ unread = FALSE
  /\ open = 0 /\ exit = Killed /\ runs = 0 /\ deploys = 0
  /\ answer = [e \in Endpoints |-> NotAnswered]
  /\ settled = "no"
  /\ total = 0 /\ head = 1 /\ inflight = {} /\ results = <<>> /\ lost = {}
  /\ phase = "returned"

\* A command starts.  With no matching endpoint it ends at once, successfully.
Start(k, s) ==
  /\ exit # Running /\ runs < MaxRuns
  /\ runs' = runs + 1 /\ known' = approved
  /\ kind' = k /\ sel' = s /\ items' = <<>> /\ open' = 0 /\ next' = 1
  /\ exit' = IF s = <<>> THEN 0 ELSE Running
  /\ total' = Len(s) /\ head' = 1 /\ inflight' = {} /\ results' = <<>>
  /\ lost' = {} /\ phase' = IF s = <<>> THEN "returned" ELSE "idle"
  /\ answer' = [e \in Endpoints |-> NotAnswered]
  /\ UNCHANGED <<world, files, approvals, loaded, settled>>

Elsewhere == UNCHANGED <<world, files, approvals, command, loop, exit, settled>>

DispatchStart ==
  exit = Running /\ InitialBatch /\ Elsewhere /\ UNCHANGED <<loaded, answer>>

\* A request completes with what the endpoint answers now, or with an error.
DispatchJoin(j, o) ==
  /\ exit = Running
  /\ o.code = 0 => o = server[sel[j]]
  /\ Join(j, o)
  /\ answer' = [answer EXCEPT ![sel[j]] = o]
  /\ Elsewhere /\ UNCHANGED loaded

DispatchPanic(j) ==
  exit = Running /\ JoinPanicked(j) /\ Elsewhere /\ UNCHANGED <<loaded, answer>>

\* The results are returned; a test loads the approval ledger right after, and
\* takes a file that cannot be parsed for an empty ledger.
DispatchReturn ==
  /\ exit = Running /\ Return
  /\ ledger' = IF torn THEN {} ELSE approved
  /\ unread' = torn
  /\ Elsewhere /\ UNCHANGED answer

-----------------------------------------------------------------------------
\* The loops over the results.
InLoop(k) == exit = Running /\ kind = k /\ phase = "returned"
AtResult == next <= Len(results)
Here == results[next].outcome
HereEndpoint == sel[results[next].job]
Advance == next' = next + 1 /\ UNCHANGED exit

\* The command ends.  The history variable settled names the record or review of
\* all endpoints that ended well last, if the API still answers what it saw.
Finish(code) ==
  /\ exit' = code
  /\ settled' = IF /\ code = 0 /\ kind \in {"record", "review"}
                   /\ sel = Everything /\ answer = server
                THEN kind ELSE settled
  /\ UNCHANGED next

\* Mutant: a snapshot that exists is kept.
WriteSnapshot_IfAbsent(e, body) ==
  snap' = [snap EXCEPT ![FileOf[e]] = IF @ = NoBody THEN body ELSE @]

WriteSnapshot(e, body) == snap' = [snap EXCEPT ![FileOf[e]] = body]

\* Mutant: the n-th result is taken for the n-th endpoint's.
RecordResult_ByPosition ==
  /\ InLoop("record") /\ AtResult /\ Here.code = 0
  /\ \/ observed' = [observed EXCEPT ![HereEndpoint] = Here.body]
     \/ ~CasWorks /\ UNCHANGED observed
  /\ \/ WriteSnapshot(sel[next], Here.body) /\ Advance /\ UNCHANGED settled
     \/ Finish(3) /\ UNCHANGED snap
  /\ UNCHANGED <<world, approvals, command, loaded, items, open, answer, dispatch>>

\* Record: the observation goes to the CAS and the timeline first, its errors
\* ignored; then the snapshot is written, and an error of that ends the command.
RecordResult ==
  /\ InLoop("record") /\ AtResult /\ Here.code = 0
  /\ \/ observed' = [observed EXCEPT ![HereEndpoint] = Here.body]
     \/ ~CasWorks /\ UNCHANGED observed
  /\ \/ WriteSnapshot(HereEndpoint, Here.body) /\ Advance /\ UNCHANGED settled
     \/ Finish(3) /\ UNCHANGED snap
  /\ UNCHANGED <<world, approvals, command, loaded, items, open, answer, dispatch>>

\* Mutant: failed requests are passed over, as review does.
AbortOnError_Continue ==
  /\ exit = Running /\ phase = "returned" /\ kind \in {"record", "test"}
  /\ AtResult /\ Here.code # 0
  /\ Advance
  /\ UNCHANGED <<world, files, approvals, command, loaded, items, open, history,
                 dispatch>>

\* `raw_res_result?`: in record and test the first failed request in completion
\* order ends the command; the results after it are not looked at.
AbortOnError ==
  /\ exit = Running /\ phase = "returned" /\ kind \in {"record", "test"}
  /\ AtResult /\ Here.code # 0
  /\ Finish(Here.code)
  /\ UNCHANGED <<world, files, approvals, command, loaded, items, open, answer,
                 dispatch>>

\* Mutant: bodies are compared by equality, as review does.
TestResult_Exact ==
  LET stored == snap[FileOf[HereEndpoint]]
      passed == (stored = Here.body \/ HereEndpoint \in ledger) /\ Here.expected
  IN  /\ InLoop("test") /\ AtResult /\ Here.code = 0
      /\ \/ stored = NoBody /\ Finish(3) /\ UNCHANGED open
         \/ /\ stored # NoBody /\ Advance /\ UNCHANGED settled
            /\ open' = IF passed THEN open ELSE open + 1
      /\ UNCHANGED <<world, files, approvals, command, loaded, items, answer, dispatch>>

\* Test: a missing or unreadable snapshot ends the command; an approval covers
\* any difference of the body, and none of the status.
TestResult ==
  LET stored == snap[FileOf[HereEndpoint]]
      passed == /\ Match(stored, Here.body) \/ HereEndpoint \in ledger
                /\ Here.expected
  IN  /\ InLoop("test") /\ AtResult /\ Here.code = 0
      /\ \/ stored = NoBody /\ Finish(3) /\ UNCHANGED open
         \/ /\ stored # NoBody /\ Advance /\ UNCHANGED settled
            /\ open' = IF passed THEN open ELSE open + 1
      /\ UNCHANGED <<world, files, approvals, command, loaded, items, answer, dispatch>>

\* The loop of record or test is over.
Conclude ==
  /\ exit = Running /\ phase = "returned" /\ kind \in {"record", "test"}
  /\ ~AtResult
  /\ Finish(IF open > 0 THEN 1 ELSE 0)
  /\ UNCHANGED <<world, files, approvals, command, loaded, items, open, answer,
                 dispatch>>

-----------------------------------------------------------------------------
\* The review item of result i, if it makes one: a failed request is printed and
\* passed over, a missing snapshot counts as the body null, and the bodies are
\* compared by equality.
StoredForReview(e) == IF snap[FileOf[e]] = NoBody THEN NullBody ELSE snap[FileOf[e]]
ItemsOf(r) ==
  LET e == sel[r.job]
      passed == StoredForReview(e) = r.outcome.body /\ r.outcome.expected
  IN  IF r.outcome.code # 0 \/ passed THEN <<>>
      ELSE <<[endpoint |-> e, body |-> r.outcome.body]>>

\* review_items after the first n results.
Collected[n \in 0..NumEndpoints] ==
  IF n = 0 THEN <<>> ELSE Collected[n - 1] \o ItemsOf(results[n])

\* Review collects its items; without any it prints "All endpoints match!".
CollectItems ==
  /\ InLoop("review") /\ items = <<>> /\ next = 1
  /\ items' = Collected[Len(results)]
  /\ \/ items' = <<>> /\ Finish(0)
     \/ items' # <<>> /\ UNCHANGED <<exit, next, settled>>
  /\ UNCHANGED <<world, files, approvals, command, loaded, open, answer, dispatch>>

Deciding == InLoop("review") /\ next <= Len(items)

\* "a": the snapshot is written; an error of that ends the review.
Accept ==
  /\ Deciding
  /\ \/ WriteSnapshot(items[next].endpoint, items[next].body) /\ Advance
        /\ UNCHANGED settled
     \/ Finish(3) /\ UNCHANGED snap
  /\ UNCHANGED <<world, observed, approvals, command, loaded, items, open, answer,
                 dispatch>>

\* Mutant: a skipped item does not keep the review from succeeding.
RejectOrSkip_Resolves ==
  /\ Deciding
  /\ Advance
  /\ UNCHANGED <<world, files, approvals, command, loaded, items, open, history,
                 dispatch>>

\* "r" or "s": the snapshot stays as it is.
RejectOrSkip ==
  /\ Deciding
  /\ open' = open + 1
  /\ Advance
  /\ UNCHANGED <<world, files, approvals, command, loaded, items, history, dispatch>>

\* "q": what was accepted stays accepted, the review fails.
Quit ==
  /\ Deciding
  /\ Finish(1)
  /\ UNCHANGED <<world, files, approvals, command, loaded, items, open, answer,
                 dispatch>>

ReviewDone ==
  /\ InLoop("review") /\ items # <<>> /\ next = Len(items) + 1
  /\ Finish(IF open > 0 THEN 1 ELSE 0)
  /\ UNCHANGED <<world, files, approvals, command, loaded, items, open, answer,
                 dispatch>>

-----------------------------------------------------------------------------
\* approve-diff, in a process of its own, one at a time (Approvals has several).
\* It loads the ledger, and gives up when it cannot parse the file; then it cuts the
\* file, writes it again whole, and says that the difference is approved.
ByApproveDiff ==
  UNCHANGED <<world, files, command, loaded, loop, exit, history, dispatch>>

Approve(e) ==
  /\ e \in Approvable /\ ~torn
  /\ approving' = e /\ torn' = TRUE
  /\ UNCHANGED approved /\ ByApproveDiff

ApproveWritten ==
  /\ approving # 0
  /\ approved' = approved \cup {approving}
  /\ approving' = 0 /\ torn' = FALSE
  /\ ByApproveDiff

\* It is killed, or its write fails: the file stays as it is.
ApproveFails ==
  /\ approving # 0
  /\ approving' = 0
  /\ UNCHANGED <<approved, torn>> /\ ByApproveDiff

\* The API (external) changes what it answers.
Deploy(e, a) ==
  /\ deploys < MaxDeploys
  /\ a # server[e]
  /\ server' = [server EXCEPT ![e] = a]
  /\ deploys' = deploys + 1
  /\ settled' = "no"
  /\ UNCHANGED <<files, approvals, command, loaded, loop, exit, answer, dispatch>>

\* The command is interrupted.
Kill ==
  /\ exit = Running
  /\ exit' = Killed
  /\ UNCHANGED <<world, files, approvals, command, loaded, loop, history, dispatch>>

DispatchStep ==
  \/ DispatchStart
  \/ \E j \in inflight, o \in Answers : DispatchJoin(j, o)
  \/ \E j \in inflight : DispatchPanic(j)
  \/ DispatchReturn

ApprovalStep ==
  (\E e \in Endpoints : Approve(e)) \/ ApproveWritten \/ ApproveFails

ReviewStep == CollectItems \/ Accept \/ RejectOrSkip \/ Quit \/ ReviewDone

SuiteNext ==
  \/ \E k \in {"record", "test", "review"}, s \in Selections : Start(k, s)
  \/ DispatchStep
  \/ RecordResult \/ AbortOnError \/ TestResult \/ Conclude
  \/ ReviewStep
  \/ ApprovalStep
  \/ \E e \in Endpoints, a \in Served : Deploy(e, a)
  \/ Kill

SuiteSpec == SuiteInit /\ [][SuiteNext]_suiteVars

-----------------------------------------------------------------------------
Chosen == {sel[i] : i \in DOMAIN sel}
Stored(e) == snap[FileOf[e]]

\* dispatch_requests reported every endpoint: see Dispatch, NoneForgotten.
Dispatched == Concurrency > 0 /\ lost = {}

\* Two endpoint names may have the same sanitised name; then they share a file.
DistinctFiles == \A d, e \in Endpoints : FileOf[d] = FileOf[e] => d = e

\* A green test means something: with exit code 0 every selected endpoint has
\* answered with the expected status and a body that matches the snapshot or
\* that the ledger covers.  (With a concurrency of 0 nothing is requested, and a
\* panicked task is not looked at: Dispatched leaves those out.)
TestSound ==
  (kind = "test" /\ exit = 0 /\ Dispatched) =>
    \A e \in Chosen : /\ answer[e].code = 0 /\ answer[e].expected
                      /\ Stored(e) # NoBody
                      /\ Match(Stored(e), answer[e].body) \/ e \in ledger

\* Some endpoint has answered and differs, and nobody had approved that.
Accused ==
  \E e \in Chosen :
    /\ answer[e].code = 0
    /\ \/ ~answer[e].expected
       \/ ~Match(Stored(e), answer[e].body) /\ e \notin known

\* A red test accuses rightly: with exit code 1 every request that was made and did
\* not panic was answered, every snapshot of these was found, and an endpoint differs
\* that was not approved when the test started, whatever the order in which the
\* requests completed and whatever approve-diff did meanwhile.  The second half is not
\* for a test that found the ledger torn, which accuses approved endpoints as well.
\* (Panics that cost every slot leave the rest of the queue unasked.)
TestAccusesRightly ==
  (kind = "test" /\ exit = 1) =>
    /\ \A e \in Chosen : e \in {sel[j] : j \in lost \cup Queue} \/
         (answer[e].code = 0 /\ Stored(e) # NoBody)
    /\ unread \/ Accused

\* Whatever a test concludes is right.
TestVerdict == TestSound /\ TestAccusesRightly

\* A successful record leaves, for every selected endpoint, ITS OWN last answer
\* in its file and (unless the CAS failed) at the top of its timeline.
RecordComplete ==
  (kind = "record" /\ exit = 0 /\ Dispatched /\ DistinctFiles) =>
    \A e \in Chosen : /\ Stored(e) = answer[e].body
                      /\ CasWorks => observed[e] = answer[e].body

\* A review that ends successfully has brought the snapshot of every endpoint
\* that answered in line with the answer.
ReviewComplete ==
  (kind = "review" /\ exit = 0 /\ Dispatched /\ DistinctFiles) =>
    \A e \in Chosen : answer[e].code = 0 => StoredForReview(e) = answer[e].body

\* After a successful record or review of the whole suite, and until the API is
\* deployed anew, a test finds nothing: it may fail on an unanswered request,
\* never on a difference or a missing snapshot.  Interrupted and failed commands,
\* approvals and partial records in between change nothing about that.
Settles ==
  ( /\ settled # "no" /\ DistinctFiles
    /\ \A e \in Endpoints : server[e].expected /\ server[e].body # NullBody
    /\ kind = "test" /\ exit # Running )
  => exit # 1 /\ (exit = 3 => \E e \in Chosen : answer[e].code = 3)

=============================================================================
