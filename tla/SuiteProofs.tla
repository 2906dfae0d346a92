---------------------------- MODULE SuiteProofs -----------------------------
(***************************************************************************)
(* Theorems about Suite, for every number of endpoints, concurrency, set   *)
(* of bodies and number of commands and deployments: what a test concludes *)
(* is right, a record or a review that succeeds is complete, and a test    *)
(* that follows finds nothing.  The dispatcher's lemmas are used through   *)
(* an instance of DispatchProofs.  And about TokenCache, which the         *)
(* requests of a command share: for every number of tasks, every lifetime  *)
(* the endpoint may return, every margin and every latency.                *)
(***************************************************************************)
EXTENDS Suite, TokenCache, Recursion, FiniteSetTheorems, FunctionTheorems, SequenceTheorems, TLAPS

D == INSTANCE DispatchProofs WITH MaxTotal <- NumEndpoints, Outcomes <- Answers

\* The command's endpoints are different ones; the loop's counters are numbers.
SelectionShape ==
  /\ sel \in Seq(Endpoints)
  /\ \A i, k \in DOMAIN sel : sel[i] = sel[k] => i = k
  /\ total = Len(sel)
  /\ next \in Nat \ {0} /\ open \in Nat
  /\ phase # "returned" => next = 1 /\ open = 0

\* The files, and what is remembered of the answers, are per endpoint.
PerEndpoint ==
  /\ DOMAIN snap = {FileOf[e] : e \in Endpoints}
  /\ DOMAIN observed = Endpoints
  /\ DOMAIN answer = Endpoints

EndpointOf(i) == sel[results[i].job]
Outcome(i) == results[i].outcome

\* A result is its own endpoint's answer.
AnsweredAs == \A i \in DOMAIN results : answer[EndpointOf(i)] = Outcome(i)

\* What a test has found in the results before its position.
Fine(i) ==
  /\ Match(Stored(EndpointOf(i)), Outcome(i).body) \/ EndpointOf(i) \in ledger
  /\ Outcome(i).expected
Compared(i) == Outcome(i).code = 0 /\ Stored(EndpointOf(i)) # NoBody
TestedSoFar ==
  (kind = "test" /\ phase = "returned") =>
    /\ next <= Len(results) + 1
    /\ \A i \in 1..(next - 1) : Compared(i)
    /\ open = 0 => \A i \in 1..(next - 1) : Fine(i)
    /\ open # 0 => \E i \in 1..(next - 1) : ~Fine(i)

\* What a record has left of the results before its position.
Kept(i) ==
  /\ Stored(EndpointOf(i)) = Outcome(i).body
  /\ CasWorks => observed[EndpointOf(i)] = Outcome(i).body
RecordedSoFar ==
  (kind = "record" /\ phase = "returned") =>
    /\ next <= Len(results) + 1
    /\ DistinctFiles => \A i \in 1..(next - 1) : Kept(i)

\* A test or a record that concluded has gone through all results.
Concluded ==
  (kind \in {"test", "record"} /\ exit \in {0, 1}) =>
    /\ phase = "returned" /\ next = Len(results) + 1
    /\ exit = 0 <=> open = 0

SuiteIInv ==
  /\ D!DispatchIInv
  /\ SelectionShape /\ PerEndpoint /\ AnsweredAs
  /\ TestedSoFar /\ RecordedSoFar /\ Concluded

\* An endpoint that answered is among the results, and the API answers with bodies.
AnsweredReported ==
  \A e \in Endpoints : answer[e].code = 0 => \E i \in DOMAIN results : EndpointOf(i) = e
ServerType == server \in [Endpoints -> Served]

\* The items of a review are answers; there are none before the requests are done.
Item == [endpoint : Endpoints, body : Bodies]
ItemsMade ==
  /\ items \in Seq(Item)
  /\ phase # "returned" => items = <<>>
  /\ \A k \in 1..Len(items) : /\ answer[items[k].endpoint].code = 0
                             /\ items[k].body = answer[items[k].endpoint].body

\* The item a result makes, if it makes one, and the items of a sequence of them.
Made(i) == [endpoint |-> EndpointOf(i), body |-> Outcome(i).body]
Making(n) == {i \in 1..n : ItemsOf(results[i]) # <<>>}
ItemSet(s) == {s[k] : k \in 1..Len(s)}

\* While a review has accepted every item so far, each endpoint that answered is in line
\* with its snapshot or is an item that is still to come; and so it is at the end.
UpToDate(e) == StoredForReview(e) = answer[e].body
ToCome(e) == \E k \in 1..Len(items) : next <= k /\ items[k].endpoint = e
ReviewedSoFar ==
  (DistinctFiles /\ kind = "review" /\ items # <<>> /\ open = 0) =>
    \A e \in Endpoints : answer[e].code = 0 => UpToDate(e) \/ ToCome(e)
ReviewEnded ==
  (DistinctFiles /\ kind = "review" /\ exit = 0) =>
    \A e \in Endpoints : answer[e].code = 0 => UpToDate(e)

\* As long as the API is as it was when the suite was settled, an answer is what the API
\* answers now, and the snapshots hold it.
AnswersCurrent ==
  settled # "no" => \A e \in Endpoints : answer[e].code = 0 => answer[e] = server[e]
SnapshotsCurrent ==
  (/\ settled # "no" /\ DistinctFiles
   /\ \A e \in Endpoints : server[e].body # NullBody) =>
    \A e \in Endpoints : Stored(e) = server[e].body

\* What ends a test with exit code 3.
EndedWith3 ==
  (kind = "test" /\ exit = 3) =>
    \E e \in Chosen : answer[e].code = 3 \/ (answer[e].code = 0 /\ Stored(e) = NoBody)

ReviewIInv ==
  /\ AnsweredReported /\ ServerType /\ ItemsMade /\ ReviewedSoFar /\ ReviewEnded
  /\ AnswersCurrent /\ SnapshotsCurrent /\ EndedWith3

-----------------------------------------------------------------------------
\* The elements of a sequence.
LEMMA SeqElements ==
  ASSUME NEW S, NEW s \in Seq(S)
  PROVE  DOMAIN s = 1..Len(s) /\ Len(s) \in Nat /\ \A i \in DOMAIN s : s[i] \in S
OBVIOUS

LEMMA DispatcherAssumption == D!DispatchAssumption
BY SuiteAssumption DEF D!DispatchAssumption

\* A dispatcher that has not begun, or has nothing to do.
Untouched ==
  /\ total \in Nat /\ head = 1 /\ inflight = {} /\ results = <<>> /\ lost = {}
  /\ phase = "idle" \/ (phase = "returned" /\ total = 0)

LEMMA UntouchedNow == Untouched => D!DispatchIInv
BY DispatcherAssumption, D!UntouchedIInv DEF Untouched

LEMMA UntouchedNext == Untouched' => D!DispatchIInv'
BY UntouchedNow, PTL

\* A step of the dispatcher within a command is one of Dispatch's.
LEMMA DispatcherStep ==
  ASSUME D!DispatchIInv, [DispatchStep]_dispatch
  PROVE  D!DispatchIInv'
<1>1. D!DispatchNext \/ UNCHANGED D!dispatchVars
  BY DEF DispatchStep, D!DispatchNext, DispatchStart, DispatchJoin, DispatchPanic, DispatchReturn,
         InitialBatch, Join, JoinPanicked, Return, D!InitialBatch, D!Join, D!JoinPanicked,
         D!Return, dispatch, D!dispatchVars, Lesser, D!Lesser, Jobs, Queue
<1>2. [D!DispatchNext]_(D!dispatchVars)
  BY <1>1
<1>3. QED
  BY <1>2, DispatcherAssumption, D!DispatchStepIInv

\* What the proofs need of the dispatcher's invariant, in Suite's names.
LEMMA ResultsType ==
  ASSUME SuiteIInv
  PROVE  /\ results \in Seq([job : DOMAIN sel, outcome : Answers])
         /\ inflight \subseteq DOMAIN sel
         /\ \A i, k \in DOMAIN results : results[i].job = results[k].job => i = k
         /\ \A i \in DOMAIN results : results[i].job \notin inflight
         /\ \A i \in DOMAIN results : EndpointOf(i) \in Endpoints /\ Outcome(i) \in Answers
         /\ \A i, k \in DOMAIN results : EndpointOf(i) = EndpointOf(k) => i = k
<1>1. DOMAIN sel = D!Jobs
  BY DEF SuiteIInv, SelectionShape, D!Jobs
<1>2. /\ results \in Seq([job : DOMAIN sel, outcome : Answers])
      /\ inflight \subseteq DOMAIN sel
  BY <1>1 DEF SuiteIInv, D!DispatchIInv, D!DispatchTypeOK
<1>3. /\ \A i, k \in DOMAIN results : results[i].job = results[k].job => i = k
      /\ \A i \in DOMAIN results : results[i].job \notin inflight
  BY DEF SuiteIInv, D!DispatchIInv, D!Conservation, D!Reported
<1>4. \A i \in DOMAIN results : results[i] \in [job : DOMAIN sel, outcome : Answers]
  BY <1>2, SeqElements
<1>5. \A i \in DOMAIN results : EndpointOf(i) \in Endpoints /\ Outcome(i) \in Answers
  <2>1. \A i \in DOMAIN results : results[i].job \in DOMAIN sel /\ results[i].outcome \in Answers
    BY <1>4
  <2>2. \A i \in DOMAIN sel : sel[i] \in Endpoints
    BY DEF SuiteIInv, SelectionShape
  <2>3. QED
    BY <2>1, <2>2 DEF EndpointOf, Outcome
<1>6. \A i, k \in DOMAIN results : EndpointOf(i) = EndpointOf(k) => i = k
  <2>1. \A i \in DOMAIN results : results[i].job \in DOMAIN sel
    BY <1>4
  <2>2. \A i, k \in DOMAIN sel : sel[i] = sel[k] => i = k
    BY DEF SuiteIInv, SelectionShape
  <2>3. QED
    BY <1>3, <2>1, <2>2 DEF EndpointOf
<1>7. QED
  BY <1>2, <1>3, <1>5, <1>6

\* An answer with code 0 was served; the codes of the others are exit codes.
LEMMA AnswerCodes ==
  ASSUME NEW a \in Answers
  PROVE  a.code \in {0, 2, 3} /\ (a.code = 0 => a.expected \in BOOLEAN)
BY SuiteAssumption DEF Answers, Served, Failure

-----------------------------------------------------------------------------
\* A selection names different endpoints.
LEMMA SelectionDistinct ==
  ASSUME NEW s \in Selections
  PROVE  /\ s \in Seq(Endpoints) /\ Len(s) \in Nat
         /\ \A i, k \in DOMAIN s : s[i] = s[k] => i = k
         /\ s = <<>> => Len(s) = 0
<1>1. CASE s = Everything
  <2>1. s \in [1..NumEndpoints -> Endpoints] /\ NumEndpoints \in Nat
    BY <1>1, SuiteAssumption DEF Everything, Endpoints
  <2>2. s \in Seq(Endpoints)
    BY <2>1
  <2>3. QED
    BY <1>1, <2>2 DEF Everything
<1>2. CASE s = <<>>
  BY <1>2
<1>3. CASE \E e \in Endpoints : s = <<e>>
  BY <1>3
<1>4. QED
  BY <1>1, <1>2, <1>3 DEF Selections

LEMMA SuiteInitIInv == SuiteInit => SuiteIInv
<1> SUFFICES ASSUME SuiteInit PROVE SuiteIInv
  OBVIOUS
<1>1. D!DispatchIInv
  BY UntouchedNow DEF SuiteInit, Untouched
<1>2. SelectionShape /\ PerEndpoint
  BY DEF SuiteInit, SelectionShape, PerEndpoint
<1>3. AnsweredAs
  BY DEF SuiteInit, AnsweredAs
<1>4. TestedSoFar /\ RecordedSoFar /\ Concluded
  BY DEF SuiteInit, TestedSoFar, RecordedSoFar, Concluded, Killed
<1>5. QED
  BY <1>1, <1>2, <1>3, <1>4 DEF SuiteIInv

\* A command starts anew.
LEMMA StartKeeps ==
  ASSUME SuiteIInv, NEW k, NEW s \in Selections, Start(k, s)
  PROVE  SuiteIInv'
<1>1. /\ s \in Seq(Endpoints) /\ Len(s) \in Nat
      /\ \A i, j \in DOMAIN s : s[i] = s[j] => i = j
      /\ s = <<>> => Len(s) = 0
  BY SelectionDistinct
<1>2. /\ sel' = s /\ open' = 0 /\ next' = 1 /\ total' = Len(s) /\ head' = 1
      /\ inflight' = {} /\ results' = <<>> /\ lost' = {}
      /\ \/ s = <<>> /\ exit' = 0 /\ phase' = "returned"
         \/ s # <<>> /\ exit' = Running /\ phase' = "idle"
      /\ answer' = [e \in Endpoints |-> NotAnswered]
      /\ snap' = snap /\ observed' = observed
  BY DEF Start, files
<1>3. D!DispatchIInv'
  <2>1. Untouched'
    BY <1>1, <1>2 DEF Untouched
  <2>2. QED
    BY <2>1, UntouchedNext
<1>4. SelectionShape' /\ PerEndpoint'
  BY <1>1, <1>2 DEF SuiteIInv, SelectionShape, PerEndpoint
<1>5. AnsweredAs'
  BY <1>2 DEF AnsweredAs
<1>6. TestedSoFar' /\ RecordedSoFar' /\ Concluded'
  BY <1>2 DEF TestedSoFar, RecordedSoFar, Concluded, Running
<1>7. QED
  BY <1>3, <1>4, <1>5, <1>6 DEF SuiteIInv

-----------------------------------------------------------------------------
\* The dispatcher's steps before it returns leave the loop at its beginning.
LEMMA DispatchEdgeKeeps ==
  ASSUME SuiteIInv, DispatchStart \/ (\E j \in inflight : DispatchPanic(j)) \/ DispatchReturn
  PROVE  SuiteIInv'
<1>1. D!DispatchIInv'
  BY DispatcherStep DEF SuiteIInv, DispatchStep
<1>2. /\ UNCHANGED <<kind, sel, next, open, exit, snap, observed, answer, results, total>>
      /\ exit = Running /\ phase # "returned" /\ phase' \in {"joining", "returned"}
  BY DEF DispatchStart, DispatchPanic, DispatchReturn, InitialBatch, JoinPanicked, Return,
         Elsewhere, files, command, loop
<1>3. SelectionShape' /\ PerEndpoint' /\ AnsweredAs'
  BY <1>2 DEF SuiteIInv, SelectionShape, PerEndpoint, AnsweredAs, EndpointOf, Outcome
<1>4. next' = 1 /\ open' = 0 /\ Len(results') \in Nat
  BY <1>2, ResultsType, SeqElements DEF SuiteIInv, SelectionShape
<1>5. TestedSoFar' /\ RecordedSoFar'
  BY <1>4 DEF TestedSoFar, RecordedSoFar
<1>6. Concluded'
  BY <1>2 DEF Concluded, Running
<1>7. QED
  BY <1>1, <1>3, <1>5, <1>6 DEF SuiteIInv

\* A completion adds its own endpoint's answer to the results, and no other result is
\* of that endpoint.
LEMMA DispatchJoinKeeps ==
  ASSUME SuiteIInv, NEW j \in inflight, NEW o \in Answers, DispatchJoin(j, o)
  PROVE  SuiteIInv'
<1>1. D!DispatchIInv'
  BY DispatcherStep DEF SuiteIInv, DispatchStep
<1>2. /\ UNCHANGED <<kind, sel, next, open, exit, snap, observed, total>>
      /\ exit = Running /\ phase = "joining" /\ phase' = "joining"
      /\ answer' = [answer EXCEPT ![sel[j]] = o]
      /\ results' = Append(results, [job |-> j, outcome |-> o])
  BY DEF DispatchJoin, Join, Elsewhere, files, command, loop
<1>3. SelectionShape' /\ PerEndpoint'
  BY <1>2 DEF SuiteIInv, SelectionShape, PerEndpoint
<1>4. AnsweredAs'
  <2>1. /\ DOMAIN results = 1..Len(results) /\ Len(results) \in Nat
        /\ \A i \in DOMAIN results : results[i].job \in DOMAIN sel /\ results[i].job # j
        /\ j \in DOMAIN sel
    <3>1. \A i \in DOMAIN results : results[i] \in [job : DOMAIN sel, outcome : Answers]
      BY ResultsType, SeqElements
    <3>2. QED
      BY <3>1, ResultsType, SeqElements
  <2>2. /\ DOMAIN results' = 1..(Len(results) + 1)
        /\ results'[Len(results) + 1] = [job |-> j, outcome |-> o]
        /\ \A i \in DOMAIN results : results'[i] = results[i]
    BY <1>2, <2>1, ResultsType
  <2>3. /\ \A i, k \in DOMAIN sel : sel[i] = sel[k] => i = k
        /\ sel[j] \in Endpoints /\ DOMAIN answer = Endpoints
    BY <2>1 DEF SuiteIInv, SelectionShape, PerEndpoint
  <2>4. ASSUME NEW i \in DOMAIN results'
        PROVE  answer'[sel[results'[i].job]] = results'[i].outcome
    <3>1. CASE i = Len(results) + 1
      BY <1>2, <2>2, <2>3, <3>1
    <3>2. CASE i \in DOMAIN results
      <4>1. sel[results[i].job] # sel[j]
        BY <2>1, <2>3, <3>2
      <4>2. answer[sel[results[i].job]] = results[i].outcome
        BY <3>2 DEF SuiteIInv, AnsweredAs, EndpointOf, Outcome
      <4>3. sel[results[i].job] \in Endpoints
        BY <3>2, ResultsType DEF EndpointOf
      <4>4. QED
        BY <1>2, <2>2, <2>3, <3>2, <4>1, <4>2, <4>3
    <3>3. QED
      BY <2>1, <2>2, <3>1, <3>2
  <2>5. QED
    BY <1>2, <2>4 DEF AnsweredAs, EndpointOf, Outcome
<1>5. TestedSoFar' /\ RecordedSoFar' /\ Concluded'
  BY <1>2 DEF TestedSoFar, RecordedSoFar, Concluded, Running
<1>6. QED
  BY <1>1, <1>3, <1>4, <1>5 DEF SuiteIInv

-----------------------------------------------------------------------------
\* What a step of a loop leaves alone.
LEMMA LoopFrame ==
  ASSUME SuiteIInv, UNCHANGED <<dispatch, sel, answer>>,
         next' \in {next, next + 1}, open' \in {open, open + 1},
         phase = "returned" \/ (next' = next /\ open' = open),
         DOMAIN snap' = DOMAIN snap, DOMAIN observed' = DOMAIN observed
  PROVE  D!DispatchIInv' /\ SelectionShape' /\ PerEndpoint' /\ AnsweredAs'
<1>1. D!DispatchIInv'
  BY DispatcherStep DEF SuiteIInv
<1>2. UNCHANGED <<total, results, phase>>
  BY DEF dispatch
<1>3. SelectionShape' /\ PerEndpoint' /\ AnsweredAs'
  BY <1>2 DEF SuiteIInv, SelectionShape, PerEndpoint, AnsweredAs, EndpointOf, Outcome
<1>4. QED
  BY <1>1, <1>3

\* The position of a loop over the results.
LEMMA AtPosition ==
  ASSUME SuiteIInv, AtResult
  PROVE  /\ next \in DOMAIN results /\ next \in Nat \ {0} /\ Len(results) \in Nat
         /\ DOMAIN results = 1..Len(results)
         /\ HereEndpoint = EndpointOf(next) /\ Here = Outcome(next)
         /\ HereEndpoint \in Endpoints /\ Here \in Answers
<1>1. next \in Nat \ {0} /\ Len(results) \in Nat /\ DOMAIN results = 1..Len(results)
  BY ResultsType, SeqElements DEF SuiteIInv, SelectionShape
<1>2. next \in DOMAIN results
  BY <1>1 DEF AtResult
<1>3. HereEndpoint = EndpointOf(next) /\ Here = Outcome(next)
  BY DEF HereEndpoint, Here, EndpointOf, Outcome
<1>4. QED
  BY <1>1, <1>2, <1>3, ResultsType

\* A step of record writes the answer of the result at its position, in a file of its
\* own if file names are distinct.
LEMMA RecordResultKeeps ==
  ASSUME SuiteIInv, RecordResult
  PROVE  SuiteIInv'
<1>1. /\ kind = "record" /\ phase = "returned" /\ exit = Running /\ AtResult
      /\ UNCHANGED <<kind, sel, open, answer, dispatch>>
  BY DEF RecordResult, InLoop, command
<1>2. UNCHANGED <<results, phase>>
  BY <1>1 DEF dispatch
<1>3. /\ next \in DOMAIN results /\ next \in Nat \ {0} /\ Len(results) \in Nat
      /\ DOMAIN results = 1..Len(results)
      /\ HereEndpoint = EndpointOf(next) /\ Here = Outcome(next)
      /\ HereEndpoint \in Endpoints
  BY <1>1, AtPosition
<1>4. \/ /\ snap' = [snap EXCEPT ![FileOf[HereEndpoint]] = Here.body]
         /\ next' = next + 1 /\ exit' = exit
      \/ snap' = snap /\ next' = next /\ exit' = 3
  BY DEF RecordResult, WriteSnapshot, Advance, Finish
<1>5. \/ observed' = [observed EXCEPT ![HereEndpoint] = Here.body]
      \/ ~CasWorks /\ observed' = observed
  BY DEF RecordResult
<1>6. D!DispatchIInv' /\ SelectionShape' /\ PerEndpoint' /\ AnsweredAs'
  <2>1. DOMAIN snap' = DOMAIN snap /\ DOMAIN observed' = DOMAIN observed
    BY <1>4, <1>5
  <2>2. QED
    BY <1>1, <1>4, <2>1, LoopFrame
<1>7. RecordedSoFar'
  <2> SUFFICES ASSUME DistinctFiles, NEW i \in 1..(next' - 1)
               PROVE  Kept(i)'
    BY <1>1, <1>3, <1>4, <1>2 DEF RecordedSoFar, DistinctFiles
  <2>1. i \in DOMAIN results /\ EndpointOf(i) \in Endpoints /\ EndpointOf(i)' = EndpointOf(i)
        /\ Outcome(i)' = Outcome(i)
    <3>1. i \in DOMAIN results
      BY <1>3, <1>4
    <3>2. EndpointOf(i)' = EndpointOf(i) /\ Outcome(i)' = Outcome(i)
      BY <1>1, <1>2 DEF EndpointOf, Outcome
    <3>3. QED
      BY <3>1, <3>2, ResultsType
  <2>2. /\ FileOf[EndpointOf(i)] \in DOMAIN snap /\ FileOf[HereEndpoint] \in DOMAIN snap
        /\ DOMAIN observed = Endpoints
    BY <1>3, <2>1 DEF SuiteIInv, PerEndpoint
  <2>3. CASE i = next
    <3>1. snap' = [snap EXCEPT ![FileOf[HereEndpoint]] = Here.body]
      BY <1>3, <1>4, <2>3
    <3>2. QED
      BY <1>3, <1>5, <2>1, <2>2, <2>3, <3>1 DEF Kept, Stored
  <2>4. CASE i # next
    <3>1. i \in 1..(next - 1)
      BY <1>3, <1>4, <2>4
    <3>2. Kept(i)
      BY <1>1, <3>1 DEF SuiteIInv, RecordedSoFar
    <3>3. EndpointOf(i) # HereEndpoint
      BY <1>3, <2>1, <2>4, ResultsType
    <3>4. FileOf[EndpointOf(i)] # FileOf[HereEndpoint]
      BY <1>3, <2>1, <3>3 DEF DistinctFiles
    <3>5. Stored(EndpointOf(i))' = Stored(EndpointOf(i))
      BY <1>4, <2>1, <2>2, <3>4 DEF Stored
    <3>6. observed'[EndpointOf(i)] = observed[EndpointOf(i)]
      BY <1>5, <2>1, <2>2, <3>3
    <3>7. QED
      BY <2>1, <3>2, <3>5, <3>6 DEF Kept
  <2>5. QED
    BY <2>3, <2>4
<1>8. TestedSoFar' /\ Concluded'
  BY <1>1, <1>4 DEF TestedSoFar, Concluded, Running
<1>9. QED
  BY <1>6, <1>7, <1>8 DEF SuiteIInv

\* A step of test compares the result at its position with its endpoint's snapshot.
LEMMA TestResultKeeps ==
  ASSUME SuiteIInv, TestResult
  PROVE  SuiteIInv'
<1>1. /\ kind = "test" /\ phase = "returned" /\ exit = Running /\ AtResult /\ Here.code = 0
      /\ UNCHANGED <<kind, sel, answer, dispatch, snap, observed, ledger>>
  BY DEF TestResult, InLoop, command, files, loaded
<1>2. UNCHANGED <<results, phase>>
  BY <1>1 DEF dispatch
<1>3. /\ next \in DOMAIN results /\ next \in Nat \ {0} /\ Len(results) \in Nat
      /\ DOMAIN results = 1..Len(results)
      /\ HereEndpoint = EndpointOf(next) /\ Here = Outcome(next)
      /\ open \in Nat
  BY <1>1, AtPosition DEF SuiteIInv, SelectionShape
<1>4. \/ /\ Stored(HereEndpoint) = NoBody
         /\ next' = next /\ exit' = 3 /\ open' = open
      \/ /\ Stored(HereEndpoint) # NoBody
         /\ next' = next + 1 /\ exit' = exit
         /\ open' = IF Fine(next) THEN open ELSE open + 1
  BY <1>3 DEF TestResult, Advance, Finish, Fine, Stored
<1>5. D!DispatchIInv' /\ SelectionShape' /\ PerEndpoint' /\ AnsweredAs'
  BY <1>1, <1>4, LoopFrame
<1>6. ASSUME NEW i
      PROVE  Fine(i)' = Fine(i) /\ Compared(i)' = Compared(i)
  BY <1>1, <1>2 DEF Fine, Compared, EndpointOf, Outcome, Stored
<1>7. TestedSoFar'
  <2>1. /\ next <= Len(results) + 1
        /\ \A i \in 1..(next - 1) : Compared(i)
        /\ open = 0 => \A i \in 1..(next - 1) : Fine(i)
        /\ open # 0 => \E i \in 1..(next - 1) : ~Fine(i)
    BY <1>1 DEF SuiteIInv, TestedSoFar
  <2>2. CASE next' = next /\ open' = open
    BY <1>2, <1>6, <2>1, <2>2 DEF TestedSoFar
  <2>3. CASE /\ Stored(HereEndpoint) # NoBody /\ next' = next + 1
             /\ open' = IF Fine(next) THEN open ELSE open + 1
    <3>1. Compared(next)
      BY <1>1, <1>3, <2>3 DEF Compared
    <3>2. /\ next' <= Len(results') + 1
          /\ \A i \in 1..(next' - 1) : Compared(i)
      BY <1>2, <1>3, <2>1, <2>3, <3>1
    <3>3. open' = 0 => \A i \in 1..(next' - 1) : Fine(i)
      BY <1>3, <2>1, <2>3
    <3>4. open' # 0 => \E i \in 1..(next' - 1) : ~Fine(i)
      BY <1>3, <2>1, <2>3
    <3>5. QED
      BY <1>6, <3>2, <3>3, <3>4 DEF TestedSoFar
  <2>4. QED
    BY <1>4, <2>2, <2>3
<1>8. RecordedSoFar' /\ Concluded'
  BY <1>1, <1>4 DEF RecordedSoFar, Concluded, Running
<1>9. QED
  BY <1>5, <1>7, <1>8 DEF SuiteIInv

\* A failed request ends record and test with its own exit code.
LEMMA AbortKeeps ==
  ASSUME SuiteIInv, AbortOnError
  PROVE  SuiteIInv'
<1>1. /\ UNCHANGED <<kind, sel, answer, dispatch, snap, observed, ledger, next, open>>
      /\ exit' = Here.code /\ Here.code # 0 /\ AtResult
  BY DEF AbortOnError, Finish, command, files, loaded
<1>2. exit' \in {2, 3}
  BY <1>1, AtPosition, AnswerCodes
<1>3. D!DispatchIInv' /\ SelectionShape' /\ PerEndpoint' /\ AnsweredAs'
  BY <1>1, LoopFrame
<1>4. TestedSoFar' /\ RecordedSoFar'
  BY <1>1 DEF SuiteIInv, dispatch, TestedSoFar, RecordedSoFar, Compared, Fine, Kept, Stored,
              EndpointOf, Outcome
<1>5. Concluded'
  BY <1>2 DEF Concluded
<1>6. QED
  BY <1>3, <1>4, <1>5 DEF SuiteIInv

\* At the end of the results the exit code tells whether a mismatch was counted.
LEMMA ConcludeKeeps ==
  ASSUME SuiteIInv, Conclude
  PROVE  SuiteIInv'
<1>1. /\ UNCHANGED <<kind, sel, answer, dispatch, snap, observed, ledger, next, open>>
      /\ exit' = IF open > 0 THEN 1 ELSE 0
      /\ ~AtResult /\ phase = "returned" /\ kind \in {"record", "test"}
  BY DEF Conclude, Finish, command, files, loaded
<1>2. D!DispatchIInv' /\ SelectionShape' /\ PerEndpoint' /\ AnsweredAs'
  BY <1>1, LoopFrame
<1>3. TestedSoFar' /\ RecordedSoFar'
  BY <1>1 DEF SuiteIInv, dispatch, TestedSoFar, RecordedSoFar, Compared, Fine, Kept, Stored,
              EndpointOf, Outcome
<1>4. Concluded'
  <2>1. next <= Len(results) + 1
    BY <1>1 DEF SuiteIInv, TestedSoFar, RecordedSoFar
  <2>2. next \in Nat \ {0} /\ open \in Nat /\ Len(results) \in Nat
    BY ResultsType, SeqElements DEF SuiteIInv, SelectionShape
  <2>3. next = Len(results) + 1 /\ (exit' = 0 <=> open = 0)
    BY <1>1, <2>1, <2>2 DEF AtResult
  <2>4. QED
    BY <1>1, <2>3 DEF Concluded, dispatch
<1>5. QED
  BY <1>2, <1>3, <1>4 DEF SuiteIInv

\* The steps of a review: nothing is claimed of its loop.
LEMMA ReviewKeeps ==
  ASSUME SuiteIInv, ReviewStep
  PROVE  SuiteIInv'
<1>1. /\ UNCHANGED <<kind, sel, answer, dispatch, observed>>
      /\ kind = "review" /\ phase = "returned"
  BY DEF ReviewStep, CollectItems, Accept, RejectOrSkip, Quit, ReviewDone, Deciding, InLoop,
         command, files, history
<1>2. next' \in {next, next + 1} /\ open' \in {open, open + 1}
  BY DEF ReviewStep, CollectItems, Accept, RejectOrSkip, Quit, ReviewDone, Finish, Advance
<1>3. DOMAIN snap' = DOMAIN snap
  BY DEF ReviewStep, CollectItems, Accept, RejectOrSkip, Quit, ReviewDone, files, WriteSnapshot
<1>4. D!DispatchIInv' /\ SelectionShape' /\ PerEndpoint' /\ AnsweredAs'
  BY <1>1, <1>2, <1>3, LoopFrame
<1>5. TestedSoFar' /\ RecordedSoFar' /\ Concluded'
  BY <1>1 DEF TestedSoFar, RecordedSoFar, Concluded
<1>6. QED
  BY <1>4, <1>5 DEF SuiteIInv

\* Approvals, deployments and the end of the process leave the verdict's state alone.
LEMMA OutsideKeeps ==
  ASSUME SuiteIInv,
         \/ ApprovalStep
         \/ \E e \in Endpoints, a \in Served : Deploy(e, a)
         \/ Kill
         \/ UNCHANGED suiteVars
  PROVE  SuiteIInv'
<1>1. /\ UNCHANGED <<kind, sel, answer, dispatch, snap, observed, ledger, next, open>>
      /\ exit' = exit \/ exit' = Killed
  BY DEF ApprovalStep, Approve, ApproveWritten, ApproveFails, ByApproveDiff, Deploy, Kill,
         suiteVars, command, files, loop, history, loaded
<1>2. D!DispatchIInv' /\ SelectionShape' /\ PerEndpoint' /\ AnsweredAs'
  BY <1>1, LoopFrame
<1>3. TestedSoFar' /\ RecordedSoFar'
  BY <1>1 DEF SuiteIInv, dispatch, TestedSoFar, RecordedSoFar, Compared, Fine, Kept, Stored,
              EndpointOf, Outcome
<1>4. Concluded'
  BY <1>1 DEF SuiteIInv, dispatch, Concluded, Killed
<1>5. QED
  BY <1>2, <1>3, <1>4 DEF SuiteIInv

LEMMA SuiteStepIInv == SuiteIInv /\ [SuiteNext]_suiteVars => SuiteIInv'
<1> SUFFICES ASSUME SuiteIInv, [SuiteNext]_suiteVars PROVE SuiteIInv'
  OBVIOUS
<1>1. CASE \E k \in {"record", "test", "review"}, s \in Selections : Start(k, s)
  BY <1>1, StartKeeps
<1>2. CASE DispatchStep
  BY <1>2, DispatchEdgeKeeps, DispatchJoinKeeps DEF DispatchStep
<1>3. CASE RecordResult \/ AbortOnError \/ TestResult \/ Conclude
  BY <1>3, RecordResultKeeps, AbortKeeps, TestResultKeeps, ConcludeKeeps
<1>4. CASE ReviewStep
  BY <1>4, ReviewKeeps
<1>5. CASE \/ ApprovalStep
           \/ \E e \in Endpoints, a \in Served : Deploy(e, a)
           \/ Kill
           \/ UNCHANGED suiteVars
  BY <1>5, OutsideKeeps
<1>6. QED
  BY <1>1, <1>2, <1>3, <1>4, <1>5 DEF SuiteNext

-----------------------------------------------------------------------------
\* The inductive invariant holds whatever commands, approvals, deployments and
\* interrupts follow each other.
THEOREM SuiteInvariant == SuiteSpec => []SuiteIInv
<1>1. QED
  BY SuiteInitIInv, SuiteStepIInv, PTL DEF SuiteSpec

\* A selected endpoint is the endpoint of a position.
LEMMA ChosenPosition ==
  ASSUME SuiteIInv, NEW e \in Chosen
  PROVE  \E k \in D!Jobs : e = sel[k]
BY DEF SuiteIInv, SelectionShape, Chosen, D!Jobs

\* The result of a reported position.
LEMMA ReportedResult ==
  ASSUME SuiteIInv, NEW k \in D!Reported
  PROVE  \E i \in 1..Len(results) :
           /\ EndpointOf(i) = sel[k]
           /\ answer[sel[k]] = Outcome(i)
<1>1. PICK i \in DOMAIN results : results[i].job = k
  BY DEF D!Reported
<1>2. i \in 1..Len(results)
  BY ResultsType, SeqElements
<1>3. QED
  BY <1>1, <1>2 DEF SuiteIInv, AnsweredAs, EndpointOf

\* A concluded loop has all results behind it.
LEMMA AllBehind ==
  ASSUME SuiteIInv, kind \in {"test", "record"}, exit \in {0, 1}
  PROVE  phase = "returned" /\ 1..(next - 1) = 1..Len(results)
<1>1. phase = "returned" /\ next = Len(results) + 1
  BY DEF SuiteIInv, Concluded
<1>2. Len(results) \in Nat
  BY ResultsType, SeqElements
<1>3. QED
  BY <1>1, <1>2

LEMMA SoundFromInvariant ==
  ASSUME SuiteIInv
  PROVE  TestSound
<1> SUFFICES ASSUME kind = "test", exit = 0, Concurrency > 0, lost = {}, NEW e \in Chosen
             PROVE  /\ answer[e].code = 0 /\ answer[e].expected
                    /\ Stored(e) # NoBody
                    /\ Match(Stored(e), answer[e].body) \/ e \in ledger
  BY DEF TestSound, Dispatched
<1>1. phase = "returned" /\ 1..(next - 1) = 1..Len(results) /\ open = 0
  BY AllBehind DEF SuiteIInv, Concluded
<1>2. PICK k \in D!Jobs : e = sel[k]
  BY ChosenPosition
<1>3. k \in D!Reported
  BY <1>1, DispatcherAssumption, D!AllReported DEF SuiteIInv
<1>4. PICK i \in 1..Len(results) : EndpointOf(i) = e /\ answer[e] = Outcome(i)
  BY <1>2, <1>3, ReportedResult
<1>5. Fine(i) /\ Compared(i)
  BY <1>1, <1>4 DEF SuiteIInv, TestedSoFar
<1>6. QED
  BY <1>4, <1>5 DEF Fine, Compared

\* A failed test has compared every endpoint that was requested, and one differs that the
\* ledger it loaded does not cover.
LEMMA DifferenceFound ==
  ASSUME SuiteIInv, kind = "test", exit = 1
  PROVE  /\ \A e \in Chosen : e \in {sel[j] : j \in lost \cup Queue} \/
              (answer[e].code = 0 /\ Stored(e) # NoBody)
         /\ \E e \in Chosen : answer[e].code = 0 /\
              \/ ~answer[e].expected
              \/ ~Match(Stored(e), answer[e].body) /\ e \notin ledger
<1>1. phase = "returned" /\ 1..(next - 1) = 1..Len(results) /\ open # 0
  BY AllBehind DEF SuiteIInv, Concluded
<1>2. ASSUME NEW e \in Chosen, e \notin {sel[j] : j \in lost \cup Queue}
      PROVE  answer[e].code = 0 /\ Stored(e) # NoBody
  <2>1. PICK k \in D!Jobs : e = sel[k]
    BY ChosenPosition
  <2>2. k \in D!Queue \cup inflight \cup D!Reported \cup lost /\ inflight = {}
    BY <1>1 DEF SuiteIInv, D!DispatchIInv, D!Conservation, D!PhaseShape
  <2>3. k \notin lost \cup Queue
    BY <1>2, <2>1
  <2>4. k \in D!Reported
    BY <2>2, <2>3 DEF Queue, D!Queue
  <2>5. PICK i \in 1..Len(results) : EndpointOf(i) = e /\ answer[e] = Outcome(i)
    BY <2>1, <2>4, ReportedResult
  <2>6. Compared(i)
    BY <1>1, <2>5 DEF SuiteIInv, TestedSoFar
  <2>7. QED
    BY <2>5, <2>6 DEF Compared
<1>3. PICK i \in 1..Len(results) : Compared(i) /\ ~Fine(i)
  BY <1>1 DEF SuiteIInv, TestedSoFar
<1>4. EndpointOf(i) \in Chosen /\ answer[EndpointOf(i)] = Outcome(i)
  <2>1. i \in DOMAIN results
    BY ResultsType, SeqElements
  <2>2. results[i].job \in DOMAIN sel
    <3>1. results[i] \in [job : DOMAIN sel, outcome : Answers]
      BY <2>1, ResultsType, SeqElements
    <3>2. QED
      BY <3>1
  <2>3. QED
    BY <2>1, <2>2 DEF Chosen, EndpointOf, SuiteIInv, AnsweredAs
<1>5. QED
  BY <1>2, <1>3, <1>4 DEF Compared, Fine

-----------------------------------------------------------------------------
(* The approvals a test is bound by: those given before it started are still known, and *)
(* are in the ledger it has loaded, if it could read one.                               *)
GivenLoaded ==
  /\ known \subseteq approved
  /\ (phase = "returned" /\ total # 0) => unread \/ known \subseteq ledger

LEMMA StartGiven ==
  ASSUME NEW k, NEW s \in Selections, Start(k, s)
  PROVE  GivenLoaded'
<1>1. /\ known' = approved /\ approved' = approved /\ total' = Len(s)
      /\ s # <<>> => phase' = "idle"
  BY DEF Start, approvals
<1>2. s = <<>> => Len(s) = 0
  BY SelectionDistinct
<1>3. QED
  BY <1>1, <1>2 DEF GivenLoaded

LEMMA DispatchGiven ==
  ASSUME GivenLoaded, DispatchStep
  PROVE  GivenLoaded'
<1>1. known' = known /\ approved' = approved
  BY DEF DispatchStep, DispatchStart, DispatchJoin, DispatchPanic, DispatchReturn, Elsewhere,
         command, approvals
<1>2. CASE DispatchReturn
  BY <1>1, <1>2 DEF DispatchReturn, GivenLoaded
<1>3. CASE DispatchStart \/ (\E j \in inflight, o \in Answers : DispatchJoin(j, o))
             \/ (\E j \in inflight : DispatchPanic(j))
  <2>1. phase' # "returned"
    BY <1>3 DEF DispatchStart, DispatchJoin, DispatchPanic, InitialBatch, Join, JoinPanicked
  <2>2. QED
    BY <1>1, <2>1 DEF GivenLoaded
<1>4. QED
  BY <1>2, <1>3 DEF DispatchStep

\* The loops, deployments and interrupts leave all of it alone.
LEMMA QuietGiven ==
  ASSUME GivenLoaded,
         \/ RecordResult \/ AbortOnError \/ TestResult \/ Conclude
         \/ ReviewStep
         \/ \E e \in Endpoints, a \in Served : Deploy(e, a)
         \/ Kill
         \/ UNCHANGED suiteVars
  PROVE  GivenLoaded'
<1>1. UNCHANGED <<approvals, command, loaded, dispatch>>
  BY DEF RecordResult, AbortOnError, TestResult, Conclude, ReviewStep, CollectItems, Accept,
         RejectOrSkip, Quit, ReviewDone, Deploy, Kill, suiteVars
<1>2. QED
  BY <1>1 DEF GivenLoaded, approvals, command, loaded, dispatch

\* approve-diff adds to what is approved, and touches nothing of the command.
LEMMA ApprovalGiven ==
  ASSUME GivenLoaded, ApprovalStep
  PROVE  GivenLoaded'
<1>1. UNCHANGED <<command, loaded, dispatch>> /\ approved \subseteq approved'
  BY DEF ApprovalStep, Approve, ApproveWritten, ApproveFails, ByApproveDiff
<1>2. QED
  BY <1>1 DEF GivenLoaded, command, loaded, dispatch

LEMMA GivenInvariant == SuiteSpec => []GivenLoaded
<1>1. SuiteInit => GivenLoaded
  BY DEF SuiteInit, GivenLoaded
<1>2. GivenLoaded /\ [SuiteNext]_suiteVars => GivenLoaded'
  BY StartGiven, DispatchGiven, QuietGiven, ApprovalGiven DEF SuiteNext
<1>3. QED
  BY <1>1, <1>2, PTL DEF SuiteSpec

LEMMA AccusesFromInvariant ==
  ASSUME SuiteIInv, GivenLoaded
  PROVE  TestAccusesRightly
<1> SUFFICES ASSUME kind = "test", exit = 1, ~unread
             PROVE  Accused
  BY DifferenceFound DEF TestAccusesRightly
<1>1. PICK e \in Chosen : /\ answer[e].code = 0
                          /\ \/ ~answer[e].expected
                             \/ ~Match(Stored(e), answer[e].body) /\ e \notin ledger
  BY DifferenceFound
<1>2. phase = "returned"
  BY AllBehind
<1>3. total # 0
  <2>1. Chosen # {} /\ sel \in Seq(Endpoints) /\ total = Len(sel)
    BY <1>1 DEF SuiteIInv, SelectionShape
  <2>2. QED
    BY <2>1, SeqElements DEF Chosen
<1>4. known \subseteq ledger
  BY <1>2, <1>3 DEF GivenLoaded
<1>5. QED
  BY <1>1, <1>4 DEF Accused

\* commands.rs, handle_test: exit code 0 and exit code 1 of a test are right, for every
\* number of endpoints, order of completion and moment of an approval: a test that can
\* read the ledger fails only for a difference nobody had approved when it started.
THEOREM SuiteTestVerdict == SuiteSpec => []TestVerdict
<1>1. SuiteIInv /\ GivenLoaded => TestVerdict
  BY SoundFromInvariant, AccusesFromInvariant DEF TestVerdict
<1>2. QED
  BY <1>1, SuiteInvariant, GivenInvariant, PTL

\* A green test alone, which the suite of two slots checks.
THEOREM SuiteTestSound == SuiteSpec => []TestSound
<1>1. SuiteIInv => TestSound
  BY SoundFromInvariant
<1>2. QED
  BY <1>1, SuiteInvariant, PTL

\* commands.rs, handle_record: a record that ends with exit code 0 has put each
\* endpoint's own answer into its file and, where the content store works, into its
\* timeline.
THEOREM SuiteRecordComplete == SuiteSpec => []RecordComplete
<1>1. SuiteIInv => RecordComplete
  <2> SUFFICES ASSUME SuiteIInv, kind = "record", exit = 0, Concurrency > 0, lost = {},
                      DistinctFiles, NEW e \in Chosen
               PROVE  /\ Stored(e) = answer[e].body
                      /\ CasWorks => observed[e] = answer[e].body
    BY DEF RecordComplete, Dispatched
  <2>1. phase = "returned" /\ 1..(next - 1) = 1..Len(results)
    BY AllBehind
  <2>2. PICK k \in D!Jobs : e = sel[k]
    BY ChosenPosition
  <2>3. k \in D!Reported
    BY <2>1, DispatcherAssumption, D!AllReported DEF SuiteIInv
  <2>4. PICK i \in 1..Len(results) : EndpointOf(i) = e /\ answer[e] = Outcome(i)
    BY <2>2, <2>3, ReportedResult
  <2>5. Kept(i)
    BY <2>1, <2>4 DEF SuiteIInv, RecordedSoFar
  <2>6. QED
    BY <2>4, <2>5 DEF Kept
<1>2. QED
  BY <1>1, SuiteInvariant, PTL

-----------------------------------------------------------------------------
(* The items of a review. *)

\* There are at most as many results as endpoints.
LEMMA ResultsBounded ==
  ASSUME SuiteIInv
  PROVE  Len(results) \in 0..NumEndpoints
<1> DEFINE n == Len(results)
           f == [i \in 1..n |-> EndpointOf(i)]
<1>1. n \in Nat /\ DOMAIN results = 1..n /\ NumEndpoints \in Nat
  BY ResultsType, SeqElements, SuiteAssumption
<1> HIDE DEF n
<1>2. f \in Injection(1..n, Endpoints)
  <2>1. \A i \in 1..n : EndpointOf(i) \in Endpoints
    BY <1>1, ResultsType
  <2>2. \A i, k \in 1..n : EndpointOf(i) = EndpointOf(k) => i = k
    BY <1>1, ResultsType
  <2> HIDE DEF EndpointOf
  <2>3. f \in [1..n -> Endpoints] /\ \A i, k \in 1..n : f[i] = f[k] => i = k
    BY <2>1, <2>2
  <2> HIDE DEF f
  <2>4. QED
    BY <2>3, Fun_IsInj
<1>3. /\ IsFiniteSet(Endpoints) /\ Cardinality(Endpoints) = NumEndpoints
      /\ Cardinality(1..n) = n
  <2>1. /\ IsFiniteSet(1..NumEndpoints)
        /\ Cardinality(1..NumEndpoints) = IF 1 > NumEndpoints THEN 0 ELSE NumEndpoints - 1 + 1
    BY <1>1, FS_Interval
  <2>2. Cardinality(1..n) = IF 1 > n THEN 0 ELSE n - 1 + 1
    BY <1>1, FS_Interval
  <2>3. QED
    BY <1>1, <2>1, <2>2 DEF Endpoints
<1> HIDE DEF f
<1>4. Cardinality(1..n) <= Cardinality(Endpoints)
  BY <1>2, <1>3, FS_Injection
<1>5. QED
  BY <1>1, <1>3, <1>4 DEF n

LEMMA ItemsOfResult ==
  ASSUME NEW i
  PROVE  ItemsOf(results[i]) \in {<<>>, <<Made(i)>>}
BY DEF ItemsOf, Made, EndpointOf, Outcome

\* Collected is the sequence that its recursion describes.
LEMMA CollectedSteps ==
  /\ Collected[0] = <<>>
  /\ \A n \in 1..NumEndpoints : Collected[n] = Collected[n - 1] \o ItemsOf(results[n])
  /\ \A n \in 0..NumEndpoints : Collected[n] \in Seq({Made(i) : i \in Nat})
<1> DEFINE V == Seq({Made(i) : i \in Nat})
           More(k, s) == s \o ItemsOf(results[k + 1])
           step == [q \in Nat \X V |-> More(q[1], q[2])]
           first == <<>>
           upTo(f) == [n \in 0..NumEndpoints |->
                         IF n = 0 THEN <<>> ELSE f[n - 1] \o ItemsOf(results[n])]
<1>1. first \in V
  OBVIOUS
<1>2. step \in [Nat \X V -> V]
  <2>1. ASSUME NEW k \in Nat, NEW s \in V PROVE More(k, s) \in V
    <3> DEFINE t == ItemsOf(results[k + 1])
    <3>1. t \in {<<>>, <<Made(k + 1)>>}
      BY ItemsOfResult
    <3>2. k + 1 \in Nat
      OBVIOUS
    <3>3. t \in V
      <4> DEFINE S == {Made(i) : i \in Nat}
      <4>1. Made(k + 1) \in S
        BY <3>2
      <4> HIDE DEF t, Made, S
      <4>2. <<>> \in Seq(S) /\ <<Made(k + 1)>> \in Seq(S)
        BY <4>1
      <4>3. QED
        BY <3>1, <4>2 DEF S
    <3> HIDE DEF t
    <3>4. s \o t \in V
      BY <3>3
    <3>5. QED
      BY <3>4 DEF t
  <2> HIDE DEF V, More
  <2>2. QED
    BY <2>1
<1>3. PICK h \in [0..NumEndpoints -> V] :
        h[0] = first /\ \A n \in 1..NumEndpoints : h[n] = step[<<n - 1, h[n - 1]>>]
  <2>1. StepsIn(V, first, step)
    BY <1>1, <1>2 DEF StepsIn
  <2>2. NumEndpoints \in Nat
    BY SuiteAssumption
  <2> DEFINE end == NumEndpoints
  <2>3. end \in Nat
    BY <2>2
  <2> HIDE DEF V, step, first, end
  <2>4. \E h \in [0..end -> V] : DefinesUpTo(h, end, first, step)
    BY <2>1, <2>3, RecursiveUpTo
  <2>5. QED
    BY <2>4 DEF end, DefinesUpTo
<1>4. \A n \in 1..NumEndpoints : h[n] = h[n - 1] \o ItemsOf(results[n])
  <2> SUFFICES ASSUME NEW n \in 1..NumEndpoints
               PROVE  h[n] = h[n - 1] \o ItemsOf(results[n])
    OBVIOUS
  <2>1. n - 1 \in Nat /\ n - 1 \in 0..NumEndpoints /\ (n - 1) + 1 = n
    BY SuiteAssumption
  <2>2. h[n - 1] \in V
    <3> HIDE DEF V
    <3>1. QED
      BY <2>1
  <2>3. step[<<n - 1, h[n - 1]>>] = More(n - 1, h[n - 1])
    <3> HIDE DEF V, More
    <3>1. QED
      BY <2>1, <2>2
  <2> HIDE DEF step
  <2>4. h[n] = More(n - 1, h[n - 1])
    BY <1>3, <2>3
  <2>5. QED
    BY <2>1, <2>4
<1> HIDE DEF V
<1>5. h = upTo(h)
  <2> DEFINE Value(n) == IF n = 0 THEN <<>> ELSE h[n - 1] \o ItemsOf(results[n])
  <2>1. \A n \in 0..NumEndpoints : h[n] = Value(n)
    <3>1. \A n \in 0..NumEndpoints : n = 0 \/ (n # 0 /\ n \in 1..NumEndpoints)
      BY SuiteAssumption
    <3>2. \A n \in 1..NumEndpoints : n # 0
      BY SuiteAssumption
    <3>3. h[0] = Value(0)
      BY <1>3
    <3>4. \A n \in 1..NumEndpoints : h[n] = Value(n)
      BY <1>4, <3>2
    <3> HIDE DEF Value
    <3>5. QED
      BY <3>1, <3>3, <3>4
  <2> HIDE DEF Value
  <2>2. h = [n \in 0..NumEndpoints |-> Value(n)]
    BY <1>3, <2>1
  <2>3. QED
    BY <2>2 DEF Value
<1>6. Collected = CHOOSE f : f = upTo(f)
  BY DEF Collected
<1> HIDE DEF upTo
<1>7. Collected = upTo(Collected)
  BY <1>5, <1>6
<1>8. Collected[0] = <<>> /\ \A n \in 1..NumEndpoints :
        Collected[n] = Collected[n - 1] \o ItemsOf(results[n])
  <2>1. \A n \in 0..NumEndpoints :
          Collected[n] = IF n = 0 THEN <<>> ELSE Collected[n - 1] \o ItemsOf(results[n])
    <3> DEFINE Value(n) == IF n = 0 THEN <<>> ELSE Collected[n - 1] \o ItemsOf(results[n])
    <3>1. Collected = [n \in 0..NumEndpoints |-> Value(n)]
      BY <1>7 DEF upTo
    <3> HIDE DEF Value
    <3>2. \A n \in 0..NumEndpoints : Collected[n] = Value(n)
      BY <3>1
    <3>3. QED
      BY <3>2 DEF Value
  <2>2. 0 \in 0..NumEndpoints /\ \A n \in 1..NumEndpoints : n \in 0..NumEndpoints /\ n # 0
    BY SuiteAssumption
  <2> HIDE DEF ItemsOf
  <2>3. QED
    BY <2>1, <2>2
<1>9. ASSUME NEW n \in 0..NumEndpoints PROVE Collected[n] \in V
  <2> DEFINE T == {k \in Nat : k <= NumEndpoints => Collected[k] = h[k]}
  <2>1. 0 \in T
    BY <1>3, <1>8
  <2>2. ASSUME NEW k \in Nat, k \in T PROVE k + 1 \in T
    <3> SUFFICES ASSUME k + 1 <= NumEndpoints PROVE Collected[k + 1] = h[k + 1]
      OBVIOUS
    <3>1. k + 1 \in 1..NumEndpoints /\ (k + 1) - 1 = k /\ Collected[k] = h[k]
      BY <2>2, SuiteAssumption
    <3>2. /\ Collected[k + 1] = Collected[(k + 1) - 1] \o ItemsOf(results[k + 1])
          /\ h[k + 1] = h[(k + 1) - 1] \o ItemsOf(results[k + 1])
      BY <1>4, <1>8, <3>1
    <3>3. QED
      BY <3>1, <3>2
  <2>3. Nat \subseteq T
    <3> HIDE DEF T
    <3>1. QED
      BY <2>1, <2>2, SetInduction
  <2>4. Collected[n] = h[n]
    BY <2>3, SuiteAssumption
  <2>5. QED
    BY <1>3, <2>4
<1>10. QED
  BY <1>8, <1>9 DEF V

\* One more item.
LEMMA OneMoreItem ==
  ASSUME NEW S, NEW s \in Seq(S), NEW x \in S
  PROVE  s \o <<x>> \in Seq(S) /\ ItemSet(s \o <<x>>) = ItemSet(s) \cup {x}
<1> DEFINE u == s \o <<x>>
           n == Len(s)
<1>1. /\ u \in Seq(S) /\ Len(u) = n + 1 /\ n \in Nat /\ u[n + 1] = x
      /\ \A k \in 1..n : u[k] = s[k]
  OBVIOUS
<1>2. ItemSet(s) = {s[k] : k \in 1..n}
  BY DEF ItemSet
<1> HIDE DEF u, n
<1>3. ItemSet(u) = {u[k] : k \in 1..(n + 1)}
  BY <1>1 DEF ItemSet
<1> HIDE DEF ItemSet
<1>4. \A k \in 1..(n + 1) : k \in 1..n \/ k = n + 1
  BY <1>1
<1>5. ItemSet(u) = ItemSet(s) \cup {x}
  <2>1. \A k \in 1..(n + 1) : u[k] \in ItemSet(s) \cup {x}
    BY <1>1, <1>2, <1>4
  <2>2. n + 1 \in 1..(n + 1) /\ \A k \in 1..n : k \in 1..(n + 1)
    BY <1>1
  <2>3. \A k \in 1..n : s[k] \in ItemSet(u)
    BY <1>1, <1>3, <2>2
  <2>4. x \in ItemSet(u)
    BY <1>1, <1>3, <2>2
  <2>5. QED
    BY <1>2, <1>3, <2>1, <2>3, <2>4
<1>6. QED
  BY <1>1, <1>5 DEF u

\* The items after n results are those that these results make.
LEMMA CollectedItems ==
  ASSUME NEW n \in 0..NumEndpoints
  PROVE  /\ Collected[n] \in Seq({Made(i) : i \in Nat})
         /\ ItemSet(Collected[n]) = {Made(i) : i \in Making(n)}
<1> DEFINE T == {k \in Nat : k <= NumEndpoints =>
                   ItemSet(Collected[k]) = {Made(i) : i \in Making(k)}}
<1>1. 0 \in T
  <2>1. ItemSet(Collected[0]) = {}
    BY CollectedSteps DEF ItemSet
  <2>2. Making(0) = {}
    BY DEF Making
  <2>3. QED
    BY <2>1, <2>2
<1>2. ASSUME NEW k \in Nat, k \in T PROVE k + 1 \in T
  <2> SUFFICES ASSUME k + 1 <= NumEndpoints
               PROVE  ItemSet(Collected[k + 1]) = {Made(i) : i \in Making(k + 1)}
    OBVIOUS
  <2> DEFINE S == {Made(i) : i \in Nat}
             m == k + 1
             s == Collected[k]
  <2>1. /\ m \in 1..NumEndpoints /\ m - 1 = k /\ k \in 0..NumEndpoints
        /\ ItemSet(s) = {Made(i) : i \in Making(k)}
    BY <1>2, SuiteAssumption
  <2>2. 1..m = 1..k \cup {m} /\ m \in Nat /\ m \notin 1..k
    OBVIOUS
  <2> HIDE DEF m
  <2>3. Collected[m] = s \o ItemsOf(results[m]) /\ s \in Seq(S)
    BY <2>1, CollectedSteps
  <2> HIDE DEF s, S
  <2>4. CASE ItemsOf(results[m]) = <<>>
    <3>1. Collected[m] = s
      BY <2>3, <2>4
    <3>2. Making(m) = Making(k)
      BY <2>2, <2>4 DEF Making
    <3>3. QED
      BY <2>1, <3>1, <3>2 DEF m
  <2>5. CASE ItemsOf(results[m]) = <<Made(m)>>
    <3>1. Made(m) \in S
      BY <2>2 DEF S
    <3>2. ItemSet(Collected[m]) = ItemSet(s) \cup {Made(m)}
      BY <2>3, <2>5, <3>1, OneMoreItem
    <3>3. Making(m) = Making(k) \cup {m}
      BY <2>2, <2>5 DEF Making
    <3> HIDE DEF ItemSet, Making, Made
    <3>4. QED
      BY <2>1, <3>2, <3>3 DEF m
  <2>6. QED
    BY <2>4, <2>5, ItemsOfResult
<1>3. Nat \subseteq T
  <2> HIDE DEF T
  <2>1. QED
    BY <1>1, <1>2, SetInduction
<1>4. n \in T /\ n <= NumEndpoints
  <2>1. n \in Nat /\ n <= NumEndpoints
    BY SuiteAssumption
  <2> HIDE DEF T
  <2>2. QED
    BY <1>3, <2>1
<1> HIDE DEF ItemSet, Making, Made
<1>5. QED
  BY <1>4, CollectedSteps

-----------------------------------------------------------------------------
(* The steps and the rest of the invariant. *)

\* An answer with code 0 carries a body; no body is not one.
LEMMA ServedAnswers ==
  /\ \A a \in Answers : a.code = 0 => a.body \in Bodies /\ a.body # NoBody
  /\ \A a \in Served : a.code = 0 /\ a.body \in Bodies /\ a.body # NoBody
BY SuiteAssumption DEF Answers, Served, Failure

\* The end of a command settles the suite only when the API answers what it saw.
LEMMA FinishSettles ==
  ASSUME NEW code, Finish(code)
  PROVE  /\ exit' = code /\ next' = next
         /\ \/ settled' = settled
            \/ /\ code = 0 /\ kind \in {"record", "review"} /\ sel = Everything
               /\ answer = server /\ settled' \in {"record", "review"}
         /\ code # 0 => settled' = settled
BY DEF Finish

\* A result's endpoint is chosen and has that answer.
LEMMA HereAnswered ==
  ASSUME SuiteIInv, AtResult
  PROVE  /\ HereEndpoint \in Chosen /\ HereEndpoint \in Endpoints
         /\ answer[HereEndpoint] = Here /\ Here \in Answers
<1>1. /\ next \in DOMAIN results /\ HereEndpoint = EndpointOf(next) /\ Here = Outcome(next)
      /\ HereEndpoint \in Endpoints /\ Here \in Answers
  BY AtPosition
<1>2. results[next].job \in DOMAIN sel
  <2>1. results[next] \in [job : DOMAIN sel, outcome : Answers]
    BY <1>1, ResultsType, SeqElements
  <2>2. QED
    BY <2>1
<1>3. QED
  BY <1>1, <1>2 DEF SuiteIInv, AnsweredAs, Chosen, HereEndpoint

\* What is not about a loop of its own stays, in a step that changes neither the answers
\* nor the API, and leaves the files.
LEMMA QuietFrame ==
  ASSUME ReviewIInv,
         UNCHANGED <<server, answer, results, sel, items, phase, snap, settled>>
  PROVE  /\ AnsweredReported' /\ ServerType' /\ ItemsMade'
         /\ AnswersCurrent' /\ SnapshotsCurrent'
<1>1. AnsweredReported' /\ ServerType' /\ ItemsMade'
  BY DEF ReviewIInv, AnsweredReported, ServerType, ItemsMade, EndpointOf
<1>2. AnswersCurrent' /\ SnapshotsCurrent'
  BY DEF ReviewIInv, AnswersCurrent, SnapshotsCurrent, Stored, DistinctFiles
<1>3. QED
  BY <1>1, <1>2

LEMMA SuiteInitReview == SuiteInit => ReviewIInv
<1> SUFFICES ASSUME SuiteInit PROVE ReviewIInv
  OBVIOUS
<1>1. \A e \in Endpoints : answer[e].code # 0
  BY DEF SuiteInit, NotAnswered, Failure, Running
<1>2. AnsweredReported /\ ReviewedSoFar /\ ReviewEnded
  BY <1>1 DEF AnsweredReported, ReviewedSoFar, ReviewEnded
<1>3. ServerType
  <2>1. {a \in Served : a.expected} \subseteq Served
    OBVIOUS
  <2>2. server \in [Endpoints -> {a \in Served : a.expected}]
    BY DEF SuiteInit
  <2> HIDE DEF Served
  <2>3. QED
    BY <2>1, <2>2 DEF ServerType
<1>4. ItemsMade
  BY DEF SuiteInit, ItemsMade
<1>5. AnswersCurrent /\ SnapshotsCurrent /\ EndedWith3
  BY DEF SuiteInit, AnswersCurrent, SnapshotsCurrent, EndedWith3, Killed
<1>6. QED
  BY <1>2, <1>3, <1>4, <1>5 DEF ReviewIInv

\* A command starts: nobody has answered, nothing has been made of answers.
LEMMA StartReview ==
  ASSUME ReviewIInv, NEW k, NEW s \in Selections, Start(k, s)
  PROVE  ReviewIInv'
<1>1. /\ sel' = s /\ items' = <<>> /\ exit' \in {0, Running} /\ exit' # 3
      /\ answer' = [e \in Endpoints |-> NotAnswered]
      /\ UNCHANGED <<server, snap, settled>>
  BY DEF Start, files, world, Running
<1>2. \A e \in Endpoints : answer'[e].code # 0
  BY <1>1 DEF NotAnswered, Failure, Running
<1>3. AnsweredReported' /\ ReviewedSoFar' /\ ReviewEnded' /\ AnswersCurrent'
  BY <1>2 DEF AnsweredReported, ReviewedSoFar, ReviewEnded, AnswersCurrent
<1>4. ItemsMade'
  BY <1>1 DEF ItemsMade
<1>5. ServerType' /\ SnapshotsCurrent' /\ EndedWith3'
  BY <1>1 DEF ReviewIInv, ServerType, SnapshotsCurrent, EndedWith3, Stored, DistinctFiles
<1>6. QED
  BY <1>3, <1>4, <1>5 DEF ReviewIInv

\* The dispatcher's own steps: a review has no items yet.
LEMMA DispatchEdgeReview ==
  ASSUME ReviewIInv, DispatchStart \/ (\E j \in inflight : DispatchPanic(j)) \/ DispatchReturn
  PROVE  ReviewIInv'
<1>1. /\ UNCHANGED <<server, answer, results, sel, kind, items, snap, settled, exit>>
      /\ exit = Running /\ phase # "returned"
  BY DEF DispatchStart, DispatchPanic, DispatchReturn, InitialBatch, JoinPanicked, Return,
         Elsewhere, files, command, loop, world
<1>2. items = <<>>
  BY <1>1 DEF ReviewIInv, ItemsMade
<1>3. AnsweredReported' /\ ServerType' /\ ItemsMade'
  BY <1>1, <1>2 DEF ReviewIInv, AnsweredReported, ServerType, ItemsMade, EndpointOf
<1>4. AnswersCurrent' /\ SnapshotsCurrent'
  BY <1>1 DEF ReviewIInv, AnswersCurrent, SnapshotsCurrent, Stored, DistinctFiles
<1>5. ReviewedSoFar' /\ ReviewEnded' /\ EndedWith3'
  BY <1>1, <1>2 DEF ReviewedSoFar, ReviewEnded, EndedWith3, Running
<1>6. QED
  BY <1>3, <1>4, <1>5 DEF ReviewIInv

\* An answer arrives: it is what the API answers now, and its result is kept.
LEMMA DispatchJoinReview ==
  ASSUME SuiteIInv, ReviewIInv, NEW j \in inflight, NEW o \in Answers, DispatchJoin(j, o)
  PROVE  ReviewIInv'
<1>1. /\ UNCHANGED <<server, sel, kind, items, snap, settled, exit>>
      /\ exit = Running /\ phase = "joining" /\ phase' = "joining"
      /\ answer' = [answer EXCEPT ![sel[j]] = o]
      /\ results' = Append(results, [job |-> j, outcome |-> o])
      /\ o.code = 0 => o = server[sel[j]]
  BY DEF DispatchJoin, Join, Elsewhere, files, command, loop, world
<1>2. items = <<>>
  BY <1>1 DEF ReviewIInv, ItemsMade
<1>3. sel[j] \in Endpoints /\ DOMAIN answer = Endpoints
  BY ResultsType DEF SuiteIInv, SelectionShape, PerEndpoint
<1>4. /\ DOMAIN results = 1..Len(results) /\ Len(results) \in Nat
      /\ DOMAIN results' = 1..(Len(results) + 1)
      /\ results'[Len(results) + 1] = [job |-> j, outcome |-> o]
      /\ \A i \in DOMAIN results : results'[i] = results[i]
  <2>1. DOMAIN results = 1..Len(results) /\ Len(results) \in Nat
    BY ResultsType, SeqElements
  <2>2. QED
    BY <1>1, <2>1, ResultsType
<1>5. AnsweredReported'
  <2> SUFFICES ASSUME NEW e \in Endpoints, answer'[e].code = 0
               PROVE  \E i \in DOMAIN results' : EndpointOf(i)' = e
    BY DEF AnsweredReported
  <2>1. CASE e = sel[j]
    <3>1. PICK n \in DOMAIN results' : n = Len(results) + 1
      BY <1>4
    <3>2. EndpointOf(n)' = e
      BY <1>1, <1>4, <2>1, <3>1 DEF EndpointOf
    <3>3. QED
      BY <3>2
  <2>2. CASE e # sel[j]
    <3>1. answer[e].code = 0
      BY <1>1, <1>3, <2>2
    <3>2. PICK i \in DOMAIN results : EndpointOf(i) = e
      BY <3>1 DEF ReviewIInv, AnsweredReported
    <3>3. i \in DOMAIN results' /\ EndpointOf(i)' = e
      BY <1>1, <1>4, <3>2 DEF EndpointOf
    <3>4. QED
      BY <3>3
  <2>3. QED
    BY <2>1, <2>2
<1>6. ServerType' /\ ItemsMade'
  BY <1>1, <1>2 DEF ReviewIInv, ServerType, ItemsMade
<1>7. AnswersCurrent' /\ SnapshotsCurrent'
  BY <1>1, <1>3 DEF ReviewIInv, AnswersCurrent, SnapshotsCurrent, Stored, DistinctFiles
<1>8. ReviewedSoFar' /\ ReviewEnded' /\ EndedWith3'
  BY <1>1, <1>2 DEF ReviewedSoFar, ReviewEnded, EndedWith3, Running
<1>9. QED
  BY <1>5, <1>6, <1>7, <1>8 DEF ReviewIInv

\* A written answer: the snapshots hold what the API answers, if they did before.
LEMMA WriteCurrent ==
  ASSUME SuiteIInv, ReviewIInv, NEW e \in Endpoints, answer[e].code = 0,
         snap' = [snap EXCEPT ![FileOf[e]] = answer[e].body],
         UNCHANGED <<server, settled>>
  PROVE  SnapshotsCurrent'
<1> SUFFICES ASSUME settled # "no", DistinctFiles,
                    \A d \in Endpoints : server[d].body # NullBody, NEW d \in Endpoints
             PROVE  snap'[FileOf[d]] = server[d].body
  BY DEF SnapshotsCurrent, Stored, DistinctFiles
<1>1. /\ DOMAIN snap = {FileOf[c] : c \in Endpoints} /\ answer[e] = server[e]
      /\ snap[FileOf[d]] = server[d].body
  BY DEF SuiteIInv, PerEndpoint, ReviewIInv, AnswersCurrent, SnapshotsCurrent, Stored
<1>2. FileOf[d] \in DOMAIN snap
  BY <1>1
<1>3. CASE d = e
  BY <1>1, <1>2, <1>3
<1>4. CASE d # e
  BY <1>1, <1>2, <1>4 DEF DistinctFiles
<1>5. QED
  BY <1>3, <1>4

LEMMA RecordResultReview ==
  ASSUME SuiteIInv, ReviewIInv, RecordResult
  PROVE  ReviewIInv'
<1>1. /\ kind = "record" /\ AtResult /\ Here.code = 0
      /\ UNCHANGED <<server, answer, results, sel, kind, items, phase>>
  BY DEF RecordResult, InLoop, command, world, dispatch
<1>2. \/ snap' = [snap EXCEPT ![FileOf[HereEndpoint]] = Here.body] /\ settled' = settled
      \/ snap' = snap /\ settled' = settled
  BY DEF RecordResult, WriteSnapshot, Finish
<1>3. HereEndpoint \in Endpoints /\ answer[HereEndpoint] = Here
  BY <1>1, HereAnswered
<1>4. AnsweredReported' /\ ServerType' /\ ItemsMade' /\ AnswersCurrent'
  BY <1>1, <1>2 DEF ReviewIInv, AnsweredReported, ServerType, ItemsMade, EndpointOf,
                   AnswersCurrent
<1>5. SnapshotsCurrent'
  <2>1. CASE snap' = [snap EXCEPT ![FileOf[HereEndpoint]] = Here.body]
    BY <1>1, <1>2, <1>3, <2>1, WriteCurrent
  <2>2. CASE snap' = snap
    BY <1>1, <1>2, <2>2 DEF ReviewIInv, SnapshotsCurrent, Stored, DistinctFiles
  <2>3. QED
    BY <1>2, <2>1, <2>2
<1>6. ReviewedSoFar' /\ ReviewEnded' /\ EndedWith3'
  BY <1>1 DEF ReviewedSoFar, ReviewEnded, EndedWith3
<1>7. QED
  BY <1>4, <1>5, <1>6 DEF ReviewIInv

LEMMA AbortReview ==
  ASSUME SuiteIInv, ReviewIInv, AbortOnError
  PROVE  ReviewIInv'
<1>1. /\ kind \in {"record", "test"} /\ AtResult /\ Here.code # 0 /\ Finish(Here.code)
      /\ UNCHANGED <<server, answer, results, sel, kind, items, phase, snap>>
  BY DEF AbortOnError, command, world, files, dispatch, loop
<1>2. exit' = Here.code /\ settled' = settled
  BY <1>1, FinishSettles
<1>3. /\ AnsweredReported' /\ ServerType' /\ ItemsMade'
      /\ AnswersCurrent' /\ SnapshotsCurrent'
  BY <1>1, <1>2, QuietFrame
<1>4. ReviewedSoFar' /\ ReviewEnded'
  BY <1>1 DEF ReviewedSoFar, ReviewEnded
<1>5. EndedWith3'
  <2>1. HereEndpoint \in Chosen /\ answer[HereEndpoint] = Here
    BY <1>1, HereAnswered
  <2>2. QED
    BY <1>1, <1>2, <2>1 DEF EndedWith3, Chosen
<1>6. QED
  BY <1>3, <1>4, <1>5 DEF ReviewIInv

\* A test ends with exit code 3 on a snapshot that is missing.
LEMMA TestResultReview ==
  ASSUME SuiteIInv, ReviewIInv, TestResult
  PROVE  ReviewIInv'
<1>1. /\ kind = "test" /\ AtResult /\ Here.code = 0 /\ exit = Running
      /\ UNCHANGED <<server, answer, results, sel, kind, items, phase, snap>>
  BY DEF TestResult, InLoop, command, world, files, dispatch
<1>2. settled' = settled /\ (exit' = exit \/ (exit' = 3 /\ Stored(HereEndpoint) = NoBody))
  BY DEF TestResult, Finish, Advance, Stored
<1>3. /\ AnsweredReported' /\ ServerType' /\ ItemsMade'
      /\ AnswersCurrent' /\ SnapshotsCurrent'
  BY <1>1, <1>2, QuietFrame
<1>4. ReviewedSoFar' /\ ReviewEnded'
  BY <1>1 DEF ReviewedSoFar, ReviewEnded
<1>5. EndedWith3'
  <2>1. HereEndpoint \in Chosen /\ answer[HereEndpoint] = Here
    BY <1>1, HereAnswered
  <2>2. QED
    BY <1>1, <1>2, <2>1 DEF EndedWith3, Chosen, Stored, Running
<1>6. QED
  BY <1>3, <1>4, <1>5 DEF ReviewIInv

\* The record or the review of the whole suite that settles it has brought every file in
\* line with what the API answers.
LEMMA ConcludeReview ==
  ASSUME SuiteIInv, ReviewIInv, Conclude
  PROVE  ReviewIInv'
<1>1. /\ kind \in {"record", "test"} /\ phase = "returned" /\ ~AtResult
      /\ Finish(IF open > 0 THEN 1 ELSE 0)
      /\ UNCHANGED <<server, answer, results, sel, kind, items, phase, snap>>
  BY DEF Conclude, command, world, files, dispatch, loop
<1>2. exit' \in {0, 1}
  BY <1>1, FinishSettles
<1>3. AnsweredReported' /\ ServerType' /\ ItemsMade'
  BY <1>1 DEF ReviewIInv, AnsweredReported, ServerType, ItemsMade, EndpointOf
<1>4. CASE settled' = settled
  <2>1. AnswersCurrent' /\ SnapshotsCurrent'
    BY <1>1, <1>4, QuietFrame
  <2>2. QED
    BY <1>1, <1>2, <1>3, <2>1 DEF ReviewIInv, ReviewedSoFar, ReviewEnded, EndedWith3
<1>5. CASE settled' # settled
  <2>1. kind = "record" /\ answer = server
    BY <1>1, <1>5, FinishSettles
  <2>2. AnswersCurrent'
    BY <1>1, <2>1 DEF AnswersCurrent
  <2>3. SnapshotsCurrent'
    <3> SUFFICES ASSUME DistinctFiles, NEW e \in Endpoints
                 PROVE  snap[FileOf[e]] = server[e].body
      BY <1>1 DEF SnapshotsCurrent, Stored, DistinctFiles
    <3>1. server[e] \in Served
      BY DEF ReviewIInv, ServerType
    <3>2. answer[e].code = 0
      BY <2>1, <3>1, ServedAnswers
    <3>3. PICK i \in DOMAIN results : EndpointOf(i) = e
      BY <3>2 DEF ReviewIInv, AnsweredReported
    <3>4. i \in 1..(next - 1)
      <4>1. /\ next \in Nat \ {0} /\ next <= Len(results) + 1
            /\ DOMAIN results = 1..Len(results) /\ Len(results) \in Nat
        BY <1>1, <2>1, ResultsType, SeqElements DEF SuiteIInv, SelectionShape, RecordedSoFar
      <4>2. QED
        BY <1>1, <3>3, <4>1 DEF AtResult
    <3>5. Kept(i)
      BY <1>1, <2>1, <3>4 DEF SuiteIInv, RecordedSoFar
    <3>6. answer[e] = Outcome(i)
      BY <3>3 DEF SuiteIInv, AnsweredAs
    <3>7. QED
      BY <2>1, <3>3, <3>5, <3>6 DEF Kept, Stored
  <2>4. QED
    BY <1>1, <1>2, <1>3, <2>1, <2>2, <2>3
       DEF ReviewIInv, ReviewedSoFar, ReviewEnded, EndedWith3
<1>6. QED
  BY <1>4, <1>5

-----------------------------------------------------------------------------
(* The steps of a review. *)

\* A result that makes no item is in line with its snapshot; an item is of an answer.
LEMMA ItemOrUpToDate ==
  ASSUME SuiteIInv, NEW i \in DOMAIN results
  PROVE  /\ Outcome(i).code = 0 => ItemsOf(results[i]) # <<>> \/ UpToDate(EndpointOf(i))
         /\ ItemsOf(results[i]) # <<>> => Outcome(i).code = 0 /\ Made(i) \in Item
<1>1. /\ EndpointOf(i) \in Endpoints /\ Outcome(i) \in Answers
      /\ answer[EndpointOf(i)] = Outcome(i)
  BY ResultsType DEF SuiteIInv, AnsweredAs
<1>2. Outcome(i).code = 0 => Made(i) \in Item
  BY <1>1, ServedAnswers DEF Made, Item
<1>3. QED
  BY <1>1, <1>2 DEF ItemsOf, UpToDate, EndpointOf, Outcome

\* The items of a review are of answers, and of every answer that is not in line.
LEMMA AllCollected ==
  ASSUME SuiteIInv, ReviewIInv, NEW s, s = Collected[Len(results)]
  PROVE  /\ s \in Seq(Item)
         /\ \A k \in 1..Len(s) : /\ answer[s[k].endpoint].code = 0
                                 /\ s[k].body = answer[s[k].endpoint].body
         /\ \A e \in Endpoints : answer[e].code = 0 =>
              UpToDate(e) \/ \E k \in 1..Len(s) : s[k].endpoint = e
<1> DEFINE n == Len(results)
           S == {Made(i) : i \in Nat}
           M == {Made(i) : i \in Making(n)}
<1>1. /\ n \in Nat /\ n \in 0..NumEndpoints /\ DOMAIN results = 1..n
      /\ Making(n) \subseteq DOMAIN results
      /\ \A i \in DOMAIN results : ItemsOf(results[i]) # <<>> => i \in Making(n)
      /\ \A i \in Making(n) : ItemsOf(results[i]) # <<>>
  BY ResultsBounded, ResultsType, SeqElements DEF Making
<1> HIDE DEF n
<1>2. s \in Seq(S) /\ ItemSet(s) = M
  BY <1>1, CollectedItems DEF n
<1>3. \A i \in Making(n) : /\ Made(i) \in Item /\ Outcome(i).code = 0
                           /\ Made(i).endpoint = EndpointOf(i) /\ Made(i).body = Outcome(i).body
                           /\ answer[EndpointOf(i)] = Outcome(i)
  BY <1>1, ItemOrUpToDate DEF Made, SuiteIInv, AnsweredAs
<1>4. \A k \in 1..Len(s) : \E i \in Making(n) : s[k] = Made(i)
  <2> HIDE DEF Made
  <2>1. \A k \in 1..Len(s) : s[k] \in ItemSet(s)
    BY DEF ItemSet
  <2>2. QED
    BY <1>2, <2>1
<1>5. s \in Seq(Item)
  <2> HIDE DEF S, Item, Made
  <2>1. DOMAIN s = 1..Len(s) /\ Len(s) \in Nat
    BY <1>2, SeqElements
  <2>2. \A k \in 1..Len(s) : s[k] \in Item
    BY <1>3, <1>4
  <2>3. QED
    BY <1>2, <2>1, <2>2
<1>6. \A k \in 1..Len(s) : /\ answer[s[k].endpoint].code = 0
                           /\ s[k].body = answer[s[k].endpoint].body
  <2> HIDE DEF Made
  <2>1. QED
    BY <1>3, <1>4
<1>7. ASSUME NEW e \in Endpoints, answer[e].code = 0, ~UpToDate(e)
      PROVE  \E k \in 1..Len(s) : s[k].endpoint = e
  <2>1. PICK i \in DOMAIN results : EndpointOf(i) = e
    BY <1>7 DEF ReviewIInv, AnsweredReported
  <2>2. Outcome(i).code = 0
    BY <1>7, <2>1 DEF SuiteIInv, AnsweredAs
  <2>3. i \in Making(n)
    BY <1>1, <1>7, <2>1, <2>2, ItemOrUpToDate
  <2> HIDE DEF Made, Making
  <2>4. Made(i) \in ItemSet(s)
    BY <1>2, <2>3
  <2>5. PICK k \in 1..Len(s) : s[k] = Made(i)
    BY <2>4 DEF ItemSet
  <2>6. QED
    BY <1>3, <2>1, <2>3, <2>5
<1>8. QED
  BY <1>5, <1>6, <1>7

\* A review that ends well with every answer in line settles the suite rightly.
LEMMA ReviewFinishes ==
  ASSUME SuiteIInv, ReviewIInv, kind = "review", NEW code, Finish(code),
         UNCHANGED <<server, answer, snap>>,
         code = 0 /\ DistinctFiles => \A e \in Endpoints : answer[e].code = 0 => UpToDate(e)
  PROVE  AnswersCurrent' /\ SnapshotsCurrent'
<1>1. CASE settled' = settled
  BY <1>1 DEF ReviewIInv, AnswersCurrent, SnapshotsCurrent, Stored, DistinctFiles
<1>2. CASE settled' # settled
  <2>1. code = 0 /\ answer = server
    BY <1>2, FinishSettles
  <2>2. AnswersCurrent'
    BY <2>1 DEF AnswersCurrent
  <2>3. SnapshotsCurrent'
    <3> SUFFICES ASSUME DistinctFiles, NEW e \in Endpoints, server[e].body # NullBody
                 PROVE  snap[FileOf[e]] = server[e].body
      BY DEF SnapshotsCurrent, Stored, DistinctFiles
    <3>1. server[e] \in Served
      BY DEF ReviewIInv, ServerType
    <3>2. StoredForReview(e) = server[e].body
      BY <2>1, <3>1, ServedAnswers DEF UpToDate
    <3>3. QED
      BY <3>2 DEF StoredForReview
  <2>4. QED
    BY <2>2, <2>3
<1>3. QED
  BY <1>1, <1>2

LEMMA CollectItemsReview ==
  ASSUME SuiteIInv, ReviewIInv, CollectItems
  PROVE  ReviewIInv'
<1>1. /\ kind = "review" /\ phase = "returned" /\ exit = Running /\ next = 1
      /\ items' = Collected[Len(results)]
      /\ UNCHANGED <<server, answer, results, sel, kind, phase, snap>>
      /\ \/ items' = <<>> /\ Finish(0)
         \/ items' # <<>> /\ exit' = exit /\ next' = next /\ settled' = settled
  BY DEF CollectItems, InLoop, command, world, files, dispatch
<1> DEFINE s == items'
<1>2. /\ s \in Seq(Item)
      /\ \A k \in 1..Len(s) : /\ answer[s[k].endpoint].code = 0
                              /\ s[k].body = answer[s[k].endpoint].body
      /\ \A e \in Endpoints : answer[e].code = 0 =>
           UpToDate(e) \/ \E k \in 1..Len(s) : s[k].endpoint = e
  BY <1>1, AllCollected
<1>3. next' = 1 /\ exit' \in {0, Running}
  BY <1>1, FinishSettles
<1>4. \A e : UpToDate(e)' <=> UpToDate(e)
  BY <1>1 DEF UpToDate, StoredForReview
<1>5. items' = <<>> => \A e \in Endpoints : answer[e].code = 0 => UpToDate(e)
  BY <1>2
<1>6. AnsweredReported' /\ ServerType' /\ ItemsMade'
  BY <1>1, <1>2 DEF ReviewIInv, AnsweredReported, ServerType, ItemsMade, EndpointOf
<1>7. AnswersCurrent' /\ SnapshotsCurrent'
  <2>1. CASE items' = <<>>
    BY <1>1, <1>5, <2>1, ReviewFinishes
  <2>2. CASE items' # <<>>
    BY <1>1, <2>2 DEF ReviewIInv, AnswersCurrent, SnapshotsCurrent, Stored, DistinctFiles
  <2>3. QED
    BY <2>1, <2>2
<1>8. ReviewedSoFar'
  <2> SUFFICES ASSUME NEW e \in Endpoints, answer[e].code = 0
               PROVE  UpToDate(e)' \/ ToCome(e)'
    BY <1>1 DEF ReviewedSoFar
  <2>1. CASE UpToDate(e)
    BY <1>4, <2>1
  <2>2. CASE \E k \in 1..Len(s) : s[k].endpoint = e
    <3>1. PICK k \in 1..Len(s) : s[k].endpoint = e
      BY <2>2
    <3>2. next' <= k
      BY <1>3
    <3>3. QED
      BY <3>1, <3>2 DEF ToCome
  <2>3. QED
    BY <1>2, <2>1, <2>2
<1>9. ReviewEnded' /\ EndedWith3'
  <2>1. exit' = 0 => items' = <<>>
    BY <1>1, <1>3 DEF Running
  <2>2. QED
    BY <1>1, <1>4, <1>5, <2>1 DEF ReviewEnded, EndedWith3
<1>10. QED
  BY <1>6, <1>7, <1>8, <1>9 DEF ReviewIInv

\* An accepted item brings its endpoint's snapshot in line; no other endpoint shares the
\* file.
LEMMA AcceptReview ==
  ASSUME SuiteIInv, ReviewIInv, Accept
  PROVE  ReviewIInv'
<1> DEFINE d == items[next].endpoint
           b == items[next].body
<1>1. /\ kind = "review" /\ exit = Running /\ next <= Len(items)
      /\ UNCHANGED <<server, answer, results, sel, kind, items, phase, open>>
      /\ \/ snap' = [snap EXCEPT ![FileOf[d]] = b] /\ next' = next + 1 /\ exit' = exit
            /\ settled' = settled
         \/ Finish(3) /\ snap' = snap
  BY DEF Accept, Deciding, InLoop, Advance, WriteSnapshot, command, world, dispatch
<1>2. next \in Nat \ {0} /\ Len(items) \in Nat /\ items \in Seq(Item)
  BY DEF SuiteIInv, SelectionShape, ReviewIInv, ItemsMade
<1>3. /\ next \in 1..Len(items) /\ items[next] \in Item
      /\ answer[d].code = 0 /\ b = answer[d].body
  <2>1. next \in 1..Len(items)
    BY <1>1, <1>2
  <2>2. QED
    BY <1>2, <2>1 DEF ReviewIInv, ItemsMade
<1>4. d \in Endpoints /\ b \in Bodies
  BY <1>3 DEF Item
<1> HIDE DEF d, b
<1>5. AnsweredReported' /\ ServerType' /\ ItemsMade'
  BY <1>1 DEF ReviewIInv, AnsweredReported, ServerType, ItemsMade, EndpointOf
<1>6. CASE snap' = [snap EXCEPT ![FileOf[d]] = b] /\ next' = next + 1 /\ exit' = exit
           /\ settled' = settled
  <2>1. AnswersCurrent' /\ SnapshotsCurrent'
    <3>1. AnswersCurrent'
      BY <1>1, <1>6 DEF ReviewIInv, AnswersCurrent
    <3>2. QED
      BY <1>1, <1>3, <1>4, <1>6, <3>1, WriteCurrent
  <2>2. ReviewedSoFar'
    <3> SUFFICES ASSUME DistinctFiles, items # <<>>, open = 0, NEW e \in Endpoints,
                        answer[e].code = 0
                 PROVE  UpToDate(e)' \/ ToCome(e)'
      BY <1>1 DEF ReviewedSoFar, DistinctFiles
    <3>1. FileOf[e] \in DOMAIN snap /\ FileOf[d] \in DOMAIN snap
      BY <1>4 DEF SuiteIInv, PerEndpoint
    <3>2. CASE e = d
      <4>1. snap'[FileOf[e]] = b /\ b # NoBody
        BY <1>4, <1>6, <3>1, <3>2, SuiteAssumption
      <4>2. QED
        BY <1>1, <1>3, <3>2, <4>1 DEF UpToDate, StoredForReview
    <3>3. CASE e # d
      <4>1. snap'[FileOf[e]] = snap[FileOf[e]]
        BY <1>4, <1>6, <3>1, <3>3 DEF DistinctFiles
      <4>2. UpToDate(e) => UpToDate(e)'
        BY <1>1, <4>1 DEF UpToDate, StoredForReview
      <4>3. ToCome(e) => ToCome(e)'
        <5> SUFFICES ASSUME NEW k \in 1..Len(items), next <= k, items[k].endpoint = e
                     PROVE  next' <= k
          BY <1>1 DEF ToCome
        <5>1. k # next
          BY <3>3 DEF d
        <5>2. QED
          BY <1>2, <1>6, <5>1
      <4>4. UpToDate(e) \/ ToCome(e)
        BY <1>1 DEF ReviewIInv, ReviewedSoFar
      <4>5. QED
        BY <4>2, <4>3, <4>4
    <3>4. QED
      BY <3>2, <3>3
  <2>3. ReviewEnded' /\ EndedWith3'
    BY <1>1, <1>6 DEF ReviewEnded, EndedWith3, Running
  <2>4. QED
    BY <1>5, <2>1, <2>2, <2>3 DEF ReviewIInv
<1>7. CASE Finish(3) /\ snap' = snap
  <2>1. exit' = 3 /\ next' = next
    BY <1>7, FinishSettles
  <2>2. AnswersCurrent' /\ SnapshotsCurrent'
    BY <1>1, <1>7, ReviewFinishes
  <2>3. ReviewedSoFar'
    BY <1>1, <1>7, <2>1 DEF ReviewIInv, ReviewedSoFar, UpToDate, StoredForReview, ToCome,
                            DistinctFiles
  <2>4. ReviewEnded' /\ EndedWith3'
    BY <1>1, <2>1 DEF ReviewEnded, EndedWith3
  <2>5. QED
    BY <1>5, <2>2, <2>3, <2>4 DEF ReviewIInv
<1>8. QED
  BY <1>1, <1>6, <1>7

\* A decision against an item keeps the review from ending well.
LEMMA DeclineReview ==
  ASSUME SuiteIInv, ReviewIInv, RejectOrSkip \/ Quit \/ ReviewDone
  PROVE  ReviewIInv'
<1>1. /\ kind = "review" /\ exit = Running
      /\ UNCHANGED <<server, answer, results, sel, kind, items, phase, snap>>
  BY DEF RejectOrSkip, Quit, ReviewDone, Deciding, InLoop, command, world, dispatch, files,
         loop, history
<1>2. AnsweredReported' /\ ServerType' /\ ItemsMade'
  BY <1>1 DEF ReviewIInv, AnsweredReported, ServerType, ItemsMade, EndpointOf
<1>3. \A e : UpToDate(e)' <=> UpToDate(e)
  BY <1>1 DEF UpToDate, StoredForReview
<1>4. next \in Nat \ {0} /\ open \in Nat /\ Len(items) \in Nat
  BY DEF SuiteIInv, SelectionShape, ReviewIInv, ItemsMade
<1>5. CASE RejectOrSkip
  <2>1. open' = open + 1 /\ exit' = exit /\ settled' = settled
    BY <1>5 DEF RejectOrSkip, Advance, history
  <2>2. AnswersCurrent' /\ SnapshotsCurrent'
    BY <1>1, <2>1, QuietFrame
  <2>3. open' # 0
    BY <1>4, <2>1
  <2>4. ReviewedSoFar' /\ ReviewEnded' /\ EndedWith3'
    BY <1>1, <2>1, <2>3 DEF ReviewedSoFar, ReviewEnded, EndedWith3, Running
  <2>5. QED
    BY <1>2, <2>2, <2>4 DEF ReviewIInv
<1>6. ASSUME NEW code, Finish(code), open' = open, code # 3,
             code = 0 /\ DistinctFiles => \A e \in Endpoints : answer[e].code = 0 => UpToDate(e)
      PROVE  ReviewIInv'
  <2>1. exit' = code /\ next' = next
    BY <1>6, FinishSettles
  <2>2. AnswersCurrent' /\ SnapshotsCurrent'
    BY <1>1, <1>6, ReviewFinishes
  <2>3. \A e : ToCome(e)' <=> ToCome(e)
    BY <1>1, <2>1 DEF ToCome
  <2>4. ReviewedSoFar' /\ ReviewEnded' /\ EndedWith3'
    BY <1>1, <1>3, <1>6, <2>1, <2>3
       DEF ReviewIInv, ReviewedSoFar, ReviewEnded, EndedWith3, DistinctFiles
  <2>5. QED
    BY <1>2, <2>2, <2>4 DEF ReviewIInv
<1>7. CASE Quit
  BY <1>6, <1>7 DEF Quit, loop
<1>8. CASE ReviewDone
  <2>1. /\ items # <<>> /\ next = Len(items) + 1 /\ open' = open
        /\ Finish(IF open > 0 THEN 1 ELSE 0)
    BY <1>8 DEF ReviewDone, loop
  <2>2. \A e : ~ToCome(e)
    BY <1>4, <2>1 DEF ToCome
  <2>3. open = 0 /\ DistinctFiles =>
          \A e \in Endpoints : answer[e].code = 0 => UpToDate(e)
    BY <1>1, <2>1, <2>2 DEF ReviewIInv, ReviewedSoFar
  <2>4. CASE open = 0
    <3>1. Finish(0)
      BY <2>1, <2>4
    <3>2. QED
      BY <1>6, <2>1, <2>3, <2>4, <3>1
  <2>5. CASE open # 0
    <3>1. Finish(1)
      BY <1>4, <2>1, <2>5
    <3>2. QED
      BY <1>6, <2>1, <3>1
  <2>6. QED
    BY <2>4, <2>5
<1>9. QED
  BY <1>5, <1>7, <1>8

-----------------------------------------------------------------------------
\* Approvals, interrupts and deployments: after a deployment the suite is not settled.
LEMMA OutsideReview ==
  ASSUME SuiteIInv, ReviewIInv,
         \/ ApprovalStep
         \/ Kill
         \/ UNCHANGED suiteVars
  PROVE  ReviewIInv'
<1>1. /\ UNCHANGED <<server, answer, results, sel, kind, items, phase, snap, settled, next, open>>
      /\ exit' = exit \/ exit' = Killed
  BY DEF ApprovalStep, Approve, ApproveWritten, ApproveFails, ByApproveDiff, Kill,
         suiteVars, command, files, loop, history, world, dispatch
<1>2. /\ AnsweredReported' /\ ServerType' /\ ItemsMade'
      /\ AnswersCurrent' /\ SnapshotsCurrent'
  BY <1>1, QuietFrame
<1>3. ReviewedSoFar' /\ ReviewEnded' /\ EndedWith3'
  BY <1>1 DEF ReviewIInv, ReviewedSoFar, ReviewEnded, EndedWith3, UpToDate, StoredForReview,
              ToCome, DistinctFiles, Killed, Chosen, Stored
<1>4. QED
  BY <1>2, <1>3 DEF ReviewIInv

LEMMA DeployReview ==
  ASSUME SuiteIInv, ReviewIInv, NEW d \in Endpoints, NEW a \in Served, Deploy(d, a)
  PROVE  ReviewIInv'
<1>1. /\ UNCHANGED <<answer, results, sel, kind, items, phase, snap, next, open, exit>>
      /\ server' = [server EXCEPT ![d] = a] /\ settled' = "no"
  BY DEF Deploy, command, files, loop, dispatch
<1>2. ServerType'
  BY <1>1 DEF ReviewIInv, ServerType
<1>3. AnsweredReported' /\ ItemsMade'
  BY <1>1 DEF ReviewIInv, AnsweredReported, ItemsMade, EndpointOf
<1>4. AnswersCurrent' /\ SnapshotsCurrent'
  BY <1>1 DEF AnswersCurrent, SnapshotsCurrent
<1>5. ReviewedSoFar' /\ ReviewEnded' /\ EndedWith3'
  BY <1>1 DEF ReviewIInv, ReviewedSoFar, ReviewEnded, EndedWith3, UpToDate, StoredForReview,
              ToCome, DistinctFiles, Chosen, Stored
<1>6. QED
  BY <1>2, <1>3, <1>4, <1>5 DEF ReviewIInv

LEMMA ReviewStepIInv == SuiteIInv /\ ReviewIInv /\ [SuiteNext]_suiteVars => ReviewIInv'
<1> SUFFICES ASSUME SuiteIInv, ReviewIInv, [SuiteNext]_suiteVars PROVE ReviewIInv'
  OBVIOUS
<1>1. CASE \E k \in {"record", "test", "review"}, s \in Selections : Start(k, s)
  BY <1>1, StartReview
<1>2. CASE DispatchStep
  BY <1>2, DispatchEdgeReview, DispatchJoinReview DEF DispatchStep
<1>3. CASE RecordResult \/ AbortOnError \/ TestResult \/ Conclude
  BY <1>3, RecordResultReview, AbortReview, TestResultReview, ConcludeReview
<1>4. CASE ReviewStep
  BY <1>4, CollectItemsReview, AcceptReview, DeclineReview DEF ReviewStep
<1>5. CASE \/ ApprovalStep
           \/ Kill
           \/ UNCHANGED suiteVars
  BY <1>5, OutsideReview
<1>6. CASE \E e \in Endpoints, a \in Served : Deploy(e, a)
  BY <1>6, DeployReview
<1>7. QED
  BY <1>1, <1>2, <1>3, <1>4, <1>5, <1>6 DEF SuiteNext

-----------------------------------------------------------------------------
LEMMA ReviewInvariant == SuiteSpec => [](SuiteIInv /\ ReviewIInv)
<1>1. SuiteInit => SuiteIInv /\ ReviewIInv
  BY SuiteInitIInv, SuiteInitReview
<1>2. SuiteIInv /\ ReviewIInv /\ [SuiteNext]_suiteVars => (SuiteIInv /\ ReviewIInv)'
  BY SuiteStepIInv, ReviewStepIInv
<1>3. QED
  BY <1>1, <1>2, PTL DEF SuiteSpec

LEMMA ChosenAreEndpoints ==
  ASSUME SuiteIInv
  PROVE  Chosen \subseteq Endpoints
BY SeqElements DEF SuiteIInv, SelectionShape, Chosen

\* commands.rs, handle_review: a review that ends with exit code 0 has brought the
\* snapshot of every endpoint that answered in line with its answer, for every number of
\* endpoints, order of completion and sequence of decisions.
THEOREM SuiteReviewComplete == SuiteSpec => []ReviewComplete
<1>1. SuiteIInv /\ ReviewIInv => ReviewComplete
  BY ChosenAreEndpoints DEF ReviewIInv, ReviewEnded, ReviewComplete, UpToDate
<1>2. QED
  BY <1>1, ReviewInvariant, PTL

LEMMA SettlesFromInvariant ==
  ASSUME SuiteIInv, ReviewIInv
  PROVE  Settles
<1> SUFFICES ASSUME settled # "no", DistinctFiles, kind = "test",
                    \A e \in Endpoints : server[e].expected /\ server[e].body # NullBody
             PROVE  exit # 1 /\ (exit = 3 => \E e \in Chosen : answer[e].code = 3)
  BY DEF Settles
<1>1. ASSUME NEW e \in Chosen, answer[e].code = 0
      PROVE  answer[e].expected /\ Stored(e) = answer[e].body /\ Stored(e) # NoBody
  <2>1. e \in Endpoints
    BY ChosenAreEndpoints
  <2>2. answer[e] = server[e] /\ Stored(e) = server[e].body /\ server[e] \in Served
    BY <1>1, <2>1 DEF ReviewIInv, AnswersCurrent, SnapshotsCurrent, ServerType
  <2>3. QED
    BY <2>1, <2>2, ServedAnswers
<1>2. exit # 1
  <2> SUFFICES ASSUME exit = 1 PROVE FALSE
    OBVIOUS
  <2>1. PICK e \in Chosen : /\ answer[e].code = 0
                            /\ \/ ~answer[e].expected
                               \/ ~Match(Stored(e), answer[e].body)
    BY DifferenceFound
  <2>2. QED
    BY <1>1, <2>1 DEF Match
<1>3. exit = 3 => \E e \in Chosen : answer[e].code = 3
  BY <1>1 DEF ReviewIInv, EndedWith3
<1>4. QED
  BY <1>2, <1>3

\* commands.rs: after a record or a review of the whole suite that ended well, and until
\* the API is deployed anew, a test finds no difference and no missing snapshot, whatever
\* commands failed or were interrupted in between.
THEOREM SuiteSettles == SuiteSpec => []Settles
<1>1. SuiteIInv /\ ReviewIInv => Settles
  BY SettlesFromInvariant
<1>2. QED
  BY <1>1, ReviewInvariant, PTL

-----------------------------------------------------------------------------
(* The token cache. *)

Token == [life : Lifetimes, until : Nat, sent : Nat, expires : Nat]

\* One task at most holds the write lock.
OneHolder == \A s, t \in holder : s = t

\* A token that is good for longer than the margin is the one in the cache; while a
\* request is under way there was none when it was sent.
OthersExpired ==
  /\ \A i \in DOMAIN issued :
       issued[i].expires <= clock + Margin
         \/ (i = cache.id /\ issued[i].expires = cache.expires)
  /\ holder # {} => \A i \in DOMAIN issued : issued[i].expires <= sentAt + Margin

\* Each token was requested when the earlier ones were within the margin.
SentInTurn ==
  \A i, k \in DOMAIN issued : i < k => issued[i].expires <= issued[k].sent + Margin

\* A request is not older than the latency, and the endpoint issued its token after
\* it was sent.
InTime ==
  /\ holder # {} => clock <= sentAt + MaxLatency
  /\ \A t \in Tasks : pc[t] = "issued" =>
       /\ issued # <<>>
       /\ sentAt + issued[Len(issued)].life <= issued[Len(issued)].until

\* The client believes in a token for no longer than the latency too long.
LateByLatency ==
  cache.id # 0 => cache.expires <= issued[cache.id].until + MaxLatency

\* The tokens handed out exist.
GivenIssued == \A t \in Tasks : given[t].cached => given[t].id # 0

TokenIInv ==
  /\ TokenTypeOK /\ OneHolder /\ OthersExpired /\ SentInTurn /\ InTime
  /\ LateByLatency /\ GivenIssued

-----------------------------------------------------------------------------
\* Types.
LEMMA TokenTypeInit == TokenInit => TokenTypeOK
<1> SUFFICES ASSUME TokenInit PROVE TokenTypeOK
  OBVIOUS
<1>1. Len(issued) = 0 /\ clock \in 0..MaxClock /\ sentAt \in 0..clock
  BY TokenAssumption DEF TokenInit
<1>2. given \in [Tasks -> [id : 0..Len(issued), at : 0..clock, cached : BOOLEAN]]
  BY <1>1 DEF TokenInit, Nothing
<1>3. QED
  BY <1>1, <1>2 DEF TokenInit, TokenTypeOK, Answered

\* The tokens and the clocks are numbers.
LEMMA TokensTyped ==
  ASSUME TokenTypeOK
  PROVE  /\ issued \in Seq(Token) /\ Len(issued) \in Nat /\ DOMAIN issued = 1..Len(issued)
         /\ \A i \in DOMAIN issued :
              /\ i \in Nat \ {0} /\ issued[i] \in Token
              /\ issued[i].life \in Nat /\ issued[i].until \in Nat
              /\ issued[i].sent \in Nat /\ issued[i].expires \in Nat
         /\ clock \in Nat /\ sentAt \in Nat /\ sentAt <= clock
         /\ cache.id \in 0..Len(issued) /\ cache.expires \in Nat
         /\ Margin \in Nat /\ MaxLatency \in Nat
<1>1. issued \in Seq(Token)
  BY DEF TokenTypeOK, Token
<1>2. Len(issued) \in Nat /\ DOMAIN issued = 1..Len(issued)
  BY <1>1
<1>3. \A i \in DOMAIN issued : i \in Nat \ {0} /\ issued[i] \in Token
  BY <1>1, <1>2
<1>4. \A x \in Token : x.life \in Nat /\ x.until \in Nat /\ x.sent \in Nat /\ x.expires \in Nat
  BY TokenAssumption DEF Token
<1>5. clock \in Nat /\ sentAt \in Nat /\ sentAt <= clock
  BY TokenAssumption DEF TokenTypeOK
<1>6. cache.id \in 0..Len(issued) /\ cache.expires \in Nat
  BY DEF TokenTypeOK
<1>7. QED
  BY <1>1, <1>2, <1>3, <1>4, <1>5, <1>6, TokenAssumption

\* What a grant does to the queue.
LEMMA GrantType ==
  ASSUME TokenTypeOK, NEW t, NEW mode, Granted(t, mode)
  PROVE  /\ t \in Tasks /\ holder = {}
         /\ waiting' \in Seq([task : Tasks, mode : {"read", "write"}])
<1>1. Head(waiting) \in [task : Tasks, mode : {"read", "write"}]
      /\ Tail(waiting) \in Seq([task : Tasks, mode : {"read", "write"}])
  BY DEF TokenTypeOK, Granted
<1>2. QED
  BY <1>1 DEF Granted

\* What an answer from the cache is.
LEMMA HandOutType ==
  ASSUME TokenTypeOK, NEW t \in Tasks, HandOutCached(t)
  PROVE  /\ given' \in [Tasks -> [id : 0..Len(issued), at : 0..clock, cached : BOOLEAN]]
         /\ pc' = [pc EXCEPT ![t] = "ok"]
<1>1. clock \in 0..clock
  BY TokenAssumption DEF TokenTypeOK
<1>2. QED
  BY <1>1 DEF TokenTypeOK, HandOutCached

\* A task that waits or misses holds nothing.
LEMMA AwaitType ==
  ASSUME TokenTypeOK, NEW t \in Tasks, NEW from \in {"idle", "missed"},
         NEW mode \in {"read", "write"}, AwaitLock(t, from, mode)
  PROVE  TokenTypeOK'
<1>1. waiting' \in Seq([task : Tasks, mode : {"read", "write"}])
  BY DEF TokenTypeOK, AwaitLock
<1>2. pc' \in [Tasks -> {"idle", "read", "missed", "write", "sent", "issued"} \cup Answered]
      /\ holder' = {s \in Tasks : pc'[s] \in {"sent", "issued"}}
  BY DEF TokenTypeOK, AwaitLock
<1>3. QED
  BY <1>1, <1>2 DEF TokenTypeOK, AwaitLock

LEMMA LookType ==
  ASSUME TokenTypeOK, NEW t \in Tasks, ReadLook(t) \/ WriteLook(t)
  PROVE  TokenTypeOK'
<1>1. holder = {} /\ waiting' \in Seq([task : Tasks, mode : {"read", "write"}])
  BY GrantType DEF ReadLook, WriteLook
<1>2. given' \in [Tasks -> [id : 0..Len(issued), at : 0..clock, cached : BOOLEAN]]
  BY HandOutType DEF ReadLook, WriteLook, TokenTypeOK
<1>3. UNCHANGED <<clock, cache, issued>> /\ sentAt' \in 0..clock
  BY TokenAssumption DEF ReadLook, WriteLook, TokenTypeOK
<1>4. pc' \in [Tasks -> {"idle", "read", "missed", "write", "sent", "issued"} \cup Answered]
      /\ holder' = {s \in Tasks : pc'[s] \in {"sent", "issued"}}
  BY <1>1 DEF ReadLook, WriteLook, HandOutCached, TokenTypeOK, Answered
<1>5. QED
  BY <1>1, <1>2, <1>3, <1>4 DEF TokenTypeOK

\* The record of a new token, and of one whose reply has come.
LEMMA IssueType ==
  ASSUME TokenTypeOK, NEW t \in Tasks, NEW life \in Lifetimes, Issue(t, life)
  PROVE  TokenTypeOK' /\ Len(issued') = Len(issued) + 1 /\ Len(issued) \in Nat
<1>1. [life |-> life, until |-> clock + life, sent |-> sentAt, expires |-> 0] \in Token
  BY TokenAssumption DEF TokenTypeOK, Token
<1>2. issued \in Seq(Token)
  BY DEF TokenTypeOK, Token
<1>3. issued' \in Seq(Token) /\ Len(issued') = Len(issued) + 1 /\ Len(issued) \in Nat
  BY <1>1, <1>2 DEF Issue
<1>4. cache' \in [id : 0..Len(issued'), expires : Nat]
  BY <1>3 DEF TokenTypeOK, Issue
<1>5. given' \in [Tasks -> [id : 0..Len(issued'), at : 0..clock', cached : BOOLEAN]]
  BY <1>3 DEF TokenTypeOK, Issue
<1>6. pc' \in [Tasks -> {"idle", "read", "missed", "write", "sent", "issued"} \cup Answered]
      /\ holder' = {s \in Tasks : pc'[s] \in {"sent", "issued"}}
  BY DEF TokenTypeOK, Issue
<1>7. QED
  BY <1>3, <1>4, <1>5, <1>6 DEF TokenTypeOK, Issue, Token

\* What a reply does to the tokens: the last one gets its expiry.
LEMMA ReplyTokens ==
  ASSUME TokenTypeOK, NEW t \in Tasks, Reply(t), issued # <<>>
  PROVE  LET k == Len(issued)
         IN  /\ k \in Nat \ {0} /\ k \in DOMAIN issued
             /\ issued' \in Seq(Token) /\ Len(issued') = k /\ DOMAIN issued' = DOMAIN issued
             /\ issued'[k] = [issued[k] EXCEPT !.expires = clock + issued[k].life]
             /\ \A i \in DOMAIN issued : i # k => issued'[i] = issued[i]
             /\ cache' = [id |-> k, expires |-> clock + issued[k].life]
             /\ clock + issued[k].life \in Nat
<1> DEFINE k == Len(issued)
<1>1. issued \in Seq(Token) /\ k \in Nat \ {0} /\ k \in DOMAIN issued
  BY TokensTyped
<1>2. issued[k] \in Token /\ clock + issued[k].life \in Nat
  BY <1>1, TokensTyped
<1>3. issued' = [issued EXCEPT ![k] = [issued[k] EXCEPT !.expires = clock + issued[k].life]]
  BY DEF Reply
<1>4. [issued[k] EXCEPT !.expires = clock + issued[k].life] \in Token
  BY <1>2 DEF Token
<1>5. issued' \in Seq(Token) /\ Len(issued') = k /\ DOMAIN issued' = DOMAIN issued
  BY <1>1, <1>3, <1>4
<1>6. QED
  BY <1>1, <1>2, <1>3, <1>5 DEF Reply

LEMMA ReplyType ==
  ASSUME TokenTypeOK, NEW t \in Tasks, Reply(t), issued # <<>>, OneHolder
  PROVE  TokenTypeOK'
<1>1. issued' \in Seq(Token) /\ Len(issued') = Len(issued) /\ Len(issued) \in Nat \ {0}
      /\ cache' \in [id : 0..Len(issued'), expires : Nat]
  BY ReplyTokens
<1>2. clock \in 0..clock /\ clock' = clock /\ sentAt' = sentAt
  BY TokenAssumption DEF TokenTypeOK, Reply
<1>3. given' \in [Tasks -> [id : 0..Len(issued'), at : 0..clock', cached : BOOLEAN]]
  BY <1>1, <1>2 DEF TokenTypeOK, Reply
<1>4. pc' \in [Tasks -> {"idle", "read", "missed", "write", "sent", "issued"} \cup Answered]
      /\ holder' = {s \in Tasks : pc'[s] \in {"sent", "issued"}}
  BY DEF TokenTypeOK, Reply, Answered, OneHolder
<1>5. QED
  BY <1>1, <1>2, <1>3, <1>4 DEF TokenTypeOK, Reply, Token

LEMMA GiveUpType ==
  ASSUME TokenTypeOK, NEW t \in Tasks, Fail(t) \/ Overflow(t), OneHolder
  PROVE  TokenTypeOK'
<1>1. \A s \in Tasks : s # t => pc[s] \notin {"sent", "issued"}
  BY DEF TokenTypeOK, Fail, Overflow, OneHolder
<1>2. holder' = {} /\ \E x \in Answered : pc' = [pc EXCEPT ![t] = x]
  BY DEF Fail, Overflow, Answered
<1>3. /\ pc' \in [Tasks -> {"idle", "read", "missed", "write", "sent", "issued"} \cup Answered]
      /\ \A s \in Tasks : pc'[s] \notin {"sent", "issued"}
  BY <1>1, <1>2 DEF TokenTypeOK, Answered
<1>4. QED
  BY <1>2, <1>3 DEF TokenTypeOK, Fail, Overflow

LEMMA TickType ==
  ASSUME TokenTypeOK, Tick
  PROVE  TokenTypeOK'
<1>1. clock \in Nat /\ clock' = clock + 1 /\ clock' \in 0..MaxClock /\ 0..clock \subseteq 0..clock'
  BY TokenAssumption DEF TokenTypeOK, Tick
<1>2. given' \in [Tasks -> [id : 0..Len(issued'), at : 0..clock', cached : BOOLEAN]]
  BY <1>1 DEF TokenTypeOK, Tick
<1>3. QED
  BY <1>1, <1>2 DEF TokenTypeOK, Tick

-----------------------------------------------------------------------------
\* The inductive invariant.
LEMMA TokenIInvInit == TokenInit => TokenIInv
<1> SUFFICES ASSUME TokenInit PROVE TokenIInv
  OBVIOUS
<1>1. TokenTypeOK /\ DOMAIN issued = {} /\ holder = {}
  BY TokenTypeInit DEF TokenInit
<1>2. OneHolder /\ OthersExpired /\ SentInTurn
  BY <1>1 DEF OneHolder, OthersExpired, SentInTurn
<1>3. InTime /\ LateByLatency /\ GivenIssued
  BY <1>1 DEF TokenInit, InTime, LateByLatency, GivenIssued, Nothing
<1>4. QED
  BY <1>1, <1>2, <1>3 DEF TokenIInv

\* Steps that leave the tokens, the cache, the clock and the holders alone.
LEMMA QuietKeeps ==
  ASSUME TokenIInv, TokenTypeOK', UNCHANGED <<clock, cache, issued, holder, sentAt>>,
         \A t \in Tasks : pc'[t] = "issued" => pc[t] = "issued",
         GivenIssued'
  PROVE  TokenIInv'
BY DEF TokenIInv, OneHolder, OthersExpired, SentInTurn, InTime, LateByLatency

LEMMA AwaitKeeps ==
  ASSUME TokenIInv, NEW t \in Tasks, Begin(t) \/ AwaitWrite(t)
  PROVE  TokenIInv'
<1>1. TokenTypeOK'
  BY AwaitType DEF TokenIInv, Begin, AwaitWrite
<1>2. UNCHANGED <<clock, cache, issued, holder, sentAt, given>>
  BY DEF Begin, AwaitWrite, AwaitLock
<1>3. \A s \in Tasks : pc'[s] = "issued" => pc[s] = "issued"
  BY DEF Begin, AwaitWrite, AwaitLock, TokenIInv, TokenTypeOK
<1>4. GivenIssued'
  BY <1>2 DEF GivenIssued, TokenIInv
<1>5. QED
  BY <1>1, <1>2, <1>3, <1>4, QuietKeeps

\* A token from the cache exists.
LEMMA HandOutGiven ==
  ASSUME TokenIInv, NEW t \in Tasks, Fresh, HandOutCached(t)
  PROVE  GivenIssued' /\ \A s \in Tasks : pc'[s] = "issued" => pc[s] = "issued"
BY DEF Fresh, HandOutCached, GivenIssued, TokenIInv, TokenTypeOK

LEMMA ReadLookKeeps ==
  ASSUME TokenIInv, NEW t \in Tasks, ReadLook(t)
  PROVE  TokenIInv'
<1>1. TokenTypeOK'
  BY LookType DEF TokenIInv
<1>2. UNCHANGED <<clock, cache, issued, holder, sentAt>>
  BY DEF ReadLook
<1>3. GivenIssued' /\ \A s \in Tasks : pc'[s] = "issued" => pc[s] = "issued"
  <2>1. CASE Fresh /\ HandOutCached(t)
    BY <2>1, HandOutGiven
  <2>2. CASE ~Fresh /\ pc' = [pc EXCEPT ![t] = "missed"] /\ UNCHANGED given
    BY <2>2 DEF GivenIssued, TokenIInv, TokenTypeOK
  <2>3. QED
    BY <2>1, <2>2 DEF ReadLook
<1>4. QED
  BY <1>1, <1>2, <1>3, QuietKeeps

LEMMA WriteLookKeeps ==
  ASSUME TokenIInv, NEW t \in Tasks, WriteLook(t)
  PROVE  TokenIInv'
<1> USE DEF TokenIInv
<1>1. TokenTypeOK'
  BY LookType
<1>2. holder = {} /\ UNCHANGED <<clock, cache, issued>>
  BY GrantType DEF WriteLook
<1>3. CASE Fresh /\ HandOutCached(t) /\ UNCHANGED <<holder, sentAt>>
  BY <1>1, <1>2, <1>3, HandOutGiven, QuietKeeps
<1>4. CASE /\ ~Fresh
           /\ holder' = {t} /\ sentAt' = clock
           /\ pc' = [pc EXCEPT ![t] = "sent"] /\ UNCHANGED given
  <2>1. \A i \in DOMAIN issued : issued[i].expires \in Nat /\ i # 0
    BY TokensTyped
  <2>2. clock \in Nat /\ Margin \in Nat /\ MaxLatency \in Nat /\ cache.expires \in Nat
    BY TokensTyped
  <2>3. \A i \in DOMAIN issued : issued[i].expires <= clock + Margin
    BY <1>4, <2>1, <2>2 DEF OthersExpired, Fresh
  <2>4. OthersExpired'
    BY <1>2, <1>4, <2>3 DEF OthersExpired
  <2>5. \A s \in Tasks : pc'[s] # "issued"
    BY <1>2, <1>4 DEF TokenTypeOK
  <2>6. InTime'
    BY <1>2, <1>4, <2>2, <2>5 DEF InTime
  <2>7. OneHolder' /\ SentInTurn' /\ LateByLatency' /\ GivenIssued'
    BY <1>2, <1>4 DEF OneHolder, SentInTurn, LateByLatency, GivenIssued
  <2>8. QED
    BY <1>1, <2>4, <2>6, <2>7
<1>5. QED
  BY <1>3, <1>4 DEF WriteLook

\* The new token is the last one; no other task is past its request.
LEMMA IssueKeeps ==
  ASSUME TokenIInv, NEW t \in Tasks, NEW life \in Lifetimes, Issue(t, life)
  PROVE  TokenIInv'
<1> USE DEF TokenIInv
<1> DEFINE k == Len(issued) + 1
           new == [life |-> life, until |-> clock + life, sent |-> sentAt, expires |-> 0]
<1>1. TokenTypeOK' /\ Len(issued') = k /\ Len(issued) \in Nat
  BY IssueType
<1>2. issued' = Append(issued, new) /\ UNCHANGED <<clock, cache, holder, sentAt, given>>
      /\ pc' = [pc EXCEPT ![t] = "issued"]
  BY DEF Issue
<1>3. /\ issued'[k] = new /\ DOMAIN issued' = DOMAIN issued \cup {k} /\ k \notin DOMAIN issued
      /\ \A i \in DOMAIN issued : issued'[i] = issued[i] /\ i < k
  BY <1>2, TokensTyped
<1>4. t \in holder /\ \A s \in holder : s = t
  BY DEF Issue, TokenTypeOK, OneHolder
<1>5. \A i \in DOMAIN issued : issued[i].expires <= sentAt + Margin
  BY <1>4 DEF OthersExpired
<1>6. OneHolder'
  BY <1>2 DEF OneHolder
<1>7. OthersExpired'
  BY <1>2, <1>3, <1>5, TokensTyped DEF OthersExpired
<1>8. SentInTurn'
  <2>1. ASSUME NEW i \in DOMAIN issued', NEW j \in DOMAIN issued', i < j
        PROVE  issued'[i].expires <= issued'[j].sent + Margin
    <3>1. i \in DOMAIN issued
      BY <2>1, <1>3, TokensTyped
    <3>2. CASE j = k
      BY <3>1, <3>2, <1>3, <1>5
    <3>3. CASE j # k
      BY <2>1, <3>1, <3>3, <1>3 DEF SentInTurn
    <3>4. QED
      BY <3>2, <3>3
  <2>2. QED
    BY <2>1 DEF SentInTurn
<1>9. InTime'
  <2>1. sentAt + life <= clock + life
    BY TokensTyped, TokenAssumption
  <2>2. issued' # <<>> /\ issued'[Len(issued')] = new
    BY <1>1, <1>3
  <2>3. QED
    BY <1>2, <2>1, <2>2 DEF InTime
<1>10. LateByLatency'
  BY <1>2, <1>3, TokensTyped DEF LateByLatency
<1>11. GivenIssued'
  BY <1>2 DEF GivenIssued
<1>12. QED
  BY <1>1, <1>6, <1>7, <1>8, <1>9, <1>10, <1>11

LEMMA ReplyKeeps ==
  ASSUME TokenIInv, NEW t \in Tasks, Reply(t)
  PROVE  TokenIInv'
<1> USE DEF TokenIInv
<1> DEFINE k == Len(issued)
           e == clock + issued[k].life
<1>1. pc[t] = "issued" /\ issued # <<>>
  BY DEF Reply, InTime
<1>2. TokenTypeOK'
  BY <1>1, ReplyType
<1>3. t \in holder
  BY <1>1 DEF TokenTypeOK
<1>4. /\ holder' = {} /\ UNCHANGED <<clock, sentAt>>
      /\ pc' = [pc EXCEPT ![t] = "ok"]
      /\ given' = [given EXCEPT ![t] = [id |-> k, at |-> clock, cached |-> FALSE]]
  BY DEF Reply
<1>5. /\ k \in DOMAIN issued /\ DOMAIN issued' = DOMAIN issued /\ issued[k] \in Token
      /\ issued'[k] = [issued[k] EXCEPT !.expires = e]
      /\ \A i \in DOMAIN issued : i # k => issued'[i] = issued[i]
      /\ cache'.id = k /\ cache'.expires = e
      /\ k \in Nat \ {0} /\ \A i \in DOMAIN issued : i \in Nat /\ i <= k
  <2>1. /\ k \in Nat \ {0} /\ k \in DOMAIN issued /\ DOMAIN issued' = DOMAIN issued
        /\ issued'[k] = [issued[k] EXCEPT !.expires = e]
        /\ \A i \in DOMAIN issued : i # k => issued'[i] = issued[i]
        /\ cache' = [id |-> k, expires |-> e]
    BY <1>1, ReplyTokens
  <2>2. issued[k] \in Token
    BY <2>1, TokensTyped
  <2>3. \A i \in DOMAIN issued : i \in Nat /\ i <= k
    BY TokensTyped
  <2>4. QED
    BY <2>1, <2>2, <2>3
<1>6. issued'[k].expires = e /\ issued'[k].sent = issued[k].sent /\ issued'[k].until = issued[k].until
  BY <1>5 DEF Token
<1>7. \A i \in DOMAIN issued : issued[i].expires <= sentAt + Margin
  BY <1>3 DEF OthersExpired
<1>8. OneHolder'
  BY <1>4 DEF OneHolder
<1>9. OthersExpired'
  <2>1. sentAt + Margin <= clock + Margin
    BY TokensTyped
  <2>2. \A i \in DOMAIN issued : issued[i].expires \in Nat
    BY TokensTyped
  <2>3. \A i \in DOMAIN issued' : i # k => issued'[i].expires <= clock' + Margin
    BY <1>4, <1>5, <1>7, <2>1, <2>2, TokensTyped
  <2>4. holder' = {} /\ issued'[k].expires = cache'.expires /\ k = cache'.id
    BY <1>4, <1>5, <1>6
  <2>5. QED
    BY <2>3, <2>4 DEF OthersExpired
<1>10. SentInTurn'
  <2>1. ASSUME NEW i \in DOMAIN issued, NEW j \in DOMAIN issued, i < j
        PROVE  issued'[i].expires <= issued'[j].sent + Margin
    <3>1. i \in Nat /\ j \in Nat /\ j <= k
      BY <1>5
    <3>2. i # k
      BY <2>1, <3>1
    <3>3. issued'[j].sent = issued[j].sent
      BY <1>5, <1>6
    <3>4. issued'[i].expires = issued[i].expires
      BY <3>2, <1>5
    <3>5. QED
      BY <2>1, <3>3, <3>4 DEF SentInTurn
  <2>2. QED
    BY <2>1, <1>5 DEF SentInTurn
<1>11. InTime'
  <2>1. \A s \in Tasks : pc'[s] # "issued"
    BY <1>3, <1>4 DEF TokenTypeOK, OneHolder
  <2>2. QED
    BY <1>4, <2>1 DEF InTime
<1>12. LateByLatency'
  <2>1. clock <= sentAt + MaxLatency /\ sentAt + issued[k].life <= issued[k].until
    BY <1>1, <1>3 DEF InTime
  <2>2. e <= issued[k].until + MaxLatency
    <3>1. /\ clock \in Nat /\ sentAt \in Nat /\ MaxLatency \in Nat
          /\ issued[k].life \in Nat /\ issued[k].until \in Nat
      BY <1>5, TokensTyped
    <3>2. QED
      BY <2>1, <3>1
  <2>3. QED
    BY <2>2, <1>5, <1>6 DEF LateByLatency
<1>13. GivenIssued'
  BY <1>4 DEF GivenIssued, TokenTypeOK
<1>14. QED
  BY <1>2, <1>8, <1>9, <1>10, <1>11, <1>12, <1>13

LEMMA GiveUpKeeps ==
  ASSUME TokenIInv, NEW t \in Tasks, Fail(t) \/ Overflow(t)
  PROVE  TokenIInv'
<1> USE DEF TokenIInv
<1>1. TokenTypeOK' /\ holder' = {} /\ UNCHANGED <<clock, cache, issued, sentAt, given>>
  BY GiveUpType DEF Fail, Overflow
<1>2. \A s \in Tasks : pc'[s] # "issued"
  BY <1>1 DEF TokenTypeOK
<1>3. QED
  BY <1>1, <1>2 DEF OneHolder, OthersExpired, SentInTurn, InTime, LateByLatency, GivenIssued

\* The clock moves within the latency of a request.
LEMMA TickKeeps ==
  ASSUME TokenIInv, Tick
  PROVE  TokenIInv'
<1> USE DEF TokenIInv
<1>1. TokenTypeOK'
  BY TickType
<1>2. clock' = clock + 1 /\ UNCHANGED <<cache, issued, pc, holder, sentAt, given>>
      /\ (holder # {} => clock - sentAt < MaxLatency)
  BY DEF Tick
<1>3. OthersExpired' /\ InTime'
  BY <1>2, TokensTyped DEF OthersExpired, InTime
<1>4. OneHolder' /\ SentInTurn' /\ LateByLatency' /\ GivenIssued'
  BY <1>2 DEF OneHolder, SentInTurn, LateByLatency, GivenIssued
<1>5. QED
  BY <1>1, <1>3, <1>4

LEMMA TokenStutterKeeps ==
  ASSUME TokenIInv, UNCHANGED tokenVars
  PROVE  TokenIInv'
BY DEF tokenVars, TokenIInv, TokenTypeOK, OneHolder, OthersExpired, SentInTurn, InTime,
       LateByLatency, GivenIssued

LEMMA TokenIInvStep ==
  ASSUME TokenIInv, [TokenNext]_tokenVars
  PROVE  TokenIInv'
BY AwaitKeeps, ReadLookKeeps, WriteLookKeeps, IssueKeeps, ReplyKeeps, GiveUpKeeps, TickKeeps,
   TokenStutterKeeps DEF TokenNext, Progress

\* The inductive invariant always holds, whatever the tasks, the endpoint and the
\* clock do.
THEOREM TokenInvariant == TokenSpec => []TokenIInv
BY TokenIInvInit, TokenIInvStep, PTL DEF TokenSpec

\* The provider's state has its type, and a request is under way exactly while the
\* write lock is held.
THEOREM TokenTypeCorrect == TokenSpec => []TokenTypeOK
<1>1. TokenIInv => TokenTypeOK
  BY DEF TokenIInv
<1>2. QED
  BY <1>1, TokenInvariant, PTL

\* One token request at a time, and none while the cached token is good for longer
\* than the margin.
THEOREM TokenNoStampede == TokenSpec => []NoStampede
<1>1. TokenIInv => NoStampede
  <2> SUFFICES ASSUME TokenIInv PROVE NoStampede
    OBVIOUS
  <2>1. Cardinality(holder) <= 1
    <3>1. CASE holder = {}
      BY <3>1, FS_EmptySet
    <3>2. CASE holder # {}
      <4>1. PICK t : holder = {t}
        BY <3>2 DEF TokenIInv, OneHolder
      <4>2. Cardinality({t}) = 1
        BY FS_Singleton
      <4>3. QED
        BY <4>1, <4>2
    <3>3. QED
      BY <3>1, <3>2
  <2>2. QED
    BY <2>1 DEF NoStampede, TokenIInv, SentInTurn
<1>2. QED
  BY <1>1, TokenInvariant, PTL

-----------------------------------------------------------------------------
\* When no reply takes longer than the margin, a token that came from the cache was
\* still accepted by the server at the time.
LEMMA CachedStep ==
  ASSUME MaxLatency <= Margin, TokenIInv, CachedTokenAccepted, [TokenNext]_tokenVars
  PROVE  CachedTokenAccepted'
<1> USE DEF TokenIInv
<1>1. \A t \in Tasks : given[t].cached =>
        given[t].id \in DOMAIN issued /\ given[t].id \in 1..Len(issued)
  BY TokensTyped DEF TokenTypeOK, GivenIssued
<1>2. ASSUME given' = given,
             \A i \in DOMAIN issued : issued'[i].until = issued[i].until
      PROVE  CachedTokenAccepted'
  BY <1>1, <1>2 DEF CachedTokenAccepted
<1>3. ASSUME NEW t \in Tasks, Fresh, HandOutCached(t), issued' = issued
      PROVE  CachedTokenAccepted'
  <2>1. /\ clock \in Nat /\ Margin \in Nat /\ MaxLatency \in Nat /\ cache.expires \in Nat
        /\ cache.id \in DOMAIN issued /\ issued[cache.id].until \in Nat
    BY <1>3, TokensTyped DEF Fresh
  <2>2. clock < issued[cache.id].until
    BY <1>3, <2>1 DEF Fresh, LateByLatency
  <2>3. /\ given'[t].at = clock /\ given'[t].id = cache.id
        /\ \A s \in Tasks : s # t => given'[s] = given[s]
    BY <1>3 DEF HandOutCached, TokenTypeOK
  <2>4. QED
    BY <1>3, <2>2, <2>3 DEF CachedTokenAccepted
<1>4. ASSUME NEW t \in Tasks, Begin(t) \/ AwaitWrite(t) PROVE CachedTokenAccepted'
  BY <1>2, <1>4 DEF Begin, AwaitWrite, AwaitLock
<1>5. ASSUME NEW t \in Tasks, ReadLook(t) \/ WriteLook(t) PROVE CachedTokenAccepted'
  BY <1>2, <1>3, <1>5 DEF ReadLook, WriteLook
<1>6. ASSUME NEW t \in Tasks, NEW life \in Lifetimes, Issue(t, life)
      PROVE  CachedTokenAccepted'
  <2>1. \A i \in DOMAIN issued : issued'[i] = issued[i]
    BY <1>6, TokensTyped DEF Issue
  <2>2. QED
    BY <1>2, <1>6, <2>1 DEF Issue
<1>7. ASSUME NEW t \in Tasks, Reply(t) PROVE CachedTokenAccepted'
  <2>1. issued # <<>>
    BY <1>7 DEF Reply, InTime
  <2>2. \A i \in DOMAIN issued : issued'[i].until = issued[i].until
    <3>1. /\ Len(issued) \in DOMAIN issued
          /\ issued'[Len(issued)] =
               [issued[Len(issued)] EXCEPT !.expires = clock + issued[Len(issued)].life]
          /\ \A i \in DOMAIN issued : i # Len(issued) => issued'[i] = issued[i]
      BY <1>7, <2>1, ReplyTokens
    <3>2. issued[Len(issued)] \in Token
      BY <3>1, TokensTyped
    <3>3. issued'[Len(issued)].until = issued[Len(issued)].until
      BY <3>1, <3>2 DEF Token
    <3>4. QED
      BY <3>1, <3>3
  <2>3. ~given'[t].cached /\ \A s \in Tasks : s # t => given'[s] = given[s]
    BY <1>7 DEF Reply, TokenTypeOK
  <2>4. QED
    BY <1>1, <2>2, <2>3 DEF CachedTokenAccepted
<1>8. ASSUME NEW t \in Tasks, Fail(t) \/ Overflow(t) PROVE CachedTokenAccepted'
  BY <1>2, <1>8 DEF Fail, Overflow
<1>9. ASSUME Tick \/ UNCHANGED tokenVars PROVE CachedTokenAccepted'
  BY <1>2, <1>9 DEF Tick, tokenVars
<1>10. QED
  BY <1>4, <1>5, <1>6, <1>7, <1>8, <1>9 DEF TokenNext, Progress

\* The margin is there for the delay of a reply: where it covers the longest one, no
\* task is given a cached token that the server has already expired.
THEOREM TokenCachedAccepted ==
  ASSUME MaxLatency <= Margin
  PROVE  TokenSpec => []CachedTokenAccepted
<1>1. TokenInit => CachedTokenAccepted
  BY DEF TokenInit, Nothing, CachedTokenAccepted
<1>2. TokenIInv /\ CachedTokenAccepted /\ [TokenNext]_tokenVars => CachedTokenAccepted'
  BY CachedStep
<1>3. QED
  BY <1>1, <1>2, TokenInvariant, PTL DEF TokenSpec
=============================================================================
