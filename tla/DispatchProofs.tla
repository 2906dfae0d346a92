--------------------------- MODULE DispatchProofs ---------------------------
(***************************************************************************)
(* Theorems about Dispatch, for every number of endpoints, concurrency and *)
(* set of outcomes.  The inductive invariant adds to the safety invariants *)
(* of Dispatch what the initial state and the returned state look like.    *)
(***************************************************************************)
EXTENDS Dispatch, FiniteSetTheorems, TLAPS

\* Before the initial batch nothing has been taken from the queue; once the
\* results are returned no task is left in the JoinSet.
PhaseShape ==
  /\ phase = "idle" => head = 1 /\ inflight = {} /\ results = <<>> /\ lost = {}
  /\ phase = "returned" => inflight = {}

DispatchIInv ==
  /\ DispatchTypeOK
  /\ Conservation
  /\ InFlightBound
  /\ SlotsAccounted
  /\ PhaseShape

-----------------------------------------------------------------------------
\* Subsets of the positions are finite, and so are counted by Cardinality.
LEMMA JobsFinite ==
  ASSUME DispatchTypeOK
  PROVE  /\ IsFiniteSet(inflight) /\ Cardinality(inflight) \in Nat
         /\ IsFiniteSet(lost) /\ Cardinality(lost) \in Nat
<1>1. IsFiniteSet(Jobs)
  BY FS_Interval DEF DispatchTypeOK, Jobs
<1>2. inflight \subseteq Jobs /\ lost \subseteq Jobs
  BY DEF DispatchTypeOK
<1>3. IsFiniteSet(inflight) /\ IsFiniteSet(lost)
  BY <1>1, <1>2, FS_Subset
<1>4. QED
  BY <1>3, FS_CardinalityType

\* Pushing a result reports exactly its endpoint in addition.
LEMMA ReportedAppend ==
  ASSUME DispatchTypeOK,
         NEW j \in Jobs, NEW o \in Outcomes,
         results' = Append(results, [job |-> j, outcome |-> o])
  PROVE  /\ Reported' = Reported \cup {j}
         /\ DOMAIN results' = 1..(Len(results) + 1)
         /\ \A i \in DOMAIN results : results'[i] = results[i]
         /\ results'[Len(results) + 1].job = j
<1>1. results \in Seq([job : Jobs, outcome : Outcomes])
  BY DEF DispatchTypeOK
<1>2. /\ DOMAIN results = 1..Len(results)
      /\ DOMAIN results' = 1..(Len(results) + 1)
      /\ Len(results) \in Nat
      /\ \A i \in DOMAIN results : results'[i] = results[i]
      /\ results'[Len(results) + 1] = [job |-> j, outcome |-> o]
  BY <1>1
<1>3. \A i \in DOMAIN results' : i \in DOMAIN results \/ i = Len(results) + 1
  BY <1>2
<1>4. DOMAIN results \subseteq DOMAIN results' /\ Len(results) + 1 \in DOMAIN results'
  BY <1>2
<1>5. Reported' = Reported \cup {j}
  BY <1>2, <1>3, <1>4 DEF Reported
<1>6. QED
  BY <1>2, <1>5

\* A step that changes the in-flight set by one removal and, when the queue is
\* not empty, one insertion of its front keeps the number in flight bounded.
LEMMA RefillCount ==
  ASSUME DispatchTypeOK, Conservation,
         NEW j \in inflight
  PROVE  /\ Cardinality(inflight \ {j}) = Cardinality(inflight) - 1
         /\ head <= total =>
              Cardinality((inflight \ {j}) \cup {head}) = Cardinality(inflight)
<1>1. IsFiniteSet(inflight) /\ Cardinality(inflight) \in Nat
  BY JobsFinite
<1>2. /\ IsFiniteSet(inflight \ {j})
      /\ Cardinality(inflight \ {j}) = Cardinality(inflight) - 1
  BY <1>1, FS_RemoveElement
<1>3. ASSUME head <= total
      PROVE  Cardinality((inflight \ {j}) \cup {head}) = Cardinality(inflight)
  <2>1. head \notin inflight \ {j}
    BY <1>3 DEF Conservation, Queue, DispatchTypeOK
  <2>2. Cardinality((inflight \ {j}) \cup {head}) = Cardinality(inflight \ {j}) + 1
    BY <1>2, <2>1, FS_AddElement
  <2>3. QED
    BY <1>1, <1>2, <2>2
<1>4. QED
  BY <1>2, <1>3

-----------------------------------------------------------------------------
\* A pool that has not begun, or that has nothing to do.
LEMMA UntouchedIInv ==
  ASSUME total \in Nat, head = 1, inflight = {}, results = <<>>, lost = {},
         phase = "idle" \/ (phase = "returned" /\ total = 0)
  PROVE  DispatchIInv
<1>1. DispatchTypeOK /\ Conservation /\ PhaseShape
  BY DEF DispatchTypeOK, Conservation, PhaseShape, Jobs, Queue, Reported
<1>2. InFlightBound
  BY FS_EmptySet, DispatchAssumption DEF InFlightBound
<1>3. SlotsAccounted
  BY DEF SlotsAccounted, Queue
<1>4. QED
  BY <1>1, <1>2, <1>3 DEF DispatchIInv

LEMMA DispatchInitIInv == DispatchInit => DispatchIInv
BY UntouchedIInv, DispatchAssumption DEF DispatchInit

LEMMA InitialBatchIInv ==
  ASSUME DispatchIInv, InitialBatch
  PROVE  DispatchIInv'
<1> DEFINE batch == Lesser(Concurrency, total)
<1>1. /\ total \in Nat /\ Concurrency \in Nat
      /\ batch \in Nat /\ batch <= total /\ batch <= Concurrency
      /\ batch < total => batch = Concurrency
  BY DispatchAssumption DEF DispatchIInv, DispatchTypeOK, Lesser
<1>2. /\ inflight' = 1..batch /\ head' = batch + 1 /\ phase' = "joining"
      /\ total' = total /\ results' = results /\ lost' = lost
      /\ results = <<>> /\ lost = {}
  BY DEF InitialBatch, DispatchIInv, PhaseShape
<1> HIDE DEF batch
<1>3. DispatchTypeOK'
  BY <1>1, <1>2 DEF DispatchIInv, DispatchTypeOK, Jobs
<1>4. Conservation'
  <2>1. Reported' = {} /\ Jobs' = 1..total /\ Queue' = (batch + 1)..total
    BY <1>2 DEF Reported, Jobs, Queue
  <2>2. 1..total = ((batch + 1)..total) \cup (1..batch)
    BY <1>1
  <2>3. ((batch + 1)..total) \cap (1..batch) = {}
    BY <1>1
  <2>4. QED
    BY <1>2, <2>1, <2>2, <2>3 DEF Conservation
<1>5. Cardinality(1..batch) = batch
  BY <1>1, FS_Interval
<1>6. InFlightBound'
  BY <1>1, <1>2, <1>5 DEF InFlightBound
<1>7. SlotsAccounted'
  <2>1. Cardinality(lost') = 0
    BY <1>2, FS_EmptySet
  <2>2. Queue' # {} => batch < total
    BY <1>1, <1>2 DEF Queue
  <2>3. QED
    BY <1>1, <1>2, <1>5, <2>1, <2>2 DEF SlotsAccounted
<1>8. PhaseShape'
  BY <1>2 DEF PhaseShape
<1>9. QED
  BY <1>3, <1>4, <1>6, <1>7, <1>8 DEF DispatchIInv

LEMMA JoinIInv ==
  ASSUME DispatchIInv, NEW j \in inflight, NEW o \in Outcomes, Join(j, o)
  PROVE  DispatchIInv'
<1>1. DispatchTypeOK /\ Conservation /\ InFlightBound /\ SlotsAccounted
  BY DEF DispatchIInv
<1>2. j \in Jobs /\ phase = "joining" /\ UNCHANGED <<total, lost, phase>>
  BY <1>1 DEF Join, DispatchTypeOK
<1>3. /\ total \in Nat /\ head \in Nat /\ 1 <= head /\ head <= total + 1
      /\ Concurrency \in Nat
  BY <1>1, DispatchAssumption DEF DispatchTypeOK
<1>4. results' = Append(results, [job |-> j, outcome |-> o])
  BY DEF Join
<1>5. /\ Reported' = Reported \cup {j}
      /\ DOMAIN results' = 1..(Len(results) + 1)
      /\ \A i \in DOMAIN results : results'[i] = results[i]
      /\ results'[Len(results) + 1].job = j
  BY <1>1, <1>2, <1>4, ReportedAppend
<1>6. DispatchTypeOK'
  <2>1. results' \in Seq([job : Jobs', outcome : Outcomes])
    BY <1>1, <1>2, <1>4 DEF DispatchTypeOK, Jobs
  <2>2. head' \in 1..(total' + 1) /\ inflight' \subseteq Jobs'
    BY <1>1, <1>2, <1>3 DEF DispatchTypeOK, Join, Jobs
  <2>3. QED
    BY <1>1, <1>2, <2>1, <2>2 DEF DispatchTypeOK, Jobs
<1>7. \A i, k \in DOMAIN results' : results'[i].job = results'[k].job => i = k
  <2> SUFFICES ASSUME NEW i \in DOMAIN results', NEW k \in DOMAIN results',
                      results'[i].job = results'[k].job
               PROVE  i = k
    OBVIOUS
  <2>1. Len(results) \in Nat /\ DOMAIN results = 1..Len(results)
    BY <1>1 DEF DispatchTypeOK
  <2>2. j \notin Reported
    BY <1>1 DEF Conservation
  <2>3. \A n \in DOMAIN results : results'[n].job = results[n].job /\ results[n].job # j
    BY <1>5, <2>2 DEF Reported
  <2>4. CASE i \in DOMAIN results /\ k \in DOMAIN results
    BY <1>1, <2>3, <2>4 DEF Conservation
  <2>5. CASE i = Len(results) + 1 \/ k = Len(results) + 1
    <3>1. i \in DOMAIN results \/ i = Len(results) + 1
      BY <1>5, <2>1
    <3>2. k \in DOMAIN results \/ k = Len(results) + 1
      BY <1>5, <2>1
    <3>3. QED
      BY <1>5, <2>3, <2>5, <3>1, <3>2
  <2>6. QED
    BY <1>5, <2>1, <2>4, <2>5
<1>8. j \notin Reported /\ j \notin lost /\ j \notin Queue
  BY <1>1 DEF Conservation
<1>9. CASE head <= total
  <2>1. /\ inflight' = (inflight \ {j}) \cup {head}
        /\ head' = head + 1
    BY <1>9 DEF Join
  <2>2. /\ Jobs' = Jobs
        /\ Queue = Queue' \cup {head} /\ head \notin Queue'
    BY <1>2, <1>3, <1>9, <2>1 DEF Jobs, Queue
  <2>3. Conservation'
    BY <1>1, <1>2, <1>5, <1>7, <1>8, <2>1, <2>2 DEF Conservation
  <2>4. Cardinality(inflight') = Cardinality(inflight)
    BY <1>1, <1>9, <2>1, RefillCount
  <2>5. InFlightBound' /\ SlotsAccounted'
    BY <1>1, <1>2, <1>9, <2>2, <2>4 DEF InFlightBound, SlotsAccounted
  <2>6. QED
    BY <1>2, <1>6, <2>3, <2>5 DEF DispatchIInv, PhaseShape
<1>10. CASE ~(head <= total)
  <2>1. inflight' = inflight \ {j} /\ head' = head
    BY <1>10 DEF Join
  <2>2. Jobs' = Jobs /\ Queue' = {} /\ Queue = {}
    BY <1>2, <1>3, <1>10, <2>1 DEF Jobs, Queue
  <2>3. Conservation'
    BY <1>1, <1>2, <1>5, <1>7, <1>8, <2>1, <2>2 DEF Conservation
  <2>4. InFlightBound' /\ SlotsAccounted'
    <3>1. Cardinality(inflight') = Cardinality(inflight) - 1
      BY <1>1, <2>1, RefillCount
    <3>2. QED
      BY <1>1, <1>3, <2>2, <3>1, JobsFinite DEF InFlightBound, SlotsAccounted
  <2>5. QED
    BY <1>2, <1>6, <2>3, <2>4 DEF DispatchIInv, PhaseShape
<1>11. QED
  BY <1>9, <1>10

LEMMA JoinPanickedIInv ==
  ASSUME DispatchIInv, NEW j \in inflight, JoinPanicked(j)
  PROVE  DispatchIInv'
<1>1. DispatchTypeOK /\ Conservation /\ InFlightBound /\ SlotsAccounted
  BY DEF DispatchIInv
<1>2. /\ inflight' = inflight \ {j} /\ lost' = lost \cup {j}
      /\ phase = "joining" /\ UNCHANGED <<total, head, results, phase>>
  BY DEF JoinPanicked
<1>3. j \in Jobs /\ j \notin lost
  BY <1>1 DEF DispatchTypeOK, Conservation
<1>4. DispatchTypeOK'
  BY <1>1, <1>2, <1>3 DEF DispatchTypeOK, Jobs
<1>5. Jobs' = Jobs /\ Queue' = Queue /\ Reported' = Reported
  BY <1>2 DEF Jobs, Queue, Reported
<1>6. Conservation'
  BY <1>1, <1>2, <1>5 DEF Conservation
<1>7. Cardinality(inflight') = Cardinality(inflight) - 1
  BY <1>1, <1>2, RefillCount
<1>8. Cardinality(lost') = Cardinality(lost) + 1
  BY <1>1, <1>2, <1>3, JobsFinite, FS_AddElement
<1>9. InFlightBound' /\ SlotsAccounted'
  BY <1>1, <1>2, <1>5, <1>7, <1>8, JobsFinite, DispatchAssumption
     DEF InFlightBound, SlotsAccounted
<1>10. QED
  BY <1>2, <1>4, <1>6, <1>9 DEF DispatchIInv, PhaseShape

LEMMA ReturnIInv ==
  ASSUME DispatchIInv, Return
  PROVE  DispatchIInv'
  BY DEF DispatchIInv, Return, DispatchTypeOK, Conservation, InFlightBound,
         SlotsAccounted, PhaseShape, Jobs, Queue, Reported

LEMMA StutterIInv ==
  ASSUME DispatchIInv, UNCHANGED dispatchVars
  PROVE  DispatchIInv'
  BY DEF DispatchIInv, dispatchVars, DispatchTypeOK, Conservation,
         InFlightBound, SlotsAccounted, PhaseShape, Jobs, Queue, Reported

LEMMA DispatchStepIInv ==
  ASSUME DispatchIInv, [DispatchNext]_dispatchVars
  PROVE  DispatchIInv'
<1>1. CASE InitialBatch
  BY <1>1, InitialBatchIInv
<1>2. ASSUME NEW j \in inflight, NEW o \in Outcomes, Join(j, o)
      PROVE  DispatchIInv'
  BY <1>2, JoinIInv
<1>3. ASSUME NEW j \in inflight, JoinPanicked(j)
      PROVE  DispatchIInv'
  BY <1>3, JoinPanickedIInv
<1>4. CASE Return
  BY <1>4, ReturnIInv
<1>5. CASE UNCHANGED dispatchVars
  BY <1>5, StutterIInv
<1>6. QED
  BY <1>1, <1>2, <1>3, <1>4, <1>5 DEF DispatchNext

\* The strengthened invariant holds in every reachable state.
THEOREM DispatchInvariant == DispatchSpec => []DispatchIInv
<1>1. DispatchIInv /\ [DispatchNext]_dispatchVars => DispatchIInv'
  BY DispatchStepIInv
<1>2. QED
  BY <1>1, DispatchInitIInv, PTL DEF DispatchSpec

-----------------------------------------------------------------------------
\* dispatch_requests keeps its state well-typed for every input.
THEOREM DispatchTypeCorrect == DispatchSpec => []DispatchTypeOK
<1>1. DispatchIInv => DispatchTypeOK
  BY DEF DispatchIInv
<1>2. QED
  BY <1>1, DispatchInvariant, PTL

\* Whatever the number of endpoints and the completion order, each endpoint is
\* queued, in flight, reported or lost, and never two of these: dispatch_requests
\* neither repeats nor forgets one.
THEOREM DispatchConserves == DispatchSpec => []Conservation
<1>1. DispatchIInv => Conservation
  BY DEF DispatchIInv
<1>2. QED
  BY <1>1, DispatchInvariant, PTL

\* The configured concurrency bounds the requests in flight.
THEOREM DispatchBounded == DispatchSpec => []InFlightBound
<1>1. DispatchIInv => InFlightBound
  BY DEF DispatchIInv
<1>2. QED
  BY <1>1, DispatchInvariant, PTL

\* While endpoints wait, every slot is busy or lost to a panic.
THEOREM DispatchKeepsSlotsBusy == DispatchSpec => []SlotsAccounted
<1>1. DispatchIInv => SlotsAccounted
  BY DEF DispatchIInv
<1>2. QED
  BY <1>1, DispatchInvariant, PTL

\* When the pool returns without a lost task, nothing is left in the queue.
LEMMA AllReported ==
  ASSUME DispatchIInv, phase = "returned", Concurrency > 0, lost = {}
  PROVE  Reported = Jobs
<1>1. inflight = {}
  BY DEF DispatchIInv, PhaseShape
<1>2. Cardinality(inflight) + Cardinality(lost) = 0
  BY <1>1, FS_EmptySet
<1>3. Queue = {}
  BY <1>2, DispatchAssumption DEF DispatchIInv, SlotsAccounted
<1>4. QED
  BY <1>1, <1>3 DEF DispatchIInv, Conservation

\* With a positive concurrency and no panicked task, the returned results cover
\* every endpoint of the call.
THEOREM DispatchReportsAll == DispatchSpec => []NoneForgotten
<1>1. DispatchIInv => NoneForgotten
  BY AllReported DEF NoneForgotten
<1>2. QED
  BY <1>1, DispatchInvariant, PTL
=============================================================================
