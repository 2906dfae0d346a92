------------------------------ MODULE Dispatch ------------------------------
(***************************************************************************)
(* dispatch_requests (src/src/cli/commands.rs): the bounded pool of        *)
(* request tasks that record, test and review all run their endpoints      *)
(* through.                                                                *)
(*                                                                         *)
(* The endpoints handed over are the positions 1..total of the argument    *)
(* vector.  A tokio JoinSet holds the spawned tasks.  The initial batch    *)
(* spawns min(concurrency, total) of them; from then on one task is        *)
(* spawned for each task joined WITH A RESULT.  A task that panics is      *)
(* joined as Err(JoinError): the loop body is skipped, so its endpoint is  *)
(* dropped and its slot is not refilled.                                   *)
(*                                                                         *)
(* A task finishing and its result being joined are one step here: nothing *)
(* reads the JoinSet in between, so the order of the joins is all that can *)
(* be observed, and every order is allowed.                                *)
(***************************************************************************)
EXTENDS Integers, Sequences, FiniteSets

CONSTANTS MaxTotal,     \* bound on the number of endpoints of one call
          Concurrency,  \* the `concurrency: usize` argument
          Outcomes,     \* what a finished request can return
          MayPanic      \* TRUE: a request task may panic

ASSUME DispatchAssumption ==
  /\ MaxTotal \in Nat
  /\ Concurrency \in Nat      \* nothing in the configuration excludes 0
  /\ MayPanic \in BOOLEAN

VARIABLES total,     \* endpoints.len() of the call
          head,      \* the queue holds the positions head..total
          inflight,  \* positions whose task is in the JoinSet
          results,   \* Vec<(EndpointConfig, Result<..>)>, in completion order
          lost,      \* history: positions whose task panicked
          phase      \* "idle", "joining" (the while loop) or "returned"

dispatchVars == <<total, head, inflight, results, lost, phase>>

Jobs == 1..total
Queue == head..total
Reported == {results[i].job : i \in DOMAIN results}

Lesser(a, b) == IF a < b THEN a ELSE b

-----------------------------------------------------------------------------
DispatchInit ==
  /\ total \in 0..MaxTotal
  /\ head = 1
  /\ inflight = {}
  /\ results = <<>>
  /\ lost = {}
  /\ phase = "idle"

\* Mutant: the whole queue is spawned at once, the concurrency is not consulted.
InitialBatch_All ==
  /\ phase = "idle"
  /\ inflight' = Jobs
  /\ head' = total + 1
  /\ phase' = "joining"
  /\ UNCHANGED <<total, results, lost>>

\* The initial batch: `for _ in 0..concurrency.min(queue.len())`.
InitialBatch ==
  LET batch == Lesser(Concurrency, total)
  IN  /\ phase = "idle"
      /\ inflight' = 1..batch
      /\ head' = batch + 1
      /\ phase' = "joining"
      /\ UNCHANGED <<total, results, lost>>

\* Mutants of Join.  NoRefill spawns nothing after a completion; Peek spawns the
\* front of the queue without popping it.
Join_NoRefill(j, o) ==
  /\ phase = "joining"
  /\ j \in inflight
  /\ results' = Append(results, [job |-> j, outcome |-> o])
  /\ inflight' = inflight \ {j}
  /\ UNCHANGED <<total, head, lost, phase>>

Join_Peek(j, o) ==
  /\ phase = "joining"
  /\ j \in inflight
  /\ Len(results) < total
  /\ results' = Append(results, [job |-> j, outcome |-> o])
  /\ inflight' = (inflight \ {j}) \cup (IF head <= total THEN {head} ELSE {})
  /\ UNCHANGED <<total, head, lost, phase>>

\* join_next() yields Ok((endpoint, res)): push the result and, when the queue
\* is not empty, spawn the task of its front.
Join(j, o) ==
  /\ phase = "joining"
  /\ j \in inflight
  /\ results' = Append(results, [job |-> j, outcome |-> o])
  /\ inflight' = (inflight \ {j}) \cup (IF head <= total THEN {head} ELSE {})
  /\ head' = IF head <= total THEN head + 1 ELSE head
  /\ UNCHANGED <<total, lost, phase>>

\* join_next() yields Err(JoinError): nothing is pushed and nothing is spawned.
JoinPanicked(j) ==
  /\ MayPanic
  /\ phase = "joining"
  /\ j \in inflight
  /\ inflight' = inflight \ {j}
  /\ lost' = lost \cup {j}
  /\ UNCHANGED <<total, head, results, phase>>

\* Mutant: `while results.len() < total` in place of `while let Some(..)`.
Return_AwaitsAll ==
  /\ phase = "joining"
  /\ Reported = Jobs
  /\ phase' = "returned"
  /\ UNCHANGED <<total, head, inflight, results, lost>>

\* join_next() yields None: the JoinSet is empty and the results are returned.
Return ==
  /\ phase = "joining"
  /\ inflight = {}
  /\ phase' = "returned"
  /\ UNCHANGED <<total, head, inflight, results, lost>>

DispatchNext ==
  \/ InitialBatch
  \/ \E j \in inflight, o \in Outcomes : Join(j, o)
  \/ \E j \in inflight : JoinPanicked(j)
  \/ Return

\* Every request task ends: the reqwest clients are built with a timeout, and
\* the tokio runtime keeps polling the handler that awaits join_next().
DispatchFairness == WF_dispatchVars(DispatchNext)

DispatchSpec == DispatchInit /\ [][DispatchNext]_dispatchVars /\ DispatchFairness

-----------------------------------------------------------------------------
\* Type invariant of the dispatcher's state.
DispatchTypeOK ==
  /\ total \in Nat
  /\ head \in 1..(total + 1)
  /\ inflight \subseteq Jobs
  /\ results \in Seq([job : Jobs, outcome : Outcomes])
  /\ lost \subseteq Jobs
  /\ phase \in {"idle", "joining", "returned"}

\* Every endpoint handed over is at each moment in exactly one place: still
\* queued, in flight, reported once, or lost to a panic.  No endpoint is
\* requested twice, and none vanishes between the queue, the JoinSet and the
\* result vector.
Conservation ==
  /\ Jobs = Queue \cup inflight \cup Reported \cup lost
  /\ Queue \cap inflight = {}
  /\ Reported \cap (Queue \cup inflight \cup lost) = {}
  /\ lost \cap (Queue \cup inflight) = {}
  /\ \A i, k \in DOMAIN results : results[i].job = results[k].job => i = k

\* config.rs:18, "Maximum number of concurrently in-flight requests": neither
\* the initial batch nor the respawn on completion exceeds it.
InFlightBound == Cardinality(inflight) <= Concurrency

\* While endpoints wait, each of the Concurrency slots is busy or was lost to a
\* panic: a completion never leaves a slot idle, and the loop gives up on
\* waiting endpoints only after every slot has been lost.
SlotsAccounted ==
  (phase # "idle" /\ Queue # {}) =>
    Cardinality(inflight) + Cardinality(lost) = Concurrency

\* What the commands rely on: unless the concurrency is 0 or a task panicked,
\* the returned vector reports every endpoint.
NoneForgotten ==
  (phase = "returned" /\ Concurrency > 0 /\ lost = {}) => Reported = Jobs

\* The dispatcher returns: the loop ends whatever the tasks return.
EventuallyReturns == <>(phase = "returned")
=============================================================================
