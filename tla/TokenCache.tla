----------------------------- MODULE TokenCache -----------------------------
(***************************************************************************)
(* OAuth2ClientCredentialsAuth::get_valid_token (src/src/client/auth.rs):  *)
(* the token cache that the request tasks of one run share behind a tokio  *)
(* RwLock.  A task first looks under the read lock; when it finds no token *)
(* or one that is about to expire it takes the write lock, looks again,    *)
(* and fetches a token while it holds the lock.                            *)
(*                                                                         *)
(* The lock is tokio's: fair, first come first served (external).  Neither *)
(* look awaits anything while the guard is held, so that granting the lock *)
(* and looking are one step.  Time is an integer clock; the client counts  *)
(* the expiry from the moment the reply ARRIVES, the server from the       *)
(* moment it issued the token.                                             *)
(***************************************************************************)
EXTENDS Integers, Sequences, FiniteSets

CONSTANTS Tasks,      \* the request tasks that share the provider
          Lifetimes,  \* the `expires_in` values the token endpoint returns
          Margin,     \* refresh when expiring within this time (30 s)
          MaxLatency, \* the longest time a reply takes: the client's timeout
          MaxClock,   \* bound on time
          MayOverflow \* `Instant::now() + expires_in` may exceed Instant's range

ASSUME TokenAssumption ==
  /\ Lifetimes \subseteq Nat
  /\ Margin \in Nat /\ MaxLatency \in Nat /\ MaxClock \in Nat
  /\ MayOverflow \in BOOLEAN

VARIABLES clock,   \* now
          cache,   \* Option<TokenCache>: the token's number (0: None), expires_at
          issued,  \* the tokens the endpoint issued, numbered in order
          pc,      \* pc[t]: where the task is
          waiting, \* the lock's queue: the tasks with the mode they wait for
          holder,  \* the tasks that hold the write lock
          sentAt,  \* when the latest token request was sent
          given    \* given[t]: the token handed to t, when, and whether cached

tokenVars == <<clock, cache, issued, pc, waiting, holder, sentAt, given>>

Answered == {"ok", "err", "panicked"}
Nothing == [id |-> 0, at |-> 0, cached |-> FALSE]

\* Mutant: the comparison ignores the margin.
Fresh_NoMargin == cache.id # 0 /\ clock < cache.expires

\* There is a cached token and it does not expire within the margin.
Fresh == cache.id # 0 /\ clock + Margin < cache.expires

-----------------------------------------------------------------------------
TokenInit ==
  /\ clock = 0
  /\ cache = [id |-> 0, expires |-> 0]
  /\ issued = <<>>
  /\ pc = [t \in Tasks |-> "idle"]
  /\ waiting = <<>>
  /\ holder = {}
  /\ sentAt = 0
  /\ given = [t \in Tasks |-> Nothing]

\* `self.cache.read().await` and, after a miss, `self.cache.write().await`.
AwaitLock(t, from, mode) ==
  /\ pc[t] = from
  /\ waiting' = Append(waiting, [task |-> t, mode |-> mode])
  /\ pc' = [pc EXCEPT ![t] = mode]
  /\ UNCHANGED <<clock, cache, issued, holder, sentAt, given>>

Begin(t) == AwaitLock(t, "idle", "read")
AwaitWrite(t) == AwaitLock(t, "missed", "write")

\* The lock is free and the front of its queue is t's request.
Granted(t, mode) ==
  /\ waiting # <<>>
  /\ Head(waiting) = [task |-> t, mode |-> mode]
  /\ holder = {}
  /\ waiting' = Tail(waiting)

\* Ok(cache.access_token.clone()).
HandOutCached(t) ==
  /\ pc' = [pc EXCEPT ![t] = "ok"]
  /\ given' = [given EXCEPT ![t] = [id |-> cache.id, at |-> clock, cached |-> TRUE]]

\* The fast path: a look under the read lock, which is released at once.
ReadLook(t) ==
  /\ Granted(t, "read")
  /\ \/ Fresh /\ HandOutCached(t)
     \/ ~Fresh /\ pc' = [pc EXCEPT ![t] = "missed"] /\ UNCHANGED given
  /\ UNCHANGED <<clock, cache, issued, holder, sentAt>>

\* Mutant: no second look after the write lock was acquired.
WriteLook_Once(t) ==
  /\ Granted(t, "write")
  /\ holder' = {t}
  /\ sentAt' = clock
  /\ pc' = [pc EXCEPT ![t] = "sent"]
  /\ UNCHANGED <<clock, cache, issued, given>>

\* The slow path: the second look under the write lock; when it misses too, the
\* token request is sent and the lock stays held.
WriteLook(t) ==
  /\ Granted(t, "write")
  /\ \/ Fresh /\ HandOutCached(t) /\ UNCHANGED <<holder, sentAt>>
     \/ /\ ~Fresh
        /\ holder' = {t}
        /\ sentAt' = clock
        /\ pc' = [pc EXCEPT ![t] = "sent"]
        /\ UNCHANGED given
  /\ UNCHANGED <<clock, cache, issued>>

\* The token endpoint (external) issues a token.
Issue(t, life) ==
  /\ pc[t] = "sent"
  /\ issued' = Append(issued, [life |-> life, until |-> clock + life,
                               sent |-> sentAt, expires |-> 0])
  /\ pc' = [pc EXCEPT ![t] = "issued"]
  /\ UNCHANGED <<clock, cache, waiting, holder, sentAt, given>>

\* The reply arrives: the token is cached and returned, whatever its lifetime.
Reply(t) ==
  LET k == Len(issued)
      expiresAt == clock + issued[k].life
  IN  /\ pc[t] = "issued"
      /\ cache' = [id |-> k, expires |-> expiresAt]
      /\ issued' = [issued EXCEPT ![k].expires = expiresAt]
      /\ given' = [given EXCEPT ![t] = [id |-> k, at |-> clock, cached |-> FALSE]]
      /\ holder' = {}
      /\ pc' = [pc EXCEPT ![t] = "ok"]
      /\ UNCHANGED <<clock, waiting, sentAt>>

\* Mutant: the error path returns without releasing the lock.
Fail_KeepsLock(t) ==
  /\ pc[t] \in {"sent", "issued"}
  /\ pc' = [pc EXCEPT ![t] = "err"]
  /\ UNCHANGED <<clock, cache, issued, waiting, holder, sentAt, given>>

\* A network error, a timeout, an error status or an unreadable reply: the error
\* is returned, the guard is dropped and the cache keeps what it had.
Fail(t) ==
  /\ pc[t] \in {"sent", "issued"}
  /\ holder' = {}
  /\ pc' = [pc EXCEPT ![t] = "err"]
  /\ UNCHANGED <<clock, cache, issued, waiting, sentAt, given>>

\* `Instant::now() + Duration::from_secs(expires_in)` overflows: the task panics
\* and unwinding drops the guard.
Overflow(t) ==
  /\ MayOverflow
  /\ pc[t] = "issued"
  /\ holder' = {}
  /\ pc' = [pc EXCEPT ![t] = "panicked"]
  /\ UNCHANGED <<clock, cache, issued, waiting, sentAt, given>>

\* Time passes, but no request outlives the client's timeout.
Tick ==
  /\ clock < MaxClock
  /\ holder # {} => clock - sentAt < MaxLatency
  /\ clock' = clock + 1
  /\ UNCHANGED <<cache, issued, pc, waiting, holder, sentAt, given>>

Progress(t) ==
  \/ AwaitWrite(t)
  \/ ReadLook(t)
  \/ WriteLook(t)
  \/ \E life \in Lifetimes : Issue(t, life)
  \/ Reply(t)
  \/ Fail(t)
  \/ Overflow(t)

TokenNext ==
  \/ \E t \in Tasks : Begin(t)
  \/ \E t \in Tasks : Progress(t)
  \/ Tick

\* The runtime keeps polling every task whose lock or reply has arrived, and the
\* client's timeout ends every request.
TokenSpec == TokenInit /\ [][TokenNext]_tokenVars
TokenFairSpec == TokenSpec /\ \A t \in Tasks : WF_tokenVars(Progress(t))

-----------------------------------------------------------------------------
\* Type invariant of the provider; a request is under way exactly while the
\* write lock is held.
TokenTypeOK ==
  /\ clock \in 0..MaxClock
  /\ cache \in [id : 0..Len(issued), expires : Nat]
  /\ issued \in Seq([life : Lifetimes, until : Nat, sent : Nat, expires : Nat])
  /\ pc \in [Tasks -> {"idle", "read", "missed", "write", "sent", "issued"} \cup Answered]
  /\ waiting \in Seq([task : Tasks, mode : {"read", "write"}])
  /\ sentAt \in 0..clock
  /\ given \in [Tasks -> [id : 0..Len(issued), at : 0..clock, cached : BOOLEAN]]
  /\ holder = {t \in Tasks : pc[t] \in {"sent", "issued"}}

\* The tasks do not stampede: at most one token request is under way, and one
\* is sent only after the token of the last successful one came within the
\* margin of its expiry.
NoStampede ==
  /\ Cardinality(holder) <= 1
  /\ \A i, k \in DOMAIN issued :
       i < k => issued[i].expires <= issued[k].sent + Margin

\* A token taken from the cache is one the server still accepts: the margin
\* covers the time by which the client's idea of the expiry is late.
CachedTokenAccepted ==
  \A t \in Tasks : given[t].cached => given[t].at < issued[given[t].id].until

\* Every task that asks for a token is answered, also when another task's fetch
\* fails or panics while it holds the write lock.
EveryTaskAnswered == \A t \in Tasks : pc[t] = "read" ~> pc[t] \in Answered
=============================================================================
