----------------------------- MODULE Listeners ------------------------------
(***************************************************************************)
(* A process that runs one of the listening commands (handle_capture,      *)
(* handle_sniff, handle_shadow in src/src/cli/commands.rs) before clients  *)
(* that connect, send or keep silent, and leave when they like.            *)
(***************************************************************************)
EXTENDS CaptureProxy, Sniffer, ShadowProxy

CONSTANT MaxRestarts   \* MaxRestarts[t]: bound on the restarts of command t
ASSUME ListenersAssumption == MaxRestarts \in [Tools -> Nat]

VARIABLE restarts

listenerVars == <<storeVars, sessionVars, snifferVars, upstream, restarts>>

ListenersInit == SessionsInit /\ SnifferInit /\ ShadowInit /\ restarts = 0

Restart ==
  /\ restarts < MaxRestarts[tool]
  /\ restarts' = restarts + 1
  /\ RestartSessions
  /\ count' = 0 /\ total' = NotReturned
  /\ UNCHANGED upstream

\* The commands' steps, with what the others keep.
Capturing(c) == CaptureSession(c) /\ UNCHANGED <<snifferVars, upstream, restarts>>
Sniffing(c) == SniffSession(c) /\ UNCHANGED <<upstream, restarts>>
Shadowing(c) == ShadowSession(c) /\ UNCHANGED <<snifferVars, restarts>>
SessionStep(c) == Capturing(c) \/ Sniffing(c) \/ Shadowing(c)

Receiving(c) ==
  \/ CaptureReceive(c) /\ UNCHANGED <<snifferVars, upstream, restarts>>
  \/ SniffReceive(c) /\ UNCHANGED <<upstream, restarts>>
  \/ ShadowReceive(c) /\ UNCHANGED <<snifferVars, restarts>>

LoopStep ==
  \/ \E c \in Clients : Accept(c) /\ UNCHANGED <<snifferVars, upstream, restarts>>
  \/ SniffCheck /\ UNCHANGED <<upstream, restarts>>

ListenersNext ==
  \/ \E c \in Clients : Connect(c) /\ UNCHANGED <<snifferVars, upstream, restarts>>
  \/ LoopStep
  \/ \E c \in Clients : Receiving(c) \/ SessionStep(c)
  \/ CtrlC /\ UNCHANGED <<snifferVars, upstream, restarts>>
  \/ Restart

\* The session writes to its client.
Replying(c) == At(c, "relay") \/ At(c, "ack")

\* Mutant: requests to an upstream have no timeout.
ListenersFairness_NoTimeout ==
  /\ WF_listenerVars(LoopStep)
  /\ \A c \in Clients : WF_listenerVars(SessionStep(c) /\ ~Replying(c) /\ ~At(c, "request"))

\* The runtime runs a task that can go on, and the HTTP client's timeout of 30
\* seconds ends a request that is not answered.  Nothing makes a client connect,
\* send or read: write_all has no timeout, and waits for one that does not read.
ListenersFairness ==
  /\ WF_listenerVars(LoopStep)
  /\ \A c \in Clients : WF_listenerVars(SessionStep(c) /\ ~Replying(c))

ListenersSpec == ListenersInit /\ [][ListenersNext]_listenerVars /\ ListenersFairness

-----------------------------------------------------------------------------
Created == {w \in Writes : fd[w] # NoFile}
Newest == LET ok == {w \in Writes : pc[w] = "ok"} IN IF ok = {} THEN NoFile ELSE Max(ok)

\* As long as no two sessions write at once, the snapshot that a test would read is
\* the newest that was recorded, across failed writes, kills and restarts.  Left out:
\* a capture that writes, or was stopped writing, has destroyed the one before.
NewestKept ==
  ~overlapped =>
    \/ ReadSnapshot(FALSE) = Newest
    \/ tool = "capture" /\ \E w \in Created : w > Newest

\* "Captured {n} live TCP/HTTP session(s)" (commands.rs:916): as many as asked for,
\* each of them stored; sessions that were already accepted may add to the number.
CountHonest ==
  tool = "sniff" =>
    /\ count <= Cardinality({w \in Writes : pc[w] = "ok"})
    /\ loop = "returned" => MaxPackets <= total /\ total <= count

\* Once enough is captured, the next client that connects makes the sniffer return.
SnifferStops ==
  (tool = "sniff" /\ count >= MaxPackets /\ \E c \in Clients : At(c, "backlog"))
    ~> (loop = "returned" \/ count < MaxPackets)

\* A session whose request has been read comes to its end while the command runs,
\* whatever the upstreams and the other sessions do, unless its own client keeps it
\* at its reply for ever.
SessionsEnd ==
  \A c \in Clients :
    At(c, "request") \/ At(c, "record") \/ Replying(c)
      ~> At(c, "over") \/ ~Up \/ []Replying(c)

=============================================================================
