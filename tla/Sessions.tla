------------------------------ MODULE Sessions ------------------------------
(***************************************************************************)
(* What the three listening commands share: capture (client/               *)
(* proxy_capture.rs), sniff (ebpf/sniffer.rs) and shadow (wasm/            *)
(* shadow_server.rs).  Each accepts connections in a loop, spawns a task   *)
(* for each, and the task reads from its connection ONCE.                  *)
(*                                                                         *)
(* Capture and sniff record into the snapshot files of SnapshotStore; all  *)
(* requests here go to one endpoint name, since different names share no   *)
(* file.  A session records at most once, so that there are as many writes *)
(* as sessions.  Neither command has an encryption key.                    *)
(***************************************************************************)
EXTENDS SnapshotStore

CONSTANTS Tools,      \* the commands: a subset of {"capture", "sniff", "shadow"}
          MaxClients  \* MaxClients[t]: bound on the clients of command t

VARIABLES tool,       \* the command that this process runs
          loop,       \* its accept loop: "accept", "check" (sniff), "returned"
          stage,      \* stage[c]: how far the session of client c has come
          answer,     \* answer[c]: what the upstream (the baseline) answered
          sent,       \* sent[c]: what the reply was that the client got
          write,      \* write[c]: the number of the session's snapshot write
          overlapped  \* history: two snapshot writes were under way at once

sessionVars == <<tool, loop, stage, answer, sent, write, overlapped>>

Clients == 1..MaxWrites
Stages == {"new", "backlog", "open", "request", "relay", "record", "count", "ack", "over"}

\* An answer of an upstream server: with a JSON body or another, and sent with a
\* Content-Length or with Transfer-Encoding: chunked.
Answers == [json : BOOLEAN, chunked : BOOLEAN]
NoAnswer == [json |-> FALSE, chunked |-> FALSE]

\* While the loop runs, the tasks run at their await points too.
Up == loop # "returned"

\* The sniffer looks at its counter before each accept.
LoopStart == IF tool = "sniff" THEN "check" ELSE "accept"

SessionsInit ==
  /\ StoreInit /\ ~key
  /\ tool \in Tools
  /\ loop = LoopStart
  /\ stage = [c \in Clients |-> "new"]
  /\ answer = [c \in Clients |-> NoAnswer]
  /\ sent = [c \in Clients |-> "none"]
  /\ write = [c \in Clients |-> NoFile]
  /\ overlapped = FALSE

At(c, s) == stage[c] = s
Goto(c, s) == stage' = [stage EXCEPT ![c] = s]

\* A client (external) connects; the system queues the connection.
Connect(c) ==
  /\ c <= MaxClients[tool]
  /\ At(c, "new") /\ \A d \in 1..(c - 1) : ~At(d, "new")
  /\ Goto(c, "backlog")
  /\ UNCHANGED <<storeVars, tool, loop, answer, sent, write, overlapped>>

\* accept() gives the oldest connection; a task is spawned for it.  (An error of
\* accept is printed and the loop goes on.)
Accept(c) ==
  /\ loop = "accept"
  /\ At(c, "backlog") /\ \A d \in 1..(c - 1) : ~At(d, "backlog")
  /\ Goto(c, "open")
  /\ loop' = LoopStart
  /\ UNCHANGED <<storeVars, tool, answer, sent, write, overlapped>>

\* The one read of the task: the client has closed or the connection fails; the
\* bytes hold no complete, readable header; or they hold one, with all, a part or
\* nothing of the body.  The task goes on to one of the stages given for each.
Receive(c, noHeader, header) ==
  /\ Up /\ At(c, "open")
  /\ \E s \in {"over"} \cup noHeader \cup header : Goto(c, s)
  /\ UNCHANGED <<storeVars, tool, loop, answer, sent, write, overlapped>>

\* The session's write begins as the next one, whatever else is being written.
BeginWrite(c, w) ==
  /\ At(c, "record") /\ write[c] = NoFile
  /\ MayBegin(w)
  /\ write' = [write EXCEPT ![c] = w]
  /\ overlapped' = (overlapped \/ Active # {})

\* The process ends - by itself or killed, in the middle of whatever its tasks do -
\* and is started again; the clients lose their connections.
RestartSessions ==
  /\ stage' = [c \in Clients |-> IF At(c, "new") THEN "new" ELSE "over"]
  /\ loop' = LoopStart
  /\ pc' = [w \in Writes |-> IF w \in Active THEN "err" ELSE pc[w]]
  /\ UNCHANGED <<entry, disk, content, synced, fd, withKey, key>>
  /\ UNCHANGED <<tool, answer, sent, write, overlapped>>
=============================================================================
