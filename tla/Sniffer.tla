------------------------------ MODULE Sniffer -------------------------------
(***************************************************************************)
(* `apisnap sniff` (src/src/ebpf/sniffer.rs): a session takes the request  *)
(* it reads for a captured payload, stores a JSON body with                *)
(* write_snapshot_atomic, counts it, and acknowledges it to the client.    *)
(* The loop ends when it finds enough of them counted.                     *)
(***************************************************************************)
EXTENDS Sessions

CONSTANT MaxPackets   \* args.count
ASSUME SnifferAssumption == MaxPackets \in Nat

VARIABLES count,   \* captured_count
          total    \* what run() has returned; NotReturned before

snifferVars == <<count, total>>
NotReturned == -1

SnifferInit == count = 0 /\ total = NotReturned

\* Mutant: one more is captured.
SniffCheck_OneMore ==
  /\ tool = "sniff" /\ loop = "check"
  /\ \/ count <= MaxPackets /\ loop' = "accept" /\ UNCHANGED total
     \/ count > MaxPackets /\ loop' = "returned" /\ total' = count
  /\ UNCHANGED <<storeVars, tool, stage, answer, sent, write, overlapped, count>>

\* The head of the loop.
SniffCheck ==
  /\ tool = "sniff" /\ loop = "check"
  /\ \/ count < MaxPackets /\ loop' = "accept" /\ UNCHANGED total
     \/ count >= MaxPackets /\ loop' = "returned" /\ total' = count
  /\ UNCHANGED <<storeVars, tool, stage, answer, sent, write, overlapped, count>>

\* A payload without a header or a JSON body is acknowledged and not stored.
SniffReceive(c) == tool = "sniff" /\ Receive(c, {"ack"}, {"record", "ack"}) /\ UNCHANGED snifferVars

\* write_snapshot_atomic, from its beginning.
SniffCreate(c, w) ==
  /\ tool = "sniff" /\ BeginWrite(c, w)
  /\ \/ Create(w) /\ UNCHANGED stage
     \/ Refuse(w) /\ Goto(c, "ack")
  /\ UNCHANGED <<tool, loop, answer, sent, snifferVars>>

\* Mutant: a write that fails is counted too.
SniffStore_CountsAll(c) ==
  LET w == write[c]
  IN  /\ tool = "sniff" /\ At(c, "record") /\ w # NoFile
      /\ \/ (WriteAll(w) \/ Sync(w)) /\ UNCHANGED stage
         \/ (WriteShort(w) \/ Stop(w) \/ Rename(w)) /\ Goto(c, "count")
      /\ UNCHANGED <<tool, loop, answer, sent, write, overlapped, snifferVars>>

\* Its further steps: it ends with an error, or with the rename, which may fail.
SniffStore(c) ==
  LET w == write[c]
  IN  /\ tool = "sniff" /\ At(c, "record") /\ w # NoFile
      /\ \/ (WriteAll(w) \/ Sync(w)) /\ UNCHANGED stage
         \/ /\ WriteShort(w) \/ Stop(w) \/ Rename(w)
            /\ Goto(c, IF pc'[w] = "ok" THEN "count" ELSE "ack")
      /\ UNCHANGED <<tool, loop, answer, sent, write, overlapped, snifferVars>>

\* fetch_add, after the write has succeeded.
SniffCount(c) ==
  /\ tool = "sniff" /\ At(c, "count")
  /\ count' = count + 1
  /\ Goto(c, "ack")
  /\ UNCHANGED <<storeVars, tool, loop, answer, sent, write, overlapped, total>>

\* The reply that every payload gets.
SniffAck(c) ==
  /\ tool = "sniff" /\ Up /\ At(c, "ack")
  /\ Goto(c, "over")
  /\ UNCHANGED <<storeVars, tool, loop, answer, sent, write, overlapped, snifferVars>>

SniffSession(c) ==
  \/ SniffStore(c) \/ SniffCount(c) \/ SniffAck(c)
  \/ \E w \in Writes : SniffCreate(c, w)
=============================================================================
