---------------------------- MODULE ShadowProxy -----------------------------
(***************************************************************************)
(* `apisnap shadow` (src/src/wasm/shadow_server.rs): a session sends its   *)
(* request to the baseline and to the candidate, waits for both, compares  *)
(* the answers and relays the baseline's.  (What the comparison finds is   *)
(* printed; Engine models it.)                                             *)
(***************************************************************************)
EXTENDS Sessions

Sides == {"baseline", "candidate"}

VARIABLE upstream   \* upstream[c][side]: "pending", "answered" or "failed"

ShadowInit == upstream = [c \in Clients |-> [side \in Sides |-> "pending"]]

\* An incomplete header is taken as it is, unless its first line is of no use.
ShadowReceive(c) ==
  tool = "shadow" /\ Receive(c, {"over", "request"}, {"request"}) /\ UNCHANGED upstream

\* One of the two requests ends: within 30 seconds, with an answer and its body or
\* with an error.
ShadowUpstream(c, side) ==
  /\ tool = "shadow" /\ Up /\ At(c, "request")
  /\ upstream[c][side] = "pending"
  /\ \E outcome \in {"answered", "failed"} :
       upstream' = [upstream EXCEPT ![c][side] = outcome]
  /\ UNCHANGED <<storeVars, sessionVars>>

\* join! has both.  An error of EITHER ends the session without an answer.
ShadowJoin(c) ==
  /\ tool = "shadow" /\ Up /\ At(c, "request")
  /\ \A side \in Sides : upstream[c][side] # "pending"
  /\ Goto(c, IF \A side \in Sides : upstream[c][side] = "answered" THEN "relay" ELSE "over")
  /\ UNCHANGED <<storeVars, tool, loop, answer, sent, write, overlapped, upstream>>

\* The baseline's answer, with a Content-Length in place of Transfer-Encoding.
ShadowRelay(c) ==
  /\ tool = "shadow" /\ Up /\ At(c, "relay")
  /\ sent' = [sent EXCEPT ![c] = "answer"]
  /\ Goto(c, "over")
  /\ UNCHANGED <<storeVars, tool, loop, answer, write, overlapped, upstream>>

ShadowSession(c) ==
  \/ \E side \in Sides : ShadowUpstream(c, side)
  \/ ShadowJoin(c) \/ ShadowRelay(c)
=============================================================================
