---------------------------- MODULE CaptureProxy ----------------------------
(***************************************************************************)
(* `apisnap capture` (src/src/client/proxy_capture.rs): a session forwards *)
(* its request, relays the answer, and then, if the body is JSON, writes   *)
(* the masked body to the snapshot file with fs::write: in place, without  *)
(* the temporary file and the sync of write_snapshot_atomic.               *)
(***************************************************************************)
EXTENDS Sessions

\* An incomplete header ends the session without an answer.
CaptureReceive(c) == tool = "capture" /\ Receive(c, {"over"}, {"request"})

\* The upstream answers within the client's 30 seconds; or it does not, and the
\* client gets a 502; or its body is cut short, and the client gets nothing.
CaptureForward(c) ==
  /\ tool = "capture" /\ Up /\ At(c, "request")
  /\ \/ \E a \in Answers :
          /\ answer' = [answer EXCEPT ![c] = a]
          /\ Goto(c, "relay")
          /\ UNCHANGED sent
     \/ /\ \E reply \in {"none", "bad gateway"} : sent' = [sent EXCEPT ![c] = reply]
        /\ Goto(c, "over")
        /\ UNCHANGED answer
  /\ UNCHANGED <<storeVars, tool, loop, write, overlapped>>

\* What a client makes of the header and the body: the header is the upstream's,
\* Transfer-Encoding included, the body is already decoded.
Relayed(a) == IF a.chunked THEN "garbled" ELSE "answer"

\* The answer is written to the client; an error of that is ignored.
CaptureRelay(c) ==
  /\ tool = "capture" /\ Up /\ At(c, "relay")
  /\ sent' = [sent EXCEPT ![c] = Relayed(answer[c])]
  /\ answer' = [answer EXCEPT ![c] = NoAnswer]
  /\ Goto(c, IF answer[c].json THEN "record" ELSE "over")
  /\ UNCHANGED <<storeVars, tool, loop, write, overlapped>>

\* Mutant: the file is opened without being truncated.
CaptureCreate_NotTruncating(c, w) ==
  LET i == IF entry["json"] = NoFile THEN w ELSE entry["json"]
  IN  /\ tool = "capture" /\ BeginWrite(c, w)
      /\ entry' = [entry EXCEPT !["json"] = i]
      /\ fd' = [fd EXCEPT ![w] = i]
      /\ pc' = [pc EXCEPT ![w] = "open"]
      /\ UNCHANGED <<disk, content, synced, withKey, key, tool, loop, stage, answer, sent>>

\* fs::write opens the snapshot file itself and truncates it.
CaptureCreate(c, w) ==
  LET i == IF entry["json"] = NoFile THEN w ELSE entry["json"]
  IN  /\ tool = "capture" /\ BeginWrite(c, w)
      /\ entry' = [entry EXCEPT !["json"] = i]
      /\ content' = [content EXCEPT ![i] = <<>>]
      /\ synced' = synced \ {i}
      /\ fd' = [fd EXCEPT ![w] = i]
      /\ pc' = [pc EXCEPT ![w] = "open"]
      /\ UNCHANGED <<disk, withKey, key, tool, loop, stage, answer, sent>>

\* It cannot be opened; the error is ignored.
CaptureCannot(c, w) ==
  /\ tool = "capture" /\ BeginWrite(c, w) /\ Refuse(w)
  /\ Goto(c, "over")
  /\ UNCHANGED <<tool, loop, answer, sent>>

\* fs::write writes the text, or a part of it and its error is ignored.
CaptureWrite(c) ==
  LET w == write[c]
  IN  /\ tool = "capture" /\ At(c, "record") /\ w # NoFile
      /\ \/ /\ content' = [content EXCEPT ![fd[w]] = Overlay(Payload(w, FALSE), @)]
            /\ pc' = [pc EXCEPT ![w] = "ok"]
            /\ UNCHANGED <<entry, disk, synced, fd, withKey, key>>
         \/ WriteShort(w)
      /\ Goto(c, "over")
      /\ UNCHANGED <<tool, loop, answer, sent, write, overlapped>>

\* Ctrl-C ends the loop; tasks that are not at an await point finish what they do.
CtrlC ==
  /\ tool = "capture" /\ Up
  /\ loop' = "returned"
  /\ UNCHANGED <<storeVars, tool, stage, answer, sent, write, overlapped>>

CaptureSession(c) ==
  \/ CaptureForward(c) \/ CaptureRelay(c) \/ CaptureWrite(c)
  \/ \E w \in Writes : CaptureCreate(c, w) \/ CaptureCannot(c, w)
=============================================================================
