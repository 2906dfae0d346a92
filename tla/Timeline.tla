------------------------------ MODULE Timeline ------------------------------
(***************************************************************************)
(* TimelineStore (src/src/storage/timeline.rs): the `<endpoint>.jsonl`     *)
(* ledger of one endpoint.  record_observation reads the newest commit to  *)
(* name it as the parent, and appends the new commit: two steps that no    *)
(* lock joins.  The append itself is two writes, because                   *)
(* `writeln!(file, "{json_line}")` on an unbuffered File writes the text   *)
(* and the newline separately.                                             *)
(*                                                                         *)
(* The file is the sequence of its lines; the last one is what follows the *)
(* last newline.  A line is the sequence of the pieces appended to it, and *)
(* is a commit only when it is exactly one whole commit.  The endpoint's    *)
(* name may hold characters of several bytes: a text that is cut inside    *)
(* one leaves a file that cannot be read as text, then or ever after.      *)
(***************************************************************************)
EXTENDS Integers, Sequences, FiniteSets, SequencesExt

CONSTANTS Recorders,    \* processes that record observations
          MaxRecorders, \* how many of them may be at work at once
          MaxCommits,   \* bound on the number of commits
          Roots,        \* root hashes of the responses observed
          MaxCuts       \* bound on the appends cut short by a crash or a full disk

ASSUME TimelineAssumption ==
  /\ IsFiniteSet(Recorders)
  /\ MaxRecorders \in Nat
  /\ MaxCommits \in Nat
  /\ MaxCuts \in Nat

NoCommit == 0
Fragment == -1
Commits == 1..MaxCommits

VARIABLES lines,   \* the file
          broken,  \* it is no text
          made,    \* the commits built so far, in the order of their numbers
          acknowledged,\* history: commits whose record_observation returned Ok
          stage,   \* stage[p]: "idle", "read" or "text"
          parent,  \* parent[p]: the newest commit p has read
          building,\* building[p]: the commit p is appending
          cuts     \* history: how many appends were cut short

timelineVars == <<lines, broken, made, acknowledged, stage, parent, building, cuts>>

Working == {p \in Recorders : stage[p] # "idle"}

-----------------------------------------------------------------------------
(* get_timeline *)

IsCommit(line) == Len(line) = 1 /\ line[1] # Fragment

\* ReadIn(file)[n]: the commits on the first n lines, newest first; other lines
\* are skipped.
ReadIn(file) ==
  LET upTo[n \in 0..Len(file)] ==
        IF n = 0 THEN <<>>
        ELSE IF IsCommit(file[n]) THEN <<file[n][1]>> \o upTo[n - 1]
        ELSE upTo[n - 1]
  IN  upTo

\* The commits that stand whole on a line, newest first.
Standing == ReadIn(lines)[Len(lines)]

\* Every commit that can be read: read_to_string fails for a file that is no text.
Readable == IF broken THEN <<>> ELSE Standing

\* Mutant: the lines are read in file order.
GetTimeline_FileOrder(limit) ==
  SubSeq(Reverse(Readable), 1, IF limit < Len(Readable) THEN limit ELSE Len(Readable))

\* The limit is compared after a commit is pushed, so that 0 yields one as well.
GetTimeline(limit) ==
  LET most == IF limit = 0 THEN 1 ELSE limit
  IN  SubSeq(Readable, 1, IF most < Len(Readable) THEN most ELSE Len(Readable))

-----------------------------------------------------------------------------
TimelineInit ==
  /\ lines = << <<>> >>
  /\ broken = FALSE
  /\ made = <<>>
  /\ acknowledged = <<>>
  /\ stage = [p \in Recorders |-> "idle"]
  /\ parent = [p \in Recorders |-> NoCommit]
  /\ building = [p \in Recorders |-> NoCommit]
  /\ cuts = 0

\* record_observation starts: `self.get_timeline(endpoint_name, 1)?.first()`.  It
\* ends here, with the error, when the file cannot be read.
ReadParent(p) ==
  /\ stage[p] = "idle" /\ ~broken
  /\ Cardinality(Working) < MaxRecorders
  /\ parent' = [parent EXCEPT ![p] = IF GetTimeline(1) = <<>>
                                       THEN NoCommit ELSE GetTimeline(1)[1]]
  /\ stage' = [stage EXCEPT ![p] = "read"]
  /\ UNCHANGED <<lines, broken, made, acknowledged, building, cuts>>

\* Mutant: the delta is taken against the first observation.
Delta_First(p, r, compared) == compared /\ parent[p] # NoCommit /\ made[1].root # r

\* The delta against the parent: the numbers of added, removed and retyped
\* fields are zero exactly when the bodies have one shape; one flag stands for
\* them, and roots that differ stand for bodies of different shapes.  When a body
\* cannot be reconstructed - an object of it was lost - it stays empty.
Delta(p, r, compared) == compared /\ parent[p] # NoCommit /\ made[parent[p]].root # r

\* The commit is built and its text is appended at the end of the file.  Whether
\* the object store (external here) had both bodies is kept with the commit, for
\* the properties alone.
AppendText(p, r) ==
  LET c == Len(made) + 1
  IN  /\ stage[p] = "read"
      /\ c <= MaxCommits
      /\ \E compared \in BOOLEAN :
           made' = Append(made, [parent |-> parent[p], root |-> r, compared |-> compared,
                                 changed |-> Delta(p, r, compared)])
      /\ lines' = [lines EXCEPT ![Len(lines)] = Append(@, c)]
      /\ building' = [building EXCEPT ![p] = c]
      /\ stage' = [stage EXCEPT ![p] = "text"]
      /\ UNCHANGED <<broken, acknowledged, parent, cuts>>

\* Mutant: write! in place of writeln!.
AppendNewline_Omitted(p) ==
  /\ stage[p] = "text"
  /\ acknowledged' = Append(acknowledged, building[p])
  /\ stage' = [stage EXCEPT ![p] = "idle"]
  /\ UNCHANGED <<lines, broken, made, parent, building, cuts>>

\* The newline follows and record_observation returns Ok.
AppendNewline(p) ==
  /\ stage[p] = "text"
  /\ lines' = Append(lines, <<>>)
  /\ acknowledged' = Append(acknowledged, building[p])
  /\ stage' = [stage EXCEPT ![p] = "idle"]
  /\ UNCHANGED <<broken, made, parent, building, cuts>>

\* Only a part of the text reaches the file, which may end inside a character, or
\* the text without its newline.
AppendCut(p) ==
  /\ cuts < MaxCuts
  /\ \/ /\ stage[p] = "read"
        /\ lines' = [lines EXCEPT ![Len(lines)] = Append(@, Fragment)]
        /\ broken' \in {broken, TRUE}
     \/ /\ stage[p] = "text"
        /\ UNCHANGED <<lines, broken>>
  /\ cuts' = cuts + 1
  /\ stage' = [stage EXCEPT ![p] = "idle"]
  /\ UNCHANGED <<made, acknowledged, parent, building>>

\* An error or the end of the process before anything is appended.
Stop(p) ==
  /\ stage[p] = "read"
  /\ stage' = [stage EXCEPT ![p] = "idle"]
  /\ UNCHANGED <<lines, broken, made, acknowledged, parent, building, cuts>>

TimelineNext ==
  \/ \E p \in Recorders : ReadParent(p)
  \/ \E p \in Recorders, r \in Roots : AppendText(p, r)
  \/ \E p \in Recorders : AppendNewline(p)
  \/ \E p \in Recorders : AppendCut(p)
  \/ \E p \in Recorders : Stop(p)

TimelineSpec == TimelineInit /\ [][TimelineNext]_timelineVars

-----------------------------------------------------------------------------
\* ROADMAP.md:91, "not a forking DAG, strictly linear per endpoint": following
\* the parents from the newest commit passes every commit of the file, in order.
LinearChain ==
  \A i \in DOMAIN Readable :
    made[Readable[i]].parent = IF i < Len(Readable) THEN Readable[i + 1] ELSE NoCommit

\* `timeline show --limit k`: between two recordings, and as long as no append was
\* cut short, the k latest acknowledged observations, newest first, none skipped
\* and none twice.
ShowsRecent ==
  (Working = {} /\ cuts = 0) =>
    \A k \in 1..MaxCommits :
      GetTimeline(k) =
        SubSeq(Reverse(acknowledged), 1, IF k < Len(acknowledged) THEN k ELSE Len(acknowledged))

\* The audit log tells of every change: a commit's delta is empty exactly when
\* the observation before it in the log had the same shape - or when one of the two
\* bodies could not be reconstructed to compare them, which the log does not tell.
DeltasTellChanges ==
  \A i \in 1..(Len(Readable) - 1) :
    LET this == made[Readable[i]]
    IN  this.changed <=> this.compared /\ this.root # made[Readable[i + 1]].root

\* What is lost is bounded: as long as the file is text, each append cut short makes
\* at most one later, acknowledged commit unreadable, the one whose text lands on its
\* line.
LossBounded == ~broken => Cardinality(ToSet(acknowledged) \ ToSet(Readable)) <= cuts

\* README.md:42, "append-only historical audit log": a commit that was
\* acknowledged can be read for ever after.  Violated behind an append that was
\* cut short, even if that left the file readable as text.
AckedReadable == ~broken => ToSet(acknowledged) \subseteq ToSet(Readable)
=============================================================================
