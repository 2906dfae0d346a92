--------------------------- MODULE BranchPointers ---------------------------
(***************************************************************************)
(* Branch pointers (src/src/storage/pointer.rs) over the content-addressed *)
(* store: a pointer file names the root of an endpoint's body on a branch, *)
(* and `test --baseline-branch A --candidate-branch B` compares what the   *)
(* pointers of two branches lead to.  Pointers are saved by fs::write, in  *)
(* place.  No command of the repository saves them; its test saves one for *)
(* the root that ingest returned, and so does the caller here.             *)
(***************************************************************************)
EXTENDS MerkleCas

CONSTANTS Branches, Endpoints, Statuses,
          Agree,     \* the <<e, m, n>> such that compare_json_ast finds no difference
                     \* between the bodies m and n under the options of endpoint e
          MaxSaves   \* bound on the saves

ASSUME PointersAssumption ==
  /\ Agree \subseteq Endpoints \X Nodes \X Nodes
  /\ MaxSaves \in Nat

VARIABLES pointer,  \* pointer[b, e]: the pointer file
          saving,   \* saving[w]: the save that the writer is in, or Idle
          saves,    \* the bounded counter
          kept      \* history: the pointers whose saves returned; Unsure when cut short or lost

pointerVars == <<pointer, saving, saves, kept>>

NoFile == [file |-> "none"]
Torn == [file |-> "torn"]
Idle == [save |-> "idle"]
Unsure == [save |-> "unsure"]
Places == Branches \X Endpoints
Pointer(root, status) == [root |-> root, status |-> status]

PointersInit ==
  /\ CasInit
  /\ pointer = [p \in Places |-> NoFile]
  /\ saving = [w \in Writers |-> Idle]
  /\ saves = 0
  /\ kept = [p \in Places |-> NoFile]

\* Mutant: the pointer is saved before the objects.
BeginSave_Early(w, place, status) ==
  \E root \in Nodes :
    /\ saving[w] = Idle /\ pc[w] = "idle" /\ saves < MaxSaves
    /\ saves' = saves + 1
    /\ saving' = [saving EXCEPT ![w] = [place |-> place, new |-> Pointer(root, status)]]
    /\ pointer' = [pointer EXCEPT ![place] = Torn]
    /\ kept' = [kept EXCEPT ![place] = Unsure]
    /\ UNCHANGED casVars

\* save of a pointer to a root that was returned: the file is created or truncated.
BeginSave(w, place, status) ==
  \E root \in acked :
    /\ saving[w] = Idle /\ pc[w] = "idle" /\ saves < MaxSaves
    /\ saves' = saves + 1
    /\ saving' = [saving EXCEPT ![w] = [place |-> place, new |-> Pointer(root, status)]]
    /\ pointer' = [pointer EXCEPT ![place] = Torn]
    /\ kept' = [kept EXCEPT ![place] = Unsure]
    /\ UNCHANGED casVars

\* Its bytes are written, or that fails and the file stays cut short.
EndSave(w) ==
  /\ saving[w] # Idle
  /\ \/ LET s == saving[w] IN
        /\ pointer' = [pointer EXCEPT ![s.place] = s.new]
        /\ kept' = [kept EXCEPT ![s.place] = s.new]
     \/ UNCHANGED <<pointer, kept>>
  /\ saving' = [saving EXCEPT ![w] = Idle]
  /\ UNCHANGED <<casVars, saves>>

\* The steps of the store; a writer in a save begins no ingest.
StoreStep ==
  /\ \/ \E w \in Writers, root \in Nodes : saving[w] = Idle /\ Ingest(w, root)
     \/ \E w \in Writers : Skip(w) \/ Miss(w) \/ Open(w) \/ Write(w) \/ Rename(w)
  /\ UNCHANGED pointerVars

CrashStep(w) ==
  /\ Crash(w)
  /\ saving' = [saving EXCEPT ![w] = Idle]
  /\ UNCHANGED <<pointer, saves, kept>>

PowerStep ==
  /\ PowerLoss
  /\ saving' = [w \in Writers |-> Idle]
  /\ \E lost \in SUBSET {p \in Places : pointer[p] # NoFile} : \E gone \in SUBSET lost :
       /\ pointer' = [p \in Places |-> CASE p \in gone -> NoFile
                                          [] p \in lost \ gone -> Torn
                                          [] OTHER -> pointer[p]]
       /\ kept' = [p \in Places |-> IF p \in lost THEN Unsure ELSE kept[p]]
  /\ UNCHANGED saves

PointersNext ==
  \/ StoreStep \/ PowerStep
  \/ \E w \in Writers : CrashStep(w) \/ EndSave(w)
  \/ \E w \in Writers, place \in Places, status \in Statuses : BeginSave(w, place, status)

PointersSpec == PointersInit /\ [][PointersNext]_<<casVars, pointerVars>>

\* DiffReport::passed.  The bodies are put together from the roots and compared with
\* the endpoint's tolerance, array modes and depth: different roots may agree.
Passed(e, old, new) == <<e, old.root, new.root>> \in Agree /\ old.status = new.status

\* handle_test_branch_pointers: an endpoint without one of the pointers is passed
\* over; a pointer that cannot be read, or a body that cannot be put together, ends it.
TestBranches(base, cand) ==
  LET compared == {e \in Endpoints : pointer[base, e] # NoFile /\ pointer[cand, e] # NoFile}
      Readable(p) == p # Torn /\ Reconstructs(p.root)
  IN  IF \A e \in compared : Readable(pointer[base, e]) /\ Readable(pointer[cand, e])
      THEN {e \in compared : ~Passed(e, pointer[base, e], pointer[cand, e])}
      ELSE {"error"}

-----------------------------------------------------------------------------
\* pointer.rs:72, "Reconstruct the full SnapshotFile AST from the CAS store using this
\* pointer": whatever the writers are doing, and after crashes, branches whose pointers
\* were saved compare without an error, and exactly the endpoints fail that were saved
\* on both with another status, or with bodies between which the comparison finds a
\* difference.  Left out: saves that were cut short, which end the test in an error, and
\* power losses.
BranchVerdict ==
  losses = 0 => \A base, cand \in Branches :
    (\A e \in Endpoints : Unsure \notin {kept[base, e], kept[cand, e]}) =>
      TestBranches(base, cand) =
        {e \in Endpoints :
           /\ NoFile \notin {kept[base, e], kept[cand, e]}
           /\ \/ kept[base, e].status # kept[cand, e].status
              \/ <<e, kept[base, e].root, kept[cand, e].root>> \notin Agree}
=============================================================================
