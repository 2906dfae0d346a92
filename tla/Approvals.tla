----------------------------- MODULE Approvals -----------------------------
(***************************************************************************)
(* ApprovalLedger (src/src/snapshot/approvals.rs): `.approved_diffs.json`. *)
(* A process loads the whole ledger, changes its copy and saves the whole  *)
(* copy with fs::write, which truncates the file and then writes it: there *)
(* is no temporary file, no rename and no lock.  approve-diff fails on a   *)
(* file it cannot parse (test takes such a file for an empty ledger: see   *)
(* Suite for what a test does with the ledger it loads).                   *)
(***************************************************************************)
EXTENDS Naturals, Sequences, FiniteSets

CONSTANTS Editors,     \* processes that change the ledger
          MaxEditors,  \* how many of them may be at work at once
          Endpoints,   \* endpoint names: the keys of the ledger
          MaxCrashes   \* bound on crashes and failed writes

ASSUME ApprovalsAssumption == MaxEditors \in Nat /\ MaxCrashes \in Nat

VARIABLES file,    \* the file: absent, torn, or a ledger with the names it holds
          pc,      \* pc[p]: "idle", "loaded" or "truncated"
          copy,    \* copy[p]: the ledger p has in memory
          change,  \* change[p]: what p is about: <<"approve" or "consume", name>>
          owed,    \* history: the approvals that were given and not consumed
          crashes  \* the bounded counter

ledgerVars == <<file, pc, copy, change, owed, crashes>>

NoFile == [is |-> "absent", names |-> {}]
Torn == [is |-> "torn", names |-> {}]
Ledger(names) == [is |-> "ledger", names |-> names]

Working == {p \in Editors : pc[p] # "idle"}

\* Mutant: a file that does not parse is taken for an empty ledger.
Loads_Leniently == TRUE

\* load_from_dir succeeds.
Loads == file # Torn

\* What load_from_dir returns: nothing approved when the file does not exist.
Loaded == file.names

-----------------------------------------------------------------------------
LedgerInit ==
  /\ file = NoFile
  /\ pc = [p \in Editors |-> "idle"]
  /\ copy = [p \in Editors |-> {}]
  /\ change \in [Editors -> {"approve", "consume"} \X Endpoints]
  /\ owed = {}
  /\ crashes = 0

\* The command loads the ledger; when that fails nothing else happens.
Load(p, what, e) ==
  /\ pc[p] = "idle"
  /\ Cardinality(Working) < MaxEditors
  /\ Loads
  /\ what = "consume" => e \in Loaded
  /\ copy' = [copy EXCEPT ![p] = IF what = "approve" THEN Loaded \cup {e}
                                                      ELSE Loaded \ {e}]
  /\ change' = [change EXCEPT ![p] = <<what, e>>]
  /\ pc' = [pc EXCEPT ![p] = "loaded"]
  /\ UNCHANGED <<file, owed, crashes>>

\* save: fs::write opens the file and truncates it.
Truncate(p) ==
  /\ pc[p] = "loaded"
  /\ file' = Torn
  /\ pc' = [pc EXCEPT ![p] = "truncated"]
  /\ UNCHANGED <<copy, change, owed, crashes>>

\* save: the whole copy is written and the command succeeds.
Store(p) ==
  /\ pc[p] = "truncated"
  /\ file' = Ledger(copy[p])
  /\ owed' = IF change[p][1] = "approve" THEN owed \cup {change[p][2]}
                                         ELSE owed \ {change[p][2]}
  /\ pc' = [pc EXCEPT ![p] = "idle"]
  /\ UNCHANGED <<copy, change, crashes>>

\* The process ends, or a file operation fails, wherever it is.  (A consumption
\* ignores the error: it has returned the approval, and the file may keep it.)
Fail(p) ==
  /\ crashes < MaxCrashes
  /\ pc[p] # "idle"
  /\ pc' = [pc EXCEPT ![p] = "idle"]
  /\ owed' = IF change[p][1] = "consume" THEN owed \ {change[p][2]} ELSE owed
  /\ crashes' = crashes + 1
  /\ UNCHANGED <<file, copy, change>>

\* Someone removes a ledger that no longer parses; the approvals are void.
Repair ==
  /\ file = Torn /\ Working = {}
  /\ file' = NoFile
  /\ owed' = {}
  /\ UNCHANGED <<pc, copy, change, crashes>>

LedgerNext ==
  \/ \E p \in Editors, what \in {"approve", "consume"}, e \in Endpoints :
       Load(p, what, e)
  \/ \E p \in Editors : Truncate(p)
  \/ \E p \in Editors : Store(p)
  \/ \E p \in Editors : Fail(p)
  \/ Repair

LedgerSpec == LedgerInit /\ [][LedgerNext]_ledgerVars

-----------------------------------------------------------------------------
\* Type invariant of the ledger; a lone editor has it torn while it writes.
LedgerTypeOK ==
  /\ file \in {NoFile, Torn} \cup {Ledger(s) : s \in SUBSET Endpoints}
  /\ pc \in [Editors -> {"idle", "loaded", "truncated"}]
  /\ copy \in [Editors -> SUBSET Endpoints]
  /\ change \in [Editors -> {"approve", "consume"} \X Endpoints]
  /\ owed \subseteq Endpoints
  /\ (\E p \in Editors : pc[p] = "truncated") /\ MaxEditors = 1 => file = Torn

\* An approval that was given is not lost silently: as long as the ledger can be
\* read it holds every approval given and not consumed, whatever crashed before.
NoSilentLoss == file # Torn => owed \subseteq Loaded
=============================================================================
