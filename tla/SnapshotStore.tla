---------------------------- MODULE SnapshotStore ---------------------------
(***************************************************************************)
(* SnapshotStore (src/src/snapshot/snapshot.rs): the files that hold the   *)
(* snapshot of ONE sanitised endpoint name.  Different names share no      *)
(* file, so one name is enough.                                            *)
(*                                                                         *)
(* A snapshot lives in `x.snap.json`, or in `x.snap.enc` when the process  *)
(* has an encryption key; both are written through the same temporary file *)
(* `x.snap.tmp` (with_extension replaces the last extension).  Files are   *)
(* directory entries that name inodes, because the temporary file of a     *)
(* writer can be truncated, overwritten or renamed by another writer that  *)
(* has opened the same path.  The directory as it is on the disk is kept   *)
(* beside the one the processes see: the code syncs its files and never    *)
(* their directory, so that a power loss can undo a rename.                *)
(*                                                                         *)
(* Writes are numbered 1, 2, .. in the order they begin; the number is the *)
(* version written and also names the inode the write creates, if any.     *)
(***************************************************************************)
EXTENDS Integers, Sequences, FiniteSets, FiniteSetsExt

CONSTANTS MaxWrites,     \* bound on the number of writes
          MaxWriters,    \* how many writes can be under way at once
          Size,          \* Size[w]: length of the serialised version w
          KeyMayChange   \* APISNAP_MASTER_KEY may be set or unset between runs

ASSUME StoreAssumption ==
  /\ MaxWrites \in Nat
  /\ MaxWriters \in Nat \ {0}
  /\ Size \in [1..MaxWrites -> Nat \ {0}]
  /\ KeyMayChange \in BOOLEAN

Writes == 1..MaxWrites
Finals == {"json", "enc"}
Names == Finals \cup {"tmp"}
NoFile == 0

VARIABLES entry,    \* entry[n]: the inode the name refers to, or NoFile
          disk,     \* disk[n]: the same in the directory that is on the disk
          content,  \* content[i]: the cells inode i holds
          synced,   \* inodes whose content has reached the disk
          pc,       \* pc[w]: how far write w has come
          fd,       \* fd[w]: the inode write w has open
          withKey,  \* withKey[w]: the process of write w has an encryptor
          key       \* the environment has APISNAP_MASTER_KEY

storeVars == <<entry, disk, content, synced, pc, fd, withKey, key>>

Cell == [ver : Writes, enc : BOOLEAN]

\* The bytes of version w: JSON text, or its ciphertext.
Payload(w, enc) == [i \in 1..Size[w] |-> [ver |-> w, enc |-> enc]]

\* write_all at offset 0 of an inode: the tail of a longer old content stays.
Overlay(new, old) == new \o SubSeq(old, Len(new) + 1, Len(old))

\* How far a write comes.  "ok" is one that was acknowledged, "durable" one whose
\* rename is on the disk too, and "undone" one that a power loss has taken back.
Progress == {"new", "open", "written", "synced", "ok", "durable", "undone", "err"}

Active == {w \in Writes : pc[w] \in {"open", "written", "synced"}}
Kept == {w \in Writes : pc[w] \in {"ok", "durable"}}

\* Mutant: the key does not decide the file name.
FinalOf_Plain(w) == "json"

\* snapshot_path: the key of the writing process decides the file name.
FinalOf(w) == IF withKey[w] THEN "enc" ELSE "json"

-----------------------------------------------------------------------------
(* read_snapshot *)

\* The version whose whole payload inode i holds, in the format expected, or
\* NoFile when it does not decrypt or parse.
Parsed(i, enc) ==
  IF \E w \in Writes : content[i] = Payload(w, enc)
    THEN CHOOSE w \in Writes : content[i] = Payload(w, enc)
    ELSE NoFile

\* The encrypted file is preferred whenever it exists, and needs a key.
ReadSnapshot(hasKey) ==
  IF entry["enc"] # NoFile
    THEN IF hasKey THEN Parsed(entry["enc"], TRUE) ELSE NoFile
    ELSE IF entry["json"] # NoFile THEN Parsed(entry["json"], FALSE) ELSE NoFile

-----------------------------------------------------------------------------
StoreInit ==
  /\ entry = [n \in Names |-> NoFile]
  /\ disk = entry
  /\ content = [i \in Writes |-> <<>>]
  /\ synced = {}
  /\ pc = [w \in Writes |-> "new"]
  /\ fd = [w \in Writes |-> NoFile]
  /\ withKey = [w \in Writes |-> FALSE]
  /\ key \in BOOLEAN

\* The next write may begin: the writers under way are fewer than MaxWriters.
MayBegin(w) ==
  /\ pc[w] = "new"
  /\ \A v \in 1..(w - 1) : pc[v] # "new"
  /\ Cardinality(Active) < MaxWriters

\* The secret scan, create_dir_all, the CAS ingestion or the serialisation
\* fails: write_snapshot_atomic returns before it touches a file.
Refuse(w) ==
  /\ MayBegin(w)
  /\ pc' = [pc EXCEPT ![w] = "err"]
  /\ UNCHANGED <<entry, disk, content, synced, fd, withKey, key>>

\* Mutant: the final file is created, written and synced in place.
Create_InPlace(w) ==
  LET n == IF key THEN "enc" ELSE "json"
      i == IF entry[n] = NoFile THEN w ELSE entry[n]
  IN  /\ MayBegin(w)
      /\ entry' = [entry EXCEPT ![n] = i]
      /\ content' = [content EXCEPT ![i] = <<>>]
      /\ synced' = synced \ {i}
      /\ fd' = [fd EXCEPT ![w] = i]
      /\ withKey' = [withKey EXCEPT ![w] = key]
      /\ pc' = [pc EXCEPT ![w] = "open"]
      /\ UNCHANGED <<disk, key>>

\* File::create(tmp_path): opens and truncates the inode the name refers to, or
\* creates one.
Create(w) ==
  LET i == IF entry["tmp"] = NoFile THEN w ELSE entry["tmp"]
  IN  /\ MayBegin(w)
      /\ entry' = [entry EXCEPT !["tmp"] = i]
      /\ content' = [content EXCEPT ![i] = <<>>]
      /\ synced' = synced \ {i}
      /\ fd' = [fd EXCEPT ![w] = i]
      /\ withKey' = [withKey EXCEPT ![w] = key]
      /\ pc' = [pc EXCEPT ![w] = "open"]
      /\ UNCHANGED <<disk, key>>

\* file.write_all(&payload_bytes).
WriteAll(w) ==
  /\ pc[w] = "open"
  /\ content' = [content EXCEPT ![fd[w]] = Overlay(Payload(w, withKey[w]), @)]
  /\ synced' = synced \ {fd[w]}
  /\ pc' = [pc EXCEPT ![w] = "written"]
  /\ UNCHANGED <<entry, disk, fd, withKey, key>>

\* write_all fails after a part of the payload was written (a full disk).
WriteShort(w) ==
  /\ pc[w] = "open"
  /\ \E k \in 0..(Size[w] - 1) :
       content' = [content EXCEPT
                     ![fd[w]] = Overlay(SubSeq(Payload(w, withKey[w]), 1, k), @)]
  /\ synced' = synced \ {fd[w]}
  /\ pc' = [pc EXCEPT ![w] = "err"]
  /\ UNCHANGED <<entry, disk, fd, withKey, key>>

\* Mutant: the file is only dropped, not synced, before the rename.
Sync_Skipped(w) ==
  /\ pc[w] = "written"
  /\ pc' = [pc EXCEPT ![w] = "synced"]
  /\ UNCHANGED <<entry, disk, content, synced, fd, withKey, key>>

\* file.sync_all().
Sync(w) ==
  /\ pc[w] = "written"
  /\ synced' = synced \cup {fd[w]}
  /\ pc' = [pc EXCEPT ![w] = "synced"]
  /\ UNCHANGED <<entry, disk, content, fd, withKey, key>>

\* fs::rename(&tmp_path, &final_path) moves whatever inode the temporary name
\* refers to by now, and fails when another writer has moved it away.
Rename(w) ==
  /\ pc[w] = "synced"
  /\ IF entry["tmp"] = NoFile
       THEN /\ pc' = [pc EXCEPT ![w] = "err"]
            /\ UNCHANGED entry
       ELSE /\ pc' = [pc EXCEPT ![w] = "ok"]
            /\ entry' = [entry EXCEPT ![FinalOf(w)] = entry["tmp"],
                                      !["tmp"] = NoFile]
  /\ UNCHANGED <<disk, content, synced, fd, withKey, key>>

\* Any other I/O error of the steps above, or the end of the process: the
\* write stops where it is and its temporary file stays behind.
Stop(w) ==
  /\ w \in Active
  /\ pc' = [pc EXCEPT ![w] = "err"]
  /\ UNCHANGED <<entry, disk, content, synced, fd, withKey, key>>

\* The system (external) writes the directory back to the disk, when it likes.
WriteBack ==
  /\ disk' = entry
  /\ pc' = [w \in Writes |-> IF pc[w] = "ok" THEN "durable" ELSE pc[w]]
  /\ UNCHANGED <<entry, content, synced, fd, withKey, key>>

\* The machine stops: content that was not synced may be lost, and the directory
\* is the one on the disk.
PowerLoss ==
  /\ entry' = disk
  /\ pc' = [w \in Writes |-> IF w \in Active THEN "err"
                             ELSE IF pc[w] = "ok" THEN "undone" ELSE pc[w]]
  /\ \E torn \in SUBSET (Writes \ synced) :
       content' = [i \in Writes |-> IF i \in torn THEN <<>> ELSE content[i]]
  /\ UNCHANGED <<disk, synced, fd, withKey, key>>

\* The next command runs in an environment with, or without, the key.
ChangeKey ==
  /\ KeyMayChange
  /\ Active = {}
  /\ key' = ~key
  /\ UNCHANGED <<entry, disk, content, synced, pc, fd, withKey>>

StoreNext ==
  \/ \E w \in Writes : Refuse(w)
  \/ \E w \in Writes : Create(w)
  \/ \E w \in Writes : WriteAll(w)
  \/ \E w \in Writes : WriteShort(w)
  \/ \E w \in Writes : Sync(w)
  \/ \E w \in Writes : Rename(w)
  \/ \E w \in Writes : Stop(w)
  \/ WriteBack
  \/ PowerLoss
  \/ ChangeKey

StoreSpec == StoreInit /\ [][StoreNext]_storeVars

-----------------------------------------------------------------------------
\* Type invariant: names and open handles refer to inodes, and every write under
\* way has one open.
StoreTypeOK ==
  /\ entry \in [Names -> Writes \cup {NoFile}]
  /\ disk \in [Names -> Writes \cup {NoFile}]
  /\ content \in [Writes -> Seq(Cell)]
  /\ synced \subseteq Writes
  /\ pc \in [Writes -> Progress]
  /\ fd \in [Writes -> Writes \cup {NoFile}]
  /\ withKey \in [Writes -> BOOLEAN]
  /\ key \in BOOLEAN
  /\ \A w \in Active : fd[w] # NoFile

\* snapshot.rs:32, "atomic write guarantees": whatever is read under a final
\* name is the whole payload of one write, in the format its name announces,
\* also between the steps of a write, after an error and after a power loss.
FinalsWhole ==
  \A n \in Finals : entry[n] # NoFile => Parsed(entry[n], n = "enc") # NoFile

\* A snapshot that was acknowledged is read back (integration_test.rs:157) by a
\* process with the key setting it was written with, or a newer one is: no later
\* failure, stop or power loss takes it back, except a power loss before the
\* directory was on the disk.  Left out: a process without a key beside an
\* encrypted file, which is preferred and which it cannot read.
ReadBack ==
  key \/ entry["enc"] = NoFile =>
    \A w \in Kept : withKey[w] = key => ReadSnapshot(key) >= w

\* Each of the two files implements the register, whatever the key does: a reader
\* of the file sees snapshots appear whole and in the order of their writes, until
\* a power loss takes it back to the one that the disk has.
Stored(dir, n) == IF dir[n] = NoFile THEN NoFile ELSE Parsed(dir[n], n = "enc")
Plain == INSTANCE SnapshotRegister
           WITH stored <- Stored(entry, "json"), settled <- Stored(disk, "json")
Encrypted == INSTANCE SnapshotRegister
               WITH stored <- Stored(entry, "enc"), settled <- Stored(disk, "enc")
RegisterSpec == Plain!Spec /\ Encrypted!Spec
=============================================================================
