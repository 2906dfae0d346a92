-------------------------- MODULE ListenersProofs ---------------------------
(***************************************************************************)
(* Theorems about SnapshotStore and about Listeners, the module that       *)
(* composes the commands that write to it, for every number and length of  *)
(* writes, of clients, writers and restarts.                               *)
(*                                                                         *)
(* The snapshot files: the type invariant holds for any number of writers. *)
(* The others assume that writes come one at a time: with two, the rename  *)
(* of one may install what the other has just truncated.                   *)
(*                                                                         *)
(* The listening commands: the sessions' state has its type; the sniffer   *)
(* counts no packet that it has not stored, also when sessions share the   *)
(* temporary file and rename each other's away; and as long as no two      *)
(* sessions write at once the newest snapshot recorded is the one read.    *)
(***************************************************************************)
EXTENDS Listeners, Recursion, FiniteSetTheorems, SequenceTheorems, TLAPS

-----------------------------------------------------------------------------
(* The snapshot files. *)

\* Writes begin in order, and the one under way is the last that began.
InOrder ==
  /\ \A v, w \in Writes : v < w /\ pc[v] = "new" => pc[w] = "new"
  /\ \A w \in Active : \A v \in Writes : w < v => pc[v] = "new"

\* The write under way owns the temporary file, and what that file holds
\* follows from how far the write has come.
OwnsTemporary ==
  \A w \in Active :
    /\ fd[w] = entry["tmp"]
    /\ pc[w] = "open" => content[fd[w]] = <<>>
    /\ pc[w] \in {"written", "synced"} => content[fd[w]] = Payload(w, withKey[w])
    /\ pc[w] = "synced" => fd[w] \in synced

\* The inode a write would create is under no name before the write begins, and the
\* temporary file is no final file under another name, neither in the directory nor in
\* the one on the disk.
Unused(dir) == \A w \in Writes, n \in Names : pc[w] = "new" => dir[n] # w
NoFinal(dir, i) == \A n \in Finals : dir[n] # NoFile => dir[n] # i
Apart ==
  /\ Unused(entry) /\ Unused(disk)
  /\ NoFinal(entry, entry["tmp"]) /\ NoFinal(disk, entry["tmp"]) /\ NoFinal(disk, disk["tmp"])

\* A final file holds the synced payload of a write that was acknowledged; on the disk,
\* of a write whose rename was on the disk too.
Durable == {w \in Writes : pc[w] = "durable"}
Holds(dir, n, v) == content[dir[n]] = Payload(v, n = "enc")
AllSynced(dir, done) ==
  \A n \in Finals : dir[n] # NoFile => dir[n] \in synced /\ \E v \in done : Holds(dir, n, v)
FinalsSynced == AllSynced(entry, Kept) /\ AllSynced(disk, Durable)

\* The file of an acknowledged write holds that write or a newer one, in the directory,
\* and also on the disk once the rename is there.
AllHeld(dir, done) ==
  \A w \in done :
    dir[FinalOf(w)] # NoFile /\ \E v \in Writes : w <= v /\ Holds(dir, FinalOf(w), v)
AckedHeld == AllHeld(entry, Kept) /\ AllHeld(disk, Durable)

StoreIInv ==
  StoreTypeOK /\ InOrder /\ OwnsTemporary /\ Apart /\ FinalsSynced /\ AckedHeld

-----------------------------------------------------------------------------
LEMMA SizePositive ==
  ASSUME NEW w \in Writes
  PROVE  Size[w] \in Nat \ {0} /\ w \in Nat /\ w # NoFile
BY StoreAssumption DEF Writes, NoFile

\* A payload is a sequence of cells as long as its version, and not empty.
LEMMA PayloadType ==
  ASSUME NEW w \in Writes, NEW enc \in BOOLEAN
  PROVE  /\ Payload(w, enc) \in Seq(Cell)
         /\ Len(Payload(w, enc)) = Size[w]
         /\ Payload(w, enc)[1] = [ver |-> w, enc |-> enc]
<1>1. Size[w] \in Nat \ {0}
  BY SizePositive
<1>2. \A i \in 1..Size[w] : [ver |-> w, enc |-> enc] \in Cell
  BY DEF Cell
<1>3. Payload(w, enc) \in [1..Size[w] -> Cell]
  BY <1>2 DEF Payload
<1>4. QED
  BY <1>1, <1>3 DEF Payload

\* Equal payloads are of one version.
LEMMA PayloadInjective ==
  ASSUME NEW v \in Writes, NEW w \in Writes, NEW enc \in BOOLEAN,
         Payload(v, enc) = Payload(w, enc)
  PROVE  v = w
<1>1. [ver |-> v, enc |-> enc] = [ver |-> w, enc |-> enc]
  BY PayloadType
<1>2. QED
  BY <1>1

\* The version of a whole payload is the one that parsing finds.
LEMMA ChosenVersion ==
  ASSUME NEW v \in Writes, NEW enc \in BOOLEAN, NEW c, c = Payload(v, enc)
  PROVE  /\ \E w \in Writes : c = Payload(w, enc)
         /\ (CHOOSE w \in Writes : c = Payload(w, enc)) = v
<1>1. \A w \in Writes : c = Payload(w, enc) => w = v
  BY PayloadInjective
<1>2. QED
  BY <1>1

\* Writing over an old content leaves a sequence of cells.
LEMMA OverlayType ==
  ASSUME NEW new \in Seq(Cell), NEW old \in Seq(Cell)
  PROVE  Overlay(new, old) \in Seq(Cell)
<1>1. Len(new) + 1 \in Nat /\ Len(new) + 1 >= 1 /\ Len(old) \in Nat
  OBVIOUS
<1>2. SubSeq(old, Len(new) + 1, Len(old)) \in Seq(Cell)
  BY <1>1
<1>3. QED
  BY <1>2 DEF Overlay

\* Writing to an empty file leaves what was written.
LEMMA OverlayEmpty ==
  ASSUME NEW new \in Seq(Cell)
  PROVE  Overlay(new, <<>>) = new
<1>1. SubSeq(<<>>, Len(new) + 1, Len(<<>>)) = <<>>
  BY Len(new) \in Nat
<1>2. QED
  BY <1>1 DEF Overlay

\* With one writer at a time, no write is under way when one begins.
LEMMA BeginsAlone ==
  ASSUME NEW w \in Writes, MayBegin(w), MaxWriters = 1
  PROVE  Active = {}
<1>1. IsFiniteSet(Writes)
  BY FS_Interval, StoreAssumption DEF Writes
<1>2. IsFiniteSet(Active)
  BY <1>1, FS_Subset DEF Active
<1>3. Cardinality(Active) \in Nat /\ Cardinality(Active) < 1
  BY <1>2, FS_CardinalityType DEF MayBegin
<1>4. QED
  BY <1>2, <1>3, FS_EmptySet

-----------------------------------------------------------------------------
\* Types, for any number of writers.
LEMMA StoreTypeInit == StoreInit => StoreTypeOK
BY DEF StoreInit, StoreTypeOK, Active, Finals, NoFile, Progress

LEMMA StoreTypeStep ==
  ASSUME StoreTypeOK, [StoreNext]_storeVars
  PROVE  StoreTypeOK'
<1> USE DEF StoreTypeOK, Active, Progress
<1>1. ASSUME NEW w \in Writes, Refuse(w) PROVE StoreTypeOK'
  BY <1>1 DEF Refuse, MayBegin
<1>2. ASSUME NEW w \in Writes, Create(w) PROVE StoreTypeOK'
  <2> DEFINE i == IF entry["tmp"] = NoFile THEN w ELSE entry["tmp"]
  <2>1. "tmp" \in Names /\ i \in Writes /\ i # NoFile
    BY SizePositive DEF Names
  <2>2. /\ entry' \in [Names -> Writes \cup {NoFile}]
        /\ disk' \in [Names -> Writes \cup {NoFile}]
        /\ content' \in [Writes -> Seq(Cell)]
        /\ synced' \subseteq Writes
        /\ pc' \in [Writes -> Progress]
        /\ fd' \in [Writes -> Writes \cup {NoFile}]
        /\ withKey' \in [Writes -> BOOLEAN]
        /\ key' \in BOOLEAN
    BY <1>2, <2>1 DEF Create
  <2>3. \A v \in Active' : fd'[v] # NoFile
    BY <1>2, <2>1 DEF Create
  <2>4. QED
    BY <2>2, <2>3
<1>3. ASSUME NEW w \in Writes, WriteAll(w) PROVE StoreTypeOK'
  <2>1. fd[w] \in Writes
    BY <1>3 DEF WriteAll
  <2>2. Overlay(Payload(w, withKey[w]), content[fd[w]]) \in Seq(Cell)
    BY <2>1, PayloadType, OverlayType
  <2>3. QED
    BY <1>3, <2>1, <2>2 DEF WriteAll
<1>4. ASSUME NEW w \in Writes, WriteShort(w) PROVE StoreTypeOK'
  <2>1. PICK k \in 0..(Size[w] - 1) :
          content' = [content EXCEPT
                        ![fd[w]] = Overlay(SubSeq(Payload(w, withKey[w]), 1, k), @)]
    BY <1>4 DEF WriteShort
  <2>2. fd[w] \in Writes
    BY <1>4 DEF WriteShort
  <2>3. SubSeq(Payload(w, withKey[w]), 1, k) \in Seq(Cell)
    <3>1. Payload(w, withKey[w]) \in Seq(Cell) /\ Len(Payload(w, withKey[w])) = Size[w]
      BY PayloadType
    <3>2. Size[w] \in Nat \ {0} /\ k \in Nat /\ k <= Size[w]
      BY SizePositive
    <3>3. QED
      BY <3>1, <3>2
  <2>4. Overlay(SubSeq(Payload(w, withKey[w]), 1, k), content[fd[w]]) \in Seq(Cell)
    BY <2>2, <2>3, OverlayType
  <2>5. QED
    BY <1>4, <2>1, <2>2, <2>4 DEF WriteShort
<1>5. ASSUME NEW w \in Writes, Sync(w) PROVE StoreTypeOK'
  BY <1>5 DEF Sync
<1>6. ASSUME NEW w \in Writes, Rename(w) PROVE StoreTypeOK'
  BY <1>6 DEF Rename, FinalOf, Names, Finals
<1>7. ASSUME NEW w \in Writes, Stop(w) PROVE StoreTypeOK'
  BY <1>7 DEF Stop
<1>8. ASSUME PowerLoss PROVE StoreTypeOK'
  BY <1>8 DEF PowerLoss
<1>9. ASSUME ChangeKey PROVE StoreTypeOK'
  BY <1>9 DEF ChangeKey
<1>10. ASSUME UNCHANGED storeVars PROVE StoreTypeOK'
  BY <1>10 DEF storeVars
<1>11. ASSUME WriteBack PROVE StoreTypeOK'
  BY <1>11 DEF WriteBack
<1>12. QED
  BY <1>1, <1>2, <1>3, <1>4, <1>5, <1>6, <1>7, <1>8, <1>9, <1>10, <1>11 DEF StoreNext

\* The files, the handles and the program counters have their types, and every
\* write under way has a file open, for any number of concurrent writers.
THEOREM StoreTypeCorrect == StoreSpec => []StoreTypeOK
BY StoreTypeInit, StoreTypeStep, PTL DEF StoreSpec

-----------------------------------------------------------------------------
\* The inductive invariant, for one writer at a time.
LEMMA StoreIInvInit == StoreInit => StoreIInv
<1> SUFFICES ASSUME StoreInit PROVE StoreIInv
  OBVIOUS
<1>1. /\ Active = {} /\ Kept = {} /\ Durable = {}
      /\ \A n \in Names : entry[n] = NoFile /\ disk[n] = NoFile
  BY DEF StoreInit, Active, Kept, Durable
<1>2. InOrder /\ OwnsTemporary /\ FinalsSynced /\ AckedHeld
  BY <1>1 DEF StoreInit, InOrder, OwnsTemporary, FinalsSynced, AllSynced, AckedHeld, AllHeld, Names
<1>3. Apart
  BY <1>1, SizePositive DEF StoreInit, Apart, Unused, NoFinal, Names
<1>4. QED
  BY <1>2, <1>3, StoreTypeInit DEF StoreIInv

\* What the disk's directory keeps when a step leaves it, its final files and the writes
\* that are durable alone.
LEMMA DiskLeftAlone ==
  ASSUME StoreIInv, UNCHANGED disk, Durable' = Durable,
         \A v \in Writes : pc'[v] = "new" => pc[v] = "new",
         \A v \in Durable : withKey'[v] = withKey[v],
         \A n \in Finals : disk[n] # NoFile /\ disk[n] \in synced =>
           content'[disk[n]] = content[disk[n]] /\ disk[n] \in synced'
  PROVE  /\ Unused(disk)' /\ NoFinal(disk, disk["tmp"])'
         /\ AllSynced(disk, Durable)' /\ AllHeld(disk, Durable)'
<1> USE DEF StoreIInv
<1>1. Unused(disk)' /\ NoFinal(disk, disk["tmp"])'
  BY DEF Apart, Unused, NoFinal
<1>2. AllSynced(disk, Durable)'
  <2>1. ASSUME NEW n \in Finals, disk'[n] # NoFile
        PROVE  disk'[n] \in synced' /\ \E v \in Durable' : content'[disk'[n]] = Payload(v, n = "enc")
    BY <2>1 DEF FinalsSynced, AllSynced, Holds
  <2>2. QED
    BY <2>1 DEF AllSynced, Holds, Payload
<1>3. AllHeld(disk, Durable)'
  <2>1. ASSUME NEW w \in Durable'
        PROVE  /\ disk'[FinalOf(w)] # NoFile
               /\ \E v \in Writes : w <= v /\ content'[disk'[FinalOf(w)]] = Payload(v, FinalOf(w) = "enc")
    <3>1. FinalOf(w) \in Finals /\ disk[FinalOf(w)] # NoFile
      BY <2>1 DEF AckedHeld, AllHeld, FinalOf, Finals
    <3>2. disk[FinalOf(w)] \in synced
      BY <3>1 DEF FinalsSynced, AllSynced
    <3>3. PICK v \in Writes : w <= v /\ content[disk[FinalOf(w)]] = Payload(v, FinalOf(w) = "enc")
      BY <2>1 DEF AckedHeld, AllHeld, Holds
    <3>4. QED
      BY <3>1, <3>2, <3>3
  <2>2. \A w \in Durable' : FinalOf(w)' = FinalOf(w)
    BY DEF FinalOf
  <2>3. QED
    BY <2>1, <2>2 DEF AllHeld, Holds, Payload
<1>4. QED
  BY <1>1, <1>2, <1>3

\* Two writes are never under way at once.
LEMMA OneActive ==
  ASSUME StoreIInv, NEW v \in Active, NEW w \in Active
  PROVE  v = w
<1>1. v \in Nat /\ w \in Nat
  BY SizePositive DEF Active
<1>2. ~(v < w) /\ ~(w < v)
  BY DEF StoreIInv, InOrder, Active
<1>3. QED
  BY <1>1, <1>2

\* Each step keeps the invariant.
LEMMA RefuseKeeps ==
  ASSUME StoreIInv, Active = {}, NEW w \in Writes, Refuse(w)
  PROVE  StoreIInv'
<1> USE DEF StoreIInv
<1>1. StoreTypeOK'
  BY StoreTypeStep DEF StoreNext
<1>2. Active' = {}
  BY DEF Refuse, Active, StoreTypeOK
<1>3. InOrder'
  <2>1. \A u, v \in Writes : u < v /\ pc'[u] = "new" => pc'[v] = "new"
    <3> SUFFICES ASSUME NEW u \in Writes, NEW v \in Writes, u < v, pc'[u] = "new"
                 PROVE  pc'[v] = "new"
      OBVIOUS
    <3>1. u # w /\ pc[u] = "new" /\ pc[v] = "new"
      BY DEF Refuse, InOrder, StoreTypeOK
    <3>2. ~(u < w)
      BY <3>1, SizePositive DEF Refuse, MayBegin, Writes
    <3>3. v # w
      BY <3>2
    <3>4. QED
      BY <3>1, <3>3 DEF Refuse, StoreTypeOK
  <2>2. QED
    BY <2>1, <1>2 DEF InOrder
<1>4. OwnsTemporary'
  BY <1>2 DEF OwnsTemporary
<1>5. /\ UNCHANGED <<entry, disk, content, synced, withKey>>
      /\ \A v \in Writes : pc'[v] = "new" => pc[v] = "new"
      /\ Kept' = Kept /\ Durable' = Durable
  BY DEF Refuse, MayBegin, StoreTypeOK, Kept, Durable
<1>6. Unused(entry)' /\ NoFinal(entry, entry["tmp"])' /\ NoFinal(disk, entry["tmp"])'
  BY <1>5 DEF Apart, Unused, NoFinal
<1>7. AllSynced(entry, Kept)' /\ AllHeld(entry, Kept)'
  BY <1>5 DEF FinalsSynced, AllSynced, AckedHeld, AllHeld, Holds, FinalOf, Payload
<1>8. /\ Unused(disk)' /\ NoFinal(disk, disk["tmp"])'
      /\ AllSynced(disk, Durable)' /\ AllHeld(disk, Durable)'
  BY <1>5, DiskLeftAlone
<1>9. QED
  BY <1>1, <1>3, <1>4, <1>6, <1>7, <1>8 DEF Apart, FinalsSynced, AckedHeld

LEMMA CreateKeeps ==
  ASSUME StoreIInv, Active = {}, NEW w \in Writes, Create(w)
  PROVE  StoreIInv'
<1> USE DEF StoreIInv
<1> DEFINE i == IF entry["tmp"] = NoFile THEN w ELSE entry["tmp"]
<1>1. StoreTypeOK'
  BY StoreTypeStep DEF StoreNext
<1>2. i \in Writes /\ i # NoFile /\ "tmp" \in Names /\ "tmp" \notin Finals
      /\ Finals \subseteq Names
  BY SizePositive DEF StoreTypeOK, Names, Finals
<1>3. pc[w] = "new"
  BY DEF Create, MayBegin
<1>4. /\ pc' = [pc EXCEPT ![w] = "open"] /\ fd' = [fd EXCEPT ![w] = i]
      /\ entry' = [entry EXCEPT !["tmp"] = i] /\ content' = [content EXCEPT ![i] = <<>>]
      /\ synced' = synced \ {i} /\ withKey' = [withKey EXCEPT ![w] = key]
  BY DEF Create
<1>5. Active' = {w}
  BY <1>3, <1>4 DEF Active, StoreTypeOK
<1>6. InOrder'
  <2>1. ASSUME NEW u \in Writes, NEW v \in Writes, u < v, pc'[u] = "new"
        PROVE  pc'[v] = "new"
    <3>1. u # w /\ pc[u] = "new" /\ pc[v] = "new"
      BY <2>1, <1>4 DEF InOrder, StoreTypeOK
    <3>2. ~(u < w)
      BY <3>1, SizePositive DEF Create, MayBegin, Writes
    <3>3. QED
      BY <3>1, <3>2, <2>1, <1>4 DEF StoreTypeOK
  <2>2. ASSUME NEW v \in Writes, w < v PROVE pc'[v] = "new"
    <3>1. v # w
      BY <2>2, SizePositive
    <3>2. QED
      BY <2>2, <3>1, <1>3, <1>4 DEF InOrder, StoreTypeOK
  <2>3. QED
    BY <2>1, <2>2, <1>5 DEF InOrder
<1>7. OwnsTemporary'
  BY <1>2, <1>4, <1>5 DEF OwnsTemporary, StoreTypeOK
<1>8. \A n \in Finals : entry'[n] = entry[n] /\ entry[n] # i
  <2>1. \A n \in Finals : entry'[n] = entry[n]
    BY <1>2, <1>4 DEF StoreTypeOK
  <2>2. \A n \in Finals : entry[n] # i
    BY <1>2, <1>3, SizePositive DEF Apart, Unused, NoFinal
  <2>3. QED
    BY <2>1, <2>2
<1>9. UNCHANGED disk /\ \A n \in Finals : disk[n] # i
  BY <1>2, <1>3, SizePositive DEF Apart, Unused, NoFinal, Create
<1>10. Unused(entry)'
  <2>1. ASSUME NEW v \in Writes, NEW n \in Names, pc'[v] = "new" PROVE entry'[n] # v
    <3>1. v # w /\ pc[v] = "new"
      BY <2>1, <1>4 DEF StoreTypeOK
    <3>2. entry[n] # v /\ i # v
      BY <3>1, <1>2 DEF Apart, Unused
    <3>3. QED
      BY <3>2, <1>4 DEF StoreTypeOK
  <2>2. QED
    BY <2>1 DEF Unused
<1>11. NoFinal(entry, entry["tmp"])' /\ NoFinal(disk, entry["tmp"])'
  <2>1. entry'["tmp"] = i
    BY <1>2, <1>4 DEF StoreTypeOK
  <2>2. QED
    BY <2>1, <1>8, <1>9 DEF NoFinal
<1>12. \A j \in synced : j # i => content'[j] = content[j] /\ j \in synced'
  BY <1>2, <1>4 DEF StoreTypeOK
<1>13. /\ Kept' = Kept /\ Durable' = Durable /\ w \notin Kept /\ w \notin Durable
       /\ \A v \in Writes : pc'[v] = "new" => pc[v] = "new"
  BY <1>3, <1>4 DEF StoreTypeOK, Kept, Durable
<1>14. (\A v \in Kept : withKey'[v] = withKey[v]) /\ (\A v \in Durable : withKey'[v] = withKey[v])
  BY <1>4, <1>13 DEF StoreTypeOK, Kept, Durable
<1>15. AllSynced(entry, Kept)'
  <2>1. \A n \in Finals : entry'[n] # NoFile =>
          entry'[n] \in synced' /\ \E v \in Kept' : content'[entry'[n]] = Payload(v, n = "enc")
    BY <1>8, <1>12, <1>13 DEF FinalsSynced, AllSynced, Holds
  <2>2. QED
    BY <2>1 DEF AllSynced, Holds, Payload
<1>16. AllHeld(entry, Kept)'
  <2>1. ASSUME NEW u \in Kept'
        PROVE  /\ entry'[FinalOf(u)] # NoFile
               /\ \E v \in Writes : u <= v /\ content'[entry'[FinalOf(u)]] = Payload(v, FinalOf(u) = "enc")
    <3>1. FinalOf(u) \in Finals /\ entry[FinalOf(u)] # NoFile
      BY <1>13 DEF AckedHeld, AllHeld, FinalOf, Finals
    <3>2. PICK v \in Writes : u <= v /\ content[entry[FinalOf(u)]] = Payload(v, FinalOf(u) = "enc")
      BY <1>13 DEF AckedHeld, AllHeld, Holds
    <3>3. entry[FinalOf(u)] \in synced
      BY <3>1 DEF FinalsSynced, AllSynced
    <3>4. QED
      BY <1>8, <1>12, <3>1, <3>2, <3>3
  <2>2. \A u \in Kept' : FinalOf(u)' = FinalOf(u)
    BY <1>13, <1>14 DEF FinalOf
  <2>3. QED
    BY <2>1, <2>2 DEF AllHeld, Holds, Payload
<1>17. /\ Unused(disk)' /\ NoFinal(disk, disk["tmp"])'
       /\ AllSynced(disk, Durable)' /\ AllHeld(disk, Durable)'
  BY <1>9, <1>12, <1>13, <1>14, DiskLeftAlone
<1>18. QED
  BY <1>1, <1>6, <1>7, <1>10, <1>11, <1>15, <1>16, <1>17 DEF Apart, FinalsSynced, AckedHeld

\* A write under way writes to, or syncs, the inode of the temporary file alone.
LEMMA TemporaryAlone ==
  ASSUME StoreIInv, NEW w \in Active
  PROVE  /\ w \in Writes /\ fd[w] \in Writes /\ fd[w] # NoFile
         /\ \A v \in Active : v = w
         /\ \A n \in Finals : entry[n] # NoFile => entry[n] # fd[w]
         /\ \A n \in Finals : disk[n] # NoFile => disk[n] # fd[w]
<1>1. w \in Writes /\ fd[w] \in Writes /\ fd[w] # NoFile
  BY DEF StoreIInv, StoreTypeOK, Active
<1>2. \A v \in Active : v = w
  BY OneActive
<1>3. QED
  BY <1>1, <1>2 DEF StoreIInv, OwnsTemporary, Apart, NoFinal

\* What a step keeps when it leaves the names, the keys, the final files and the
\* acknowledged writes alone, and begins no write.
LEMMA FinalsLeftAlone ==
  ASSUME StoreIInv, StoreTypeOK', UNCHANGED <<entry, disk, withKey>>,
         \A v \in Writes : pc'[v] = "new" <=> pc[v] = "new",
         Kept' = Kept, Durable' = Durable,
         \A v \in Writes : v \in Active' => v \in Active,
         \A n \in Finals : entry[n] # NoFile /\ entry[n] \in synced =>
           content'[entry[n]] = content[entry[n]] /\ entry[n] \in synced',
         \A n \in Finals : disk[n] # NoFile /\ disk[n] \in synced =>
           content'[disk[n]] = content[disk[n]] /\ disk[n] \in synced'
  PROVE  InOrder' /\ Apart' /\ FinalsSynced' /\ AckedHeld'
<1> USE DEF StoreIInv
<1>1. InOrder'
  BY DEF InOrder, Active
<1>2. Unused(entry)' /\ NoFinal(entry, entry["tmp"])' /\ NoFinal(disk, entry["tmp"])'
  BY DEF Apart, Unused, NoFinal
<1>3. AllSynced(entry, Kept)'
  BY DEF FinalsSynced, AllSynced, Holds, Payload
<1>4. AllHeld(entry, Kept)'
  BY DEF AckedHeld, AllHeld, FinalsSynced, AllSynced, Holds, Payload, FinalOf, Finals
<1>5. /\ Unused(disk)' /\ NoFinal(disk, disk["tmp"])'
      /\ AllSynced(disk, Durable)' /\ AllHeld(disk, Durable)'
  BY DiskLeftAlone
<1>6. QED
  BY <1>1, <1>2, <1>3, <1>4, <1>5 DEF Apart, FinalsSynced, AckedHeld

LEMMA WriteAllKeeps ==
  ASSUME StoreIInv, NEW w \in Writes, WriteAll(w)
  PROVE  StoreIInv'
<1> USE DEF StoreIInv
<1>1. StoreTypeOK'
  BY StoreTypeStep DEF StoreNext
<1>2. w \in Active
  BY DEF WriteAll, Active
<1>3. content[fd[w]] = <<>>
  BY <1>2 DEF OwnsTemporary, WriteAll
<1>4. Overlay(Payload(w, withKey[w]), content[fd[w]]) = Payload(w, withKey[w])
  <2>1. withKey[w] \in BOOLEAN
    BY DEF StoreTypeOK
  <2>2. Payload(w, withKey[w]) \in Seq(Cell)
    BY <2>1, PayloadType
  <2>3. QED
    BY <1>3, <2>2, OverlayEmpty
<1>5. Active' = Active
  BY DEF WriteAll, Active, StoreTypeOK
<1>6. InOrder' /\ Apart' /\ FinalsSynced' /\ AckedHeld'
  <2>1. /\ \A v \in Writes : pc'[v] = "new" <=> pc[v] = "new"
        /\ Kept' = Kept /\ Durable' = Durable
    BY DEF WriteAll, StoreTypeOK, Kept, Durable
  <2>2. /\ \A n \in Finals : entry[n] # NoFile /\ entry[n] \in synced =>
             content'[entry[n]] = content[entry[n]] /\ entry[n] \in synced'
        /\ \A n \in Finals : disk[n] # NoFile /\ disk[n] \in synced =>
             content'[disk[n]] = content[disk[n]] /\ disk[n] \in synced'
    BY <1>2, TemporaryAlone DEF WriteAll, StoreTypeOK
  <2>3. UNCHANGED <<entry, disk, withKey>>
    BY DEF WriteAll
  <2>4. QED
    BY <1>1, <1>5, <2>1, <2>2, <2>3, FinalsLeftAlone
<1>7. OwnsTemporary'
  <2>1. /\ fd' = fd /\ entry' = entry /\ withKey' = withKey /\ pc'[w] = "written"
        /\ content'[fd[w]] = Payload(w, withKey[w])
    BY <1>2, <1>4, TemporaryAlone DEF WriteAll, StoreTypeOK
  <2>2. \A v \in Active' : v = w
    BY <1>2, <1>5, TemporaryAlone
  <2>3. QED
    BY <1>2, <2>1, <2>2 DEF OwnsTemporary, Payload
<1>8. QED
  BY <1>1, <1>6, <1>7

\* A write that fails or stops leaves no write under way.
LEMMA WriteShortKeeps ==
  ASSUME StoreIInv, NEW w \in Writes, WriteShort(w)
  PROVE  StoreIInv'
<1> USE DEF StoreIInv
<1>1. StoreTypeOK'
  BY StoreTypeStep DEF StoreNext
<1>2. w \in Active
  BY DEF WriteShort, Active
<1>3. Active' = {}
  BY <1>2, TemporaryAlone DEF WriteShort, Active, StoreTypeOK
<1>4. /\ \A v \in Writes : pc'[v] = "new" <=> pc[v] = "new"
      /\ Kept' = Kept /\ Durable' = Durable
  BY DEF WriteShort, StoreTypeOK, Kept, Durable
<1>5. /\ \A n \in Finals : entry[n] # NoFile /\ entry[n] \in synced =>
           content'[entry[n]] = content[entry[n]] /\ entry[n] \in synced'
      /\ \A n \in Finals : disk[n] # NoFile /\ disk[n] \in synced =>
           content'[disk[n]] = content[disk[n]] /\ disk[n] \in synced'
  BY <1>2, TemporaryAlone DEF WriteShort, StoreTypeOK
<1>6. UNCHANGED <<entry, disk, withKey>>
  BY DEF WriteShort
<1>7. QED
  BY <1>1, <1>3, <1>4, <1>5, <1>6, FinalsLeftAlone DEF OwnsTemporary

LEMMA SyncKeeps ==
  ASSUME StoreIInv, NEW w \in Writes, Sync(w)
  PROVE  StoreIInv'
<1> USE DEF StoreIInv
<1>1. StoreTypeOK'
  BY StoreTypeStep DEF StoreNext
<1>2. w \in Active /\ Active' = Active
  BY DEF Sync, Active, StoreTypeOK
<1>3. /\ \A v \in Writes : pc'[v] = "new" <=> pc[v] = "new"
      /\ Kept' = Kept /\ Durable' = Durable
  BY DEF Sync, StoreTypeOK, Kept, Durable
<1>4. UNCHANGED <<entry, disk, withKey, content>> /\ synced \subseteq synced'
  BY DEF Sync
<1>5. InOrder' /\ Apart' /\ FinalsSynced' /\ AckedHeld'
  BY <1>1, <1>2, <1>3, <1>4, FinalsLeftAlone
<1>6. OwnsTemporary'
  <2>1. \A v \in Active' : v = w
    BY <1>2, TemporaryAlone
  <2>2. QED
    BY <1>2, <2>1 DEF OwnsTemporary, Sync, Payload, StoreTypeOK
<1>7. QED
  BY <1>1, <1>5, <1>6

\* Some of the writes under way stop, one or all of them.
LEMMA StoppedKeeps ==
  ASSUME StoreIInv, Active' = {}, UNCHANGED <<entry, disk, content, synced, fd, withKey, key>>,
         pc' = [v \in Writes |-> IF v \in Active THEN "err" ELSE pc[v]]
  PROVE  StoreIInv'
<1> USE DEF StoreIInv
<1>1. StoreTypeOK'
  BY DEF StoreTypeOK, Active, Progress
<1>2. /\ \A v \in Writes : pc'[v] = "new" <=> pc[v] = "new"
      /\ Kept' = Kept /\ Durable' = Durable
  BY DEF Active, StoreTypeOK, Kept, Durable
<1>3. QED
  BY <1>1, <1>2, FinalsLeftAlone DEF OwnsTemporary

LEMMA StopKeeps ==
  ASSUME StoreIInv, NEW w \in Writes, Stop(w)
  PROVE  StoreIInv'
<1>1. w \in Active /\ \A v \in Active : v = w
  BY TemporaryAlone DEF Stop
<1>2. pc' = [v \in Writes |-> IF v \in Active THEN "err" ELSE pc[v]]
  BY <1>1 DEF Stop, StoreIInv, StoreTypeOK, Active
<1>3. Active' = {}
  BY <1>2 DEF Active
<1>4. QED
  BY <1>2, <1>3, StoppedKeeps DEF Stop

\* The directory reaches the disk: what is acknowledged is durable.
LEMMA WriteBackKeeps ==
  ASSUME StoreIInv, WriteBack
  PROVE  StoreIInv'
<1> USE DEF StoreIInv
<1>1. StoreTypeOK'
  BY StoreTypeStep DEF StoreNext
<1>2. /\ disk' = entry /\ UNCHANGED <<entry, content, synced, fd, withKey, key>>
      /\ \A v \in Writes : pc'[v] = IF pc[v] = "ok" THEN "durable" ELSE pc[v]
  BY DEF WriteBack
<1>3. /\ \A v \in Writes : pc'[v] = "new" <=> pc[v] = "new"
      /\ Active' = Active /\ Kept' = Kept /\ Durable' = Kept
  BY <1>2 DEF Active, Kept, Durable
<1>4. InOrder' /\ OwnsTemporary'
  BY <1>2, <1>3 DEF InOrder, OwnsTemporary, Active, Payload
<1>5. Apart'
  BY <1>2, <1>3 DEF Apart, Unused, NoFinal
<1>6. FinalsSynced'
  BY <1>2, <1>3 DEF FinalsSynced, AllSynced, Holds, Payload
<1>7. AckedHeld'
  BY <1>2, <1>3 DEF AckedHeld, AllHeld, Holds, Payload, FinalOf
<1>8. QED
  BY <1>1, <1>4, <1>5, <1>6, <1>7

\* A power loss takes the directory back to the one on the disk, of which the invariant
\* says the same.
LEMMA PowerLossKeeps ==
  ASSUME StoreIInv, PowerLoss
  PROVE  StoreIInv'
<1> USE DEF StoreIInv
<1>1. StoreTypeOK'
  BY StoreTypeStep DEF StoreNext
<1>2. /\ entry' = disk /\ UNCHANGED <<disk, synced, fd, withKey, key>>
      /\ \A i \in synced : content'[i] = content[i]
      /\ \A v \in Writes : pc'[v] = IF v \in Active THEN "err"
                                    ELSE IF pc[v] = "ok" THEN "undone" ELSE pc[v]
  BY DEF PowerLoss, StoreTypeOK
<1>3. /\ \A v \in Writes : pc'[v] = "new" <=> pc[v] = "new"
      /\ Active' = {} /\ Kept' = Durable /\ Durable' = Durable
  BY <1>2 DEF Active, Kept, Durable
<1>4. InOrder' /\ OwnsTemporary'
  BY <1>3 DEF InOrder, OwnsTemporary
<1>5. /\ Unused(disk)' /\ NoFinal(disk, disk["tmp"])'
      /\ AllSynced(disk, Durable)' /\ AllHeld(disk, Durable)'
  BY <1>2, <1>3, DiskLeftAlone
<1>6. Apart'
  BY <1>2, <1>5 DEF Apart, Unused, NoFinal
<1>7. FinalsSynced'
  BY <1>2, <1>3, <1>5 DEF FinalsSynced, AllSynced, Holds, Payload
<1>8. AckedHeld'
  BY <1>2, <1>3, <1>5 DEF AckedHeld, AllHeld, Holds, Payload, FinalOf
<1>9. QED
  BY <1>1, <1>4, <1>6, <1>7, <1>8

LEMMA KeyOrStutterKeeps ==
  ASSUME StoreIInv, ChangeKey \/ UNCHANGED storeVars
  PROVE  StoreIInv'
<1> USE DEF StoreIInv
<1>1. StoreTypeOK'
  BY StoreTypeStep DEF StoreNext
<1>2. UNCHANGED <<entry, disk, content, synced, pc, fd, withKey>>
  BY DEF ChangeKey, storeVars
<1>3. InOrder' /\ Apart' /\ FinalsSynced' /\ AckedHeld'
  BY <1>1, <1>2, FinalsLeftAlone DEF Active, Kept, Durable
<1>4. OwnsTemporary'
  BY <1>2 DEF OwnsTemporary, Active, Payload
<1>5. QED
  BY <1>1, <1>3, <1>4
\* The temporary file, whole and synced, becomes a final file.
LEMMA RenameKeeps ==
  ASSUME StoreIInv, NEW w \in Writes, Rename(w)
  PROVE  StoreIInv'
<1> USE DEF StoreIInv
<1> DEFINE n == FinalOf(w)
           i == fd[w]
<1>1. StoreTypeOK'
  BY StoreTypeStep DEF StoreNext
<1>2. w \in Active /\ pc[w] = "synced"
  BY DEF Rename, Active
<1>3. /\ i = entry["tmp"] /\ i \in Writes /\ i # NoFile /\ i \in synced
      /\ content[i] = Payload(w, withKey[w])
  BY <1>2, TemporaryAlone DEF OwnsTemporary
<1>4. /\ n \in Finals /\ n \in Names /\ "tmp" \in Names /\ n # "tmp"
      /\ Finals \subseteq Names /\ "tmp" \notin Finals
  BY DEF FinalOf, Finals, Names
<1>5. (n = "enc") = withKey[w]
  BY DEF FinalOf, StoreTypeOK
<1>6. /\ pc' = [pc EXCEPT ![w] = "ok"]
      /\ entry' = [entry EXCEPT ![n] = i, !["tmp"] = NoFile]
      /\ UNCHANGED <<disk, content, synced, fd, withKey, key>>
  BY <1>3 DEF Rename
<1>7. /\ entry'[n] = i /\ entry'["tmp"] = NoFile
      /\ \A m \in Finals \ {n} : entry'[m] = entry[m]
  BY <1>4, <1>6 DEF StoreTypeOK
<1>8. Active' = {}
  BY <1>2, <1>6, TemporaryAlone DEF Active, StoreTypeOK
<1>9. \A v \in Writes : v # w => pc'[v] = pc[v]
  BY <1>6 DEF StoreTypeOK
<1>10. pc'[w] = "ok"
  BY <1>6 DEF StoreTypeOK
<1>11. InOrder'
  BY <1>2, <1>8, <1>9, <1>10 DEF InOrder
<1>12. OwnsTemporary'
  BY <1>8 DEF OwnsTemporary
<1>13. Unused(entry)' /\ NoFinal(entry, entry["tmp"])' /\ NoFinal(disk, entry["tmp"])'
  <2>1. ASSUME NEW v \in Writes, NEW m \in Names, pc'[v] = "new" PROVE entry'[m] # v
    <3>1. pc[v] = "new"
      BY <2>1, <1>9, <1>10
    <3>2. entry[m] # v /\ i # v /\ v # NoFile
      BY <3>1, <1>3, <1>4, SizePositive DEF Apart, Unused
    <3>3. m \in Finals \/ m = "tmp"
      BY DEF Names
    <3>4. QED
      BY <3>2, <3>3, <1>7
  <2>2. \A m \in Finals : entry'[m] \in Writes \cup {NoFile} /\ disk'[m] \in Writes \cup {NoFile}
    BY <1>1, <1>4 DEF StoreTypeOK
  <2>3. QED
    BY <2>1, <2>2, <1>7 DEF Unused, NoFinal
<1>14. content'[entry'[n]] = Payload(w, n = "enc")
  <2>1. Payload(w, n = "enc") = Payload(w, withKey[w])
    BY <1>5
  <2>2. QED
    BY <2>1, <1>3, <1>6, <1>7
<1>15. \A m \in Finals \ {n} : content'[entry'[m]] = content[entry[m]]
  BY <1>6, <1>7
<1>16. /\ w \in Kept' /\ Kept \subseteq Kept' /\ Kept' \subseteq Kept \cup {w} /\ Durable' = Durable
       /\ \A v \in Writes : pc'[v] = "new" => pc[v] = "new"
  BY <1>2, <1>9, <1>10 DEF Kept, Durable
<1>17. AllSynced(entry, Kept)'
  <2>1. ASSUME NEW m \in Finals, entry'[m] # NoFile
        PROVE  entry'[m] \in synced' /\ \E v \in Kept' : content'[entry'[m]] = Payload(v, m = "enc")
    <3>1. CASE m = n
      <4>1. entry'[m] \in synced'
        BY <3>1, <1>3, <1>6, <1>7
      <4>2. content'[entry'[m]] = Payload(w, m = "enc")
        BY <3>1, <1>14
      <4>3. QED
        BY <4>1, <4>2, <1>16
    <3>2. CASE m # n
      <4>1. entry'[m] = entry[m] /\ content'[entry'[m]] = content[entry[m]] /\ synced' = synced
        BY <3>2, <1>6, <1>7, <1>15
      <4>2. QED
        BY <4>1, <2>1, <1>16 DEF FinalsSynced, AllSynced, Holds
    <3>3. QED
      BY <3>1, <3>2
  <2>2. QED
    BY <2>1 DEF AllSynced, Holds, Payload
<1>18. AllHeld(entry, Kept)'
  <2>1. ASSUME NEW v \in Kept'
        PROVE  /\ entry'[FinalOf(v)] # NoFile
               /\ \E u \in Writes : v <= u /\
                    content'[entry'[FinalOf(v)]] = Payload(u, FinalOf(v) = "enc")
    <3>1. v <= w
      BY <2>1, <1>2, <1>16, SizePositive DEF InOrder, Kept
    <3>2. CASE FinalOf(v) = n
      <4>1. content'[entry'[FinalOf(v)]] = Payload(w, FinalOf(v) = "enc")
        BY <3>2, <1>14
      <4>2. entry'[FinalOf(v)] # NoFile
        BY <3>2, <1>3, <1>7
      <4>3. QED
        BY <4>1, <4>2, <3>1
    <3>3. CASE FinalOf(v) # n
      <4>1. v \in Kept /\ FinalOf(v) \in Finals \ {n}
        BY <3>3, <2>1, <1>16 DEF FinalOf, Finals
      <4>2. entry'[FinalOf(v)] = entry[FinalOf(v)]
            /\ content'[entry'[FinalOf(v)]] = content[entry[FinalOf(v)]]
        BY <4>1, <1>7, <1>15
      <4>3. /\ entry[FinalOf(v)] # NoFile
            /\ \E u \in Writes : v <= u /\
                 content[entry[FinalOf(v)]] = Payload(u, FinalOf(v) = "enc")
        BY <4>1 DEF AckedHeld, AllHeld, Holds
      <4>4. QED
        BY <4>2, <4>3
    <3>4. QED
      BY <3>2, <3>3
  <2>2. \A v \in Writes : FinalOf(v)' = FinalOf(v)
    BY <1>6 DEF FinalOf
  <2>3. QED
    BY <2>1, <2>2 DEF AllHeld, Holds, Payload, Kept
<1>19. /\ Unused(disk)' /\ NoFinal(disk, disk["tmp"])'
       /\ AllSynced(disk, Durable)' /\ AllHeld(disk, Durable)'
  BY <1>6, <1>16, DiskLeftAlone
<1>20. QED
  BY <1>1, <1>11, <1>12, <1>13, <1>17, <1>18, <1>19 DEF Apart, FinalsSynced, AckedHeld

LEMMA StoreIInvStep ==
  ASSUME StoreIInv, MaxWriters = 1, [StoreNext]_storeVars
  PROVE  StoreIInv'
<1>1. ASSUME NEW w \in Writes, Refuse(w) \/ Create(w) PROVE StoreIInv'
  <2>1. Active = {}
    BY <1>1, BeginsAlone DEF Refuse, Create
  <2>2. QED
    BY <1>1, <2>1, RefuseKeeps, CreateKeeps
<1>2. QED
  BY <1>1, WriteAllKeeps, WriteShortKeeps, SyncKeeps, RenameKeeps, StopKeeps,
     WriteBackKeeps, PowerLossKeeps, KeyOrStutterKeeps DEF StoreNext

\* With one writer at a time the inductive invariant always holds: whatever
\* fails, stops or loses power, the names, the inodes and the progress of the
\* writes fit together.
THEOREM StoreInvariant ==
  ASSUME MaxWriters = 1
  PROVE  StoreSpec => []StoreIInv
BY StoreIInvInit, StoreIInvStep, PTL DEF StoreSpec

-----------------------------------------------------------------------------
\* What a reader gets from a file that holds a version.
LEMMA StoredVersion ==
  ASSUME NEW dir, NEW n \in Finals, dir[n] # NoFile, NEW v \in Writes, Holds(dir, n, v)
  PROVE  Parsed(dir[n], n = "enc") = v /\ Stored(dir, n) = v
<1>1. (n = "enc") \in BOOLEAN
  OBVIOUS
<1>2. Parsed(dir[n], n = "enc") = v
  BY <1>1, ChosenVersion DEF Parsed, Holds
<1>3. QED
  BY <1>2 DEF Stored

\* snapshot.rs:32, with one writer at a time: between any two file operations, and
\* after any failure, each final file holds a whole snapshot in its own format.
THEOREM StoreFinalsWhole ==
  ASSUME MaxWriters = 1
  PROVE  StoreSpec => []FinalsWhole
<1>1. StoreIInv => FinalsWhole
  BY StoredVersion, SizePositive DEF StoreIInv, FinalsSynced, AllSynced, FinalsWhole, Kept
<1>2. QED
  BY <1>1, StoreInvariant, PTL

\* integration_test.rs:157, with one writer at a time: what was acknowledged is
\* read back, or something newer is, also after the power losses that find its rename
\* on the disk.
THEOREM StoreReadBack ==
  ASSUME MaxWriters = 1
  PROVE  StoreSpec => []ReadBack
<1>1. StoreIInv => ReadBack
  <2> SUFFICES ASSUME StoreIInv, key \/ entry["enc"] = NoFile,
                      NEW w \in Kept, withKey[w] = key
               PROVE  ReadSnapshot(key) >= w
    BY DEF ReadBack
  <2>1. PICK v \in Writes : w <= v /\ Holds(entry, FinalOf(w), v)
    BY DEF StoreIInv, AckedHeld, AllHeld
  <2>2. FinalOf(w) \in Finals /\ entry[FinalOf(w)] # NoFile
    BY DEF StoreIInv, AckedHeld, AllHeld, FinalOf, Finals
  <2>3. Parsed(entry[FinalOf(w)], FinalOf(w) = "enc") = v
    BY <2>1, <2>2, StoredVersion
  <2>4. CASE key
    <3>1. FinalOf(w) = "enc"
      BY <2>4 DEF FinalOf
    <3>2. ReadSnapshot(key) = Parsed(entry["enc"], TRUE)
      BY <2>2, <2>4, <3>1 DEF ReadSnapshot
    <3>3. QED
      BY <2>1, <2>3, <3>1, <3>2, SizePositive DEF Kept
  <2>5. CASE ~key
    <3>1. FinalOf(w) = "json" /\ entry["enc"] = NoFile
      BY <2>5 DEF FinalOf
    <3>2. ReadSnapshot(key) = Parsed(entry["json"], FALSE)
      BY <2>2, <3>1 DEF ReadSnapshot
    <3>3. QED
      BY <2>1, <2>3, <3>1, <3>2, SizePositive DEF Kept
  <2>6. QED
    BY <2>4, <2>5
<1>2. QED
  BY <1>1, StoreInvariant, PTL
-----------------------------------------------------------------------------
\* Refinement: the same fact about the next state, where a lemma about the current
\* one does not apply.
LEMMA NextStoredVersion ==
  ASSUME NEW n \in Finals, NEW v \in Writes
  PROVE  /\ entry'[n] # NoFile /\ content'[entry'[n]] = Payload(v, n = "enc")
              => Stored(entry, n)' = v
         /\ disk'[n] # NoFile /\ content'[disk'[n]] = Payload(v, n = "enc")
              => Stored(disk, n)' = v
<1>1. (n = "enc") \in BOOLEAN
  OBVIOUS
<1>2. ASSUME NEW c, c = Payload(v, n = "enc")
      PROVE  /\ \E w \in Writes : c = Payload(w, n = "enc")
             /\ (CHOOSE w \in Writes : c = Payload(w, n = "enc")) = v
  BY <1>1, <1>2, ChosenVersion
<1>3. QED
  BY <1>2 DEF Stored, Parsed, Payload

\* A name that keeps its file keeps its version; a name that is written back, or that a
\* power loss takes back, gets the version of the other directory.
LEMMA SameStored ==
  ASSUME StoreIInv, NEW n \in Finals,
         entry[n] # NoFile => content'[entry[n]] = content[entry[n]],
         disk[n] # NoFile => content'[disk[n]] = content[disk[n]]
  PROVE  /\ entry'[n] = entry[n] => Stored(entry, n)' = Stored(entry, n)
         /\ disk'[n] = disk[n] => Stored(disk, n)' = Stored(disk, n)
         /\ disk'[n] = entry[n] => Stored(disk, n)' = Stored(entry, n)
         /\ entry'[n] = disk[n] => Stored(entry, n)' = Stored(disk, n)
<1>1. ASSUME entry[n] # NoFile
      PROVE  \E v \in Writes : /\ Stored(entry, n) = v
                               /\ content'[entry[n]] = Payload(v, n = "enc")
  <2>1. PICK v \in Writes : Holds(entry, n, v)
    BY <1>1 DEF StoreIInv, FinalsSynced, AllSynced, Kept
  <2>2. QED
    BY <1>1, <2>1, StoredVersion DEF Holds
<1>2. ASSUME disk[n] # NoFile
      PROVE  \E v \in Writes : /\ Stored(disk, n) = v
                               /\ content'[disk[n]] = Payload(v, n = "enc")
  <2>1. PICK v \in Writes : Holds(disk, n, v)
    BY <1>2 DEF StoreIInv, FinalsSynced, AllSynced, Durable
  <2>2. QED
    BY <1>2, <2>1, StoredVersion DEF Holds
<1>3. entry'[n] = entry[n] => Stored(entry, n)' = Stored(entry, n)
  <2>1. CASE entry[n] = NoFile
    BY <2>1 DEF Stored
  <2>2. CASE entry[n] # NoFile
    BY <2>2, <1>1, NextStoredVersion
  <2>3. QED
    BY <2>1, <2>2
<1>4. disk'[n] = disk[n] => Stored(disk, n)' = Stored(disk, n)
  <2>1. CASE disk[n] = NoFile
    BY <2>1 DEF Stored
  <2>2. CASE disk[n] # NoFile
    BY <2>2, <1>2, NextStoredVersion
  <2>3. QED
    BY <2>1, <2>2
<1>5. disk'[n] = entry[n] => Stored(disk, n)' = Stored(entry, n)
  <2>1. CASE entry[n] = NoFile
    BY <2>1 DEF Stored
  <2>2. CASE entry[n] # NoFile
    BY <2>2, <1>1, NextStoredVersion
  <2>3. QED
    BY <2>1, <2>2
<1>6. entry'[n] = disk[n] => Stored(entry, n)' = Stored(disk, n)
  <2>1. CASE disk[n] = NoFile
    BY <2>1 DEF Stored
  <2>2. CASE disk[n] # NoFile
    BY <2>2, <1>2, NextStoredVersion
  <2>3. QED
    BY <2>1, <2>2
<1>7. QED
  BY <1>3, <1>4, <1>5, <1>6

\* Only a rename changes what a final file is, and only a power loss takes it back; the
\* files that either directory names under a final name keep their content.
LEMMA FinalsKept ==
  ASSUME StoreIInv, MaxWriters = 1, [StoreNext]_storeVars, NEW n \in Finals
  PROVE  /\ entry[n] # NoFile => content'[entry[n]] = content[entry[n]]
         /\ disk[n] # NoFile => content'[disk[n]] = content[disk[n]]
<1> USE DEF StoreIInv
<1>1. n \in Names /\ n # "tmp" /\ "tmp" \in Names
  BY DEF Names, Finals
<1>2. /\ entry[n] # NoFile => entry[n] \in Writes /\ entry[n] \in synced
      /\ disk[n] # NoFile => disk[n] \in Writes /\ disk[n] \in synced
  BY <1>1 DEF StoreTypeOK, FinalsSynced, AllSynced
<1>3. ASSUME NEW w \in Writes, Create(w)
      PROVE  /\ entry[n] # NoFile => content'[entry[n]] = content[entry[n]]
             /\ disk[n] # NoFile => content'[disk[n]] = content[disk[n]]
  <2> DEFINE i == IF entry["tmp"] = NoFile THEN w ELSE entry["tmp"]
  <2>1. /\ entry[n] # NoFile => entry[n] # i
        /\ disk[n] # NoFile => disk[n] # i
    BY <1>1, <1>3 DEF Create, MayBegin, Apart, Unused, NoFinal
  <2>2. content' = [content EXCEPT ![i] = <<>>]
    BY <1>3 DEF Create
  <2> HIDE DEF i
  <2>3. QED
    BY <1>2, <2>1, <2>2 DEF StoreTypeOK
<1>4. ASSUME NEW w \in Writes, WriteAll(w) \/ WriteShort(w)
      PROVE  /\ entry[n] # NoFile => content'[entry[n]] = content[entry[n]]
             /\ disk[n] # NoFile => content'[disk[n]] = content[disk[n]]
  <2>1. w \in Active
    BY <1>4 DEF WriteAll, WriteShort, Active
  <2>2. /\ entry[n] # NoFile => entry[n] # fd[w]
        /\ disk[n] # NoFile => disk[n] # fd[w]
    BY <2>1, TemporaryAlone
  <2>3. QED
    BY <1>2, <1>4, <2>2 DEF WriteAll, WriteShort, StoreTypeOK
<1>5. ASSUME PowerLoss
      PROVE  /\ entry[n] # NoFile => content'[entry[n]] = content[entry[n]]
             /\ disk[n] # NoFile => content'[disk[n]] = content[disk[n]]
  BY <1>2, <1>5 DEF PowerLoss
<1>6. ASSUME NEW w \in Writes, Refuse(w) \/ Sync(w) \/ Rename(w) \/ Stop(w)
      PROVE  UNCHANGED content
  BY <1>6 DEF Refuse, Sync, Rename, Stop
<1>7. ASSUME WriteBack \/ ChangeKey \/ UNCHANGED storeVars
      PROVE  UNCHANGED content
  BY <1>7 DEF WriteBack, ChangeKey, storeVars
<1>8. QED
  BY <1>3, <1>4, <1>5, <1>6, <1>7 DEF StoreNext

\* What a rename makes of the version that a final file has.
LEMMA RenamePuts ==
  ASSUME StoreIInv, NEW w \in Writes, Rename(w), NEW n \in Finals,
         entry[n] # NoFile => content'[entry[n]] = content[entry[n]],
         disk[n] # NoFile => content'[disk[n]] = content[disk[n]]
  PROVE  \/ Stored(entry, n)' = Stored(entry, n)
         \/ \E v \in 1..MaxWrites : v > Stored(entry, n) /\ Stored(entry, n)' = v
<1>1. w \in Active /\ pc[w] = "synced" /\ entry["tmp"] = fd[w] /\ fd[w] # NoFile
      /\ content[fd[w]] = Payload(w, withKey[w])
  BY TemporaryAlone DEF Rename, Active, StoreIInv, OwnsTemporary
<1>2. n \in Names /\ n # "tmp" /\ "tmp" \in Names /\ FinalOf(w) \in Finals
      /\ FinalOf(w) \in Names /\ FinalOf(w) # "tmp"
  BY DEF Names, Finals, FinalOf
<1>3. entry' = [entry EXCEPT ![FinalOf(w)] = fd[w], !["tmp"] = NoFile] /\ content' = content
  BY <1>1 DEF Rename
<1>4. CASE n # FinalOf(w)
  <2>1. entry'[n] = entry[n]
    BY <1>2, <1>3, <1>4 DEF StoreIInv, StoreTypeOK
  <2>2. QED
    BY <2>1, SameStored
<1>5. CASE n = FinalOf(w)
  <2>1. entry'[n] = fd[w]
    BY <1>2, <1>3, <1>5 DEF StoreIInv, StoreTypeOK
  <2>2. (n = "enc") = withKey[w]
    BY <1>5 DEF FinalOf, StoreIInv, StoreTypeOK
  <2>3. Payload(w, n = "enc") = Payload(w, withKey[w])
    BY <2>2
  <2>4. content'[entry'[n]] = Payload(w, n = "enc")
    BY <1>1, <1>3, <2>1, <2>3
  <2>5. Stored(entry, n)' = w
    BY <1>1, <2>1, <2>4, NextStoredVersion
  <2>6. w > Stored(entry, n)
    <3>1. CASE entry[n] = NoFile
      BY <3>1, SizePositive DEF Stored, NoFile, Writes
    <3>2. CASE entry[n] # NoFile
      <4>1. PICK v \in Kept : Holds(entry, n, v)
        BY <3>2 DEF StoreIInv, FinalsSynced, AllSynced
      <4>2. v \in Writes /\ Stored(entry, n) = v
        BY <3>2, <4>1, StoredVersion DEF Kept
      <4>3. v # w /\ ~(w < v)
        BY <1>1, <4>1 DEF StoreIInv, InOrder, Kept
      <4>4. QED
        BY <4>2, <4>3, SizePositive
    <3>3. QED
      BY <3>1, <3>2
  <2>7. QED
    BY <2>5, <2>6 DEF Writes
<1>6. QED
  BY <1>4, <1>5

\* Every step of the files is a step of the register or leaves it alone.
LEMMA RegisterStep ==
  ASSUME StoreIInv, MaxWriters = 1, [StoreNext]_storeVars, NEW n \in Finals
  PROVE  \/ /\ Stored(entry, n)' = Stored(entry, n)
            /\ Stored(disk, n)' \in {Stored(disk, n), Stored(entry, n)}
         \/ /\ \E v \in 1..MaxWrites : v > Stored(entry, n) /\ Stored(entry, n)' = v
            /\ Stored(disk, n)' = Stored(disk, n)
         \/ Stored(entry, n)' = Stored(disk, n) /\ Stored(disk, n)' = Stored(disk, n)
<1>1. /\ entry[n] # NoFile => content'[entry[n]] = content[entry[n]]
      /\ disk[n] # NoFile => content'[disk[n]] = content[disk[n]]
  BY FinalsKept
<1>2. CASE WriteBack
  <2>1. entry' = entry /\ disk' = entry
    BY <1>2 DEF WriteBack
  <2>2. QED
    BY <1>1, <2>1, SameStored
<1>3. CASE PowerLoss
  <2>1. entry' = disk /\ disk' = disk
    BY <1>3 DEF PowerLoss
  <2>2. QED
    BY <1>1, <2>1, SameStored
<1>4. ASSUME NEW w \in Writes, Rename(w)
      PROVE  /\ \/ Stored(entry, n)' = Stored(entry, n)
                \/ \E v \in 1..MaxWrites : v > Stored(entry, n) /\ Stored(entry, n)' = v
             /\ Stored(disk, n)' = Stored(disk, n)
  <2>1. disk' = disk
    BY <1>4 DEF Rename
  <2>2. Stored(disk, n)' = Stored(disk, n)
    BY <1>1, <2>1, SameStored
  <2>3. QED
    BY <1>1, <1>4, <2>2, RenamePuts
<1>5. ASSUME ~WriteBack, ~PowerLoss, \A w \in Writes : ~Rename(w)
      PROVE  entry'[n] = entry[n] /\ disk' = disk
  <2>1. n \in Names /\ n # "tmp"
    BY DEF Names, Finals
  <2>2. ASSUME NEW w \in Writes, Create(w) PROVE entry'[n] = entry[n] /\ disk' = disk
    BY <2>1, <2>2 DEF Create, StoreIInv, StoreTypeOK
  <2>3. QED
    BY <1>5, <2>2 DEF StoreNext, Refuse, WriteAll, WriteShort, Sync, Stop, ChangeKey, storeVars
<1>6. CASE ~WriteBack /\ ~PowerLoss /\ \A w \in Writes : ~Rename(w)
  BY <1>1, <1>5, <1>6, SameStored
<1>7. QED
  BY <1>2, <1>3, <1>4, <1>6

\* With one writer at a time each of the two files implements the register: its readers
\* see whole snapshots, each newer than the one before, until a power loss takes them
\* back to the whole snapshot that the disk has.
THEOREM StoreRefinesRegister ==
  ASSUME MaxWriters = 1
  PROVE  StoreSpec => RegisterSpec
<1>1. StoreInit => Plain!Init /\ Encrypted!Init
  BY DEF StoreInit, Plain!Init, Encrypted!Init, Stored, Names, Finals, NoFile
<1>2. StoreIInv /\ [StoreNext]_storeVars
      => /\ [Plain!Put \/ Plain!Settle \/ Plain!Lose]_<<Stored(entry, "json"), Stored(disk, "json")>>
         /\ [Encrypted!Put \/ Encrypted!Settle \/ Encrypted!Lose]_<<Stored(entry, "enc"), Stored(disk, "enc")>>
  <2>1. "json" \in Finals /\ "enc" \in Finals
    BY DEF Finals
  <2>2. QED
    BY <2>1, RegisterStep DEF Plain!Put, Encrypted!Put, Plain!Settle, Encrypted!Settle,
                              Plain!Lose, Encrypted!Lose
<1>3. QED
  BY <1>1, <1>2, StoreInvariant, PTL DEF StoreSpec, RegisterSpec, Plain!Spec, Encrypted!Spec

-----------------------------------------------------------------------------
(* The listening commands. *)

\* Type invariant of what counting looks at, whatever the command.
ListenersTypeOK ==
  /\ loop \in {"accept", "check", "returned"}
  /\ stage \in [Clients -> Stages]
  /\ write \in [Clients -> Writes \cup {NoFile}]
  /\ pc \in [Writes -> {"new", "open", "written", "synced", "ok", "err"}]
  /\ count \in Nat
  /\ total \in Nat \cup {NotReturned}

StoredWrites == {w \in Writes : pc[w] = "ok"}
Counting == {c \in Clients : stage[c] = "count"}

\* A session that is about to count has stored its packet, and no other session
\* stored it.
CountCovered == count + Cardinality(Counting) <= Cardinality(StoredWrites)

\* What run() has returned was counted, and was enough.
ReturnedEnough == loop = "returned" => MaxPackets <= total /\ total <= count

CountIInv == ListenersTypeOK /\ (tool = "sniff" => CountCovered /\ ReturnedEnough)

\* The listening commands have no key, so that only the plain file comes to be.
NoKey ==
  /\ ~key /\ \A w \in Writes : ~withKey[w]
  /\ entry["enc"] = NoFile

\* The capture proxy's write under way is of the snapshot file itself, which it has
\* truncated; every session has a write of its own.
CaptureOwns ==
  \A w \in Active :
    pc[w] = "open" /\ fd[w] = entry["json"] /\ content[entry["json"]] = <<>>
OwnWrites ==
  \A c \in Clients : write[c] # NoFile =>
    /\ pc[write[c]] # "new" /\ stage[c] \in {"record", "over"}
    /\ At(c, "record") => pc[write[c]] = "open"
    /\ \A d \in Clients : write[d] = write[c] => d = c

\* The snapshot file holds the newest capture, unless a later one has destroyed it.
CapturedHeld ==
  /\ entry["json"] # NoFile => Created # {}
  /\ \A w \in Writes : pc[w] = "ok" =>
       /\ fd[w] # NoFile /\ entry["json"] # NoFile
       /\ \/ \E v \in Created : v > w
          \/ content[entry["json"]] = Payload(w, FALSE)
CaptureIInv == InOrder /\ CaptureOwns /\ OwnWrites /\ CapturedHeld

\* As long as no two writes were under way at once, the inductive invariant of the
\* snapshot files holds for the sniffer, and the capture proxy has one of its own.
NewestIInv ==
  /\ StoreTypeOK /\ NoKey
  /\ ~overlapped => IF tool = "capture" THEN CaptureIInv ELSE StoreIInv

-----------------------------------------------------------------------------
\* Both sets that are counted are finite.
LEMMA CountedFinite ==
  /\ IsFiniteSet(StoredWrites) /\ Cardinality(StoredWrites) \in Nat
  /\ IsFiniteSet(Counting) /\ Cardinality(Counting) \in Nat
<1>1. IsFiniteSet(1..MaxWrites)
  BY FS_Interval, StoreAssumption
<1>2. StoredWrites \subseteq 1..MaxWrites /\ Counting \subseteq 1..MaxWrites
  BY DEF StoredWrites, Counting, Writes, Clients
<1>3. IsFiniteSet(StoredWrites) /\ IsFiniteSet(Counting)
  BY <1>1, <1>2, FS_Subset
<1>4. QED
  BY <1>3, FS_CardinalityType

\* The same, of the next state.
LEMMA CountedFiniteNext ==
  /\ IsFiniteSet(StoredWrites') /\ Cardinality(StoredWrites') \in Nat
  /\ IsFiniteSet(Counting') /\ Cardinality(Counting') \in Nat
<1>1. IsFiniteSet(1..MaxWrites)
  BY FS_Interval, StoreAssumption
<1>2. StoredWrites' \subseteq 1..MaxWrites /\ Counting' \subseteq 1..MaxWrites
  BY DEF StoredWrites, Counting, Writes, Clients
<1>3. IsFiniteSet(StoredWrites') /\ IsFiniteSet(Counting')
  BY <1>1, <1>2, FS_Subset
<1>4. QED
  BY <1>3, FS_CardinalityType

\* A step after which the same or more is stored, the same or fewer sessions are
\* about to count, and the counter is the same, keeps the count covered.
LEMMA CoveredKept ==
  ASSUME CountCovered, count \in Nat, count' = count,
         StoredWrites \subseteq StoredWrites', Counting' \subseteq Counting
  PROVE  CountCovered'
<1>1. Cardinality(StoredWrites) <= Cardinality(StoredWrites')
  BY CountedFiniteNext, FS_Subset
<1>2. Cardinality(Counting') <= Cardinality(Counting)
  BY CountedFinite, FS_Subset
<1>3. QED
  BY <1>1, <1>2, CountedFinite, CountedFiniteNext DEF CountCovered

\* A session that moves between two stages other than "count" leaves the sessions
\* that are about to count as they are.
LEMMA MovedElsewhere ==
  ASSUME ListenersTypeOK, NEW c \in Clients, NEW s \in Stages, Goto(c, s), s # "count"
  PROVE  Counting' \subseteq Counting /\ stage' \in [Clients -> Stages]
BY DEF ListenersTypeOK, Goto, Counting

\* Only the rename acknowledges a write; every other step of a write leaves what is
\* stored as it is.
LEMMA StoreStepKeeps ==
  ASSUME ListenersTypeOK, NEW w \in Writes,
         Refuse(w) \/ Create(w) \/ WriteAll(w) \/ WriteShort(w) \/ Sync(w) \/ Stop(w)
  PROVE  /\ StoredWrites' = StoredWrites
         /\ pc' \in [Writes -> {"new", "open", "written", "synced", "ok", "err"}]
         /\ pc'[w] # "ok"
<1>1. pc[w] # "ok"
  BY DEF Refuse, Create, MayBegin, WriteAll, WriteShort, Sync, Stop, Active
<1>2. \E s \in {"open", "written", "synced", "err"} : pc' = [pc EXCEPT ![w] = s]
  BY DEF Refuse, Create, WriteAll, WriteShort, Sync, Stop
<1>3. QED
  BY <1>1, <1>2 DEF ListenersTypeOK, StoredWrites

\* The rename adds its write to what is stored, or fails.
LEMMA RenameStores ==
  ASSUME ListenersTypeOK, NEW w \in Writes, Rename(w)
  PROVE  /\ w \notin StoredWrites
         /\ pc' \in [Writes -> {"new", "open", "written", "synced", "ok", "err"}]
         /\ \/ pc'[w] = "ok" /\ StoredWrites' = StoredWrites \cup {w}
            \/ pc'[w] # "ok" /\ StoredWrites' = StoredWrites
<1>1. pc[w] = "synced"
  BY DEF Rename
<1>2. CASE entry["tmp"] = NoFile
  <2>1. pc' = [pc EXCEPT ![w] = "err"]
    BY <1>2 DEF Rename
  <2>2. QED
    BY <1>1, <2>1 DEF ListenersTypeOK, StoredWrites
<1>3. CASE entry["tmp"] # NoFile
  <2>1. pc' = [pc EXCEPT ![w] = "ok"]
    BY <1>3 DEF Rename
  <2>2. QED
    BY <1>1, <2>1 DEF ListenersTypeOK, StoredWrites
<1>4. QED
  BY <1>2, <1>3

-----------------------------------------------------------------------------
LEMMA CountInit == ListenersInit => CountIInv
<1> SUFFICES ASSUME ListenersInit PROVE CountIInv
  OBVIOUS
<1>1. ListenersTypeOK
  BY DEF ListenersInit, SessionsInit, StoreInit, SnifferInit, ListenersTypeOK, LoopStart,
         Stages, NotReturned
<1>2. StoredWrites = {} /\ Counting = {}
  BY DEF ListenersInit, SessionsInit, StoreInit, StoredWrites, Counting
<1>3. CountCovered
  BY <1>2, FS_EmptySet DEF CountCovered, ListenersInit, SnifferInit
<1>4. ReturnedEnough
  BY DEF ListenersInit, SessionsInit, ReturnedEnough, LoopStart
<1>5. QED
  BY <1>1, <1>3, <1>4 DEF CountIInv

\* The steps of the capture and the shadow proxy count nothing.
LEMMA OtherCommandsKeep ==
  ASSUME CountIInv, NEW c \in Clients,
         Capturing(c) \/ Shadowing(c)
  PROVE  CountIInv'
<1> USE DEF CountIInv
<1>1. tool # "sniff" /\ tool' = tool /\ UNCHANGED snifferVars
  BY DEF Capturing, CaptureSession, CaptureForward, CaptureRelay, CaptureWrite, CaptureCreate,
         CaptureCannot, Shadowing, ShadowSession, ShadowUpstream, ShadowJoin, ShadowRelay,
         sessionVars
<1>2. count' = count /\ total' = total
  BY <1>1 DEF snifferVars
<1>3. loop' \in {"accept", "check", "returned"}
  BY DEF ListenersTypeOK, Capturing, CaptureSession, CaptureForward, CaptureRelay, CaptureWrite,
         CaptureCreate, CaptureCannot, Shadowing, ShadowSession, ShadowUpstream, ShadowJoin,
         ShadowRelay, sessionVars
<1>4. stage' \in [Clients -> Stages]
  <2>1. stage' = stage \/ \E s \in Stages : Goto(c, s)
    BY DEF Stages, Capturing, CaptureSession, CaptureForward, CaptureRelay, CaptureWrite,
           CaptureCreate, CaptureCannot, Shadowing, ShadowSession, ShadowUpstream, ShadowJoin,
           ShadowRelay, sessionVars
  <2>2. QED
    BY <2>1 DEF ListenersTypeOK, Goto
<1>5. write' \in [Clients -> Writes \cup {NoFile}]
  <2>1. write' = write \/ \E w \in Writes : write' = [write EXCEPT ![c] = w]
    BY DEF BeginWrite, Capturing, CaptureSession, CaptureForward, CaptureRelay, CaptureWrite,
           CaptureCreate, CaptureCannot, Shadowing, ShadowSession, ShadowUpstream, ShadowJoin,
           ShadowRelay, sessionVars
  <2>2. QED
    BY <2>1 DEF ListenersTypeOK
<1>6. pc' \in [Writes -> {"new", "open", "written", "synced", "ok", "err"}]
  <2>1. \/ pc' = pc
        \/ \E w, s : s \in {"open", "ok", "err"} /\ pc' = [pc EXCEPT ![w] = s]
    BY DEF Refuse, WriteShort, storeVars, Capturing, CaptureSession, CaptureForward, CaptureRelay,
           CaptureWrite, CaptureCreate, CaptureCannot, Shadowing, ShadowSession, ShadowUpstream,
           ShadowJoin, ShadowRelay
  <2>2. QED
    BY <2>1 DEF ListenersTypeOK
<1>7. QED
  BY <1>1, <1>2, <1>3, <1>4, <1>5, <1>6 DEF ListenersTypeOK

\* Connecting, accepting and receiving bring no session to the counter.
LEMMA LoopKeeps ==
  ASSUME CountIInv, NEW c \in Clients,
         \/ (Connect(c) \/ Accept(c)) /\ UNCHANGED <<snifferVars, upstream, restarts>>
         \/ Receiving(c)
  PROVE  CountIInv'
<1> USE DEF CountIInv
<1>1. \E s \in Stages : s # "count" /\ Goto(c, s)
  BY DEF Stages, Connect, Accept, Receiving, CaptureReceive, SniffReceive, ShadowReceive, Receive
<1>2. Counting' \subseteq Counting /\ stage' \in [Clients -> Stages]
  BY <1>1, MovedElsewhere
<1>3. /\ tool' = tool /\ write' = write /\ pc' = pc /\ count' = count /\ total' = total
      /\ loop' = loop \/ loop' \in {"accept", "check"}
  BY DEF Connect, Accept, LoopStart, Receiving, CaptureReceive, SniffReceive, ShadowReceive, Receive,
         storeVars, snifferVars
<1>4. ListenersTypeOK'
  BY <1>2, <1>3 DEF ListenersTypeOK
<1>5. ASSUME tool = "sniff" PROVE CountCovered' /\ ReturnedEnough'
  <2>1. StoredWrites' = StoredWrites
    BY <1>3 DEF StoredWrites
  <2>2. CountCovered'
    BY <1>2, <1>3, <1>5, <2>1, CoveredKept DEF ListenersTypeOK
  <2>3. QED
    BY <1>3, <1>5, <2>2 DEF ReturnedEnough
<1>6. QED
  BY <1>3, <1>4, <1>5

\* The head of the sniffer's loop returns what it has found to be enough.
LEMMA CheckKeeps ==
  ASSUME CountIInv, SniffCheck
  PROVE  CountIInv'
<1> USE DEF CountIInv
<1>1. /\ tool' = tool /\ write' = write /\ pc' = pc /\ count' = count /\ stage' = stage
      /\ loop' \in {"accept", "returned"}
      /\ total' \in {total, count}
  BY DEF SniffCheck, storeVars
<1>2. ListenersTypeOK'
  BY <1>1 DEF ListenersTypeOK
<1>3. StoredWrites' = StoredWrites /\ Counting' = Counting
  BY <1>1 DEF StoredWrites, Counting
<1>4. CountCovered'
  BY <1>1, <1>3, CoveredKept DEF SniffCheck, ListenersTypeOK
<1>5. ReturnedEnough'
  BY SnifferAssumption DEF ReturnedEnough, SniffCheck, ListenersTypeOK
<1>6. QED
  BY <1>2, <1>4, <1>5

\* A write of the sniffer begins.
LEMMA SniffCreateKeeps ==
  ASSUME CountIInv, NEW c \in Clients, NEW w \in Writes, SniffCreate(c, w)
  PROVE  CountIInv'
<1> USE DEF CountIInv
<1>1. /\ tool = "sniff" /\ tool' = tool /\ loop' = loop /\ count' = count /\ total' = total
      /\ write' = [write EXCEPT ![c] = w]
      /\ Refuse(w) \/ Create(w)
      /\ stage' = stage \/ Goto(c, "ack")
  BY DEF SniffCreate, BeginWrite, snifferVars
<1>2. Counting' \subseteq Counting /\ stage' \in [Clients -> Stages]
  <2>1. CASE stage' = stage
    BY <2>1 DEF Counting, ListenersTypeOK
  <2>2. CASE Goto(c, "ack")
    BY <2>2, MovedElsewhere DEF Stages
  <2>3. QED
    BY <1>1, <2>1, <2>2
<1>3. /\ StoredWrites' = StoredWrites
      /\ pc' \in [Writes -> {"new", "open", "written", "synced", "ok", "err"}]
  BY <1>1, StoreStepKeeps
<1>4. ListenersTypeOK'
  BY <1>1, <1>2, <1>3 DEF ListenersTypeOK
<1>5. CountCovered'
  BY <1>1, <1>2, <1>3, CoveredKept DEF ListenersTypeOK
<1>6. QED
  BY <1>1, <1>4, <1>5 DEF ReturnedEnough

\* A step of a write of the sniffer: a session goes to the counter exactly when its
\* rename has stored the packet.
LEMMA SniffStoreKeeps ==
  ASSUME CountIInv, NEW c \in Clients, SniffStore(c)
  PROVE  CountIInv'
<1> USE DEF CountIInv
<1> DEFINE w == write[c]
<1>1. /\ tool = "sniff" /\ tool' = tool /\ loop' = loop /\ count' = count /\ total' = total
      /\ write' = write
      /\ w \in Writes /\ stage[c] = "record"
  BY DEF SniffStore, ListenersTypeOK, snifferVars, At
<1>2. CASE (WriteAll(w) \/ Sync(w)) /\ UNCHANGED stage
  <2>1. /\ StoredWrites' = StoredWrites
        /\ pc' \in [Writes -> {"new", "open", "written", "synced", "ok", "err"}]
    BY <1>1, <1>2, StoreStepKeeps
  <2>2. Counting' = Counting
    BY <1>2 DEF Counting
  <2>3. ListenersTypeOK'
    BY <1>1, <1>2, <2>1 DEF ListenersTypeOK
  <2>4. CountCovered'
    BY <1>1, <2>1, <2>2, CoveredKept DEF ListenersTypeOK
  <2>5. QED
    BY <1>1, <2>3, <2>4 DEF ReturnedEnough
<1>3. CASE /\ WriteShort(w) \/ Stop(w) \/ Rename(w)
           /\ pc'[w] # "ok" /\ Goto(c, "ack")
  <2>1. /\ StoredWrites' = StoredWrites
        /\ pc' \in [Writes -> {"new", "open", "written", "synced", "ok", "err"}]
    BY <1>1, <1>3, StoreStepKeeps, RenameStores
  <2>2. Counting' \subseteq Counting /\ stage' \in [Clients -> Stages]
    BY <1>3, MovedElsewhere DEF Stages
  <2>3. ListenersTypeOK'
    BY <1>1, <2>1, <2>2 DEF ListenersTypeOK
  <2>4. CountCovered'
    BY <1>1, <2>1, <2>2, CoveredKept DEF ListenersTypeOK
  <2>5. QED
    BY <1>1, <2>3, <2>4 DEF ReturnedEnough
<1>4. CASE Rename(w) /\ pc'[w] = "ok" /\ Goto(c, "count")
  <2>1. /\ w \notin StoredWrites /\ StoredWrites' = StoredWrites \cup {w}
        /\ pc' \in [Writes -> {"new", "open", "written", "synced", "ok", "err"}]
    BY <1>1, <1>4, RenameStores
  <2>2. c \notin Counting /\ Counting' = Counting \cup {c}
    BY <1>1, <1>4 DEF Counting, Goto, ListenersTypeOK
  <2>3. stage' \in [Clients -> Stages]
    BY <1>4 DEF Goto, Stages, ListenersTypeOK
  <2>4. ListenersTypeOK'
    BY <1>1, <2>1, <2>3 DEF ListenersTypeOK
  <2>5. /\ Cardinality(StoredWrites') = Cardinality(StoredWrites) + 1
        /\ Cardinality(Counting') = Cardinality(Counting) + 1
    BY <2>1, <2>2, CountedFinite, FS_AddElement
  <2>6. CountCovered'
    BY <1>1, <2>5, CountedFinite DEF CountCovered, ListenersTypeOK
  <2>7. QED
    BY <1>1, <2>4, <2>6 DEF ReturnedEnough
<1>5. QED
  <2>1. WriteShort(w) \/ Stop(w) => pc'[w] # "ok"
    BY <1>1, StoreStepKeeps
  <2>2. QED
    BY <1>2, <1>3, <1>4, <2>1 DEF SniffStore

\* Counting takes the session from those that are about to count.
LEMMA SniffCountKeeps ==
  ASSUME CountIInv, NEW c \in Clients, SniffCount(c)
  PROVE  CountIInv'
<1> USE DEF CountIInv
<1>1. /\ tool = "sniff" /\ tool' = tool /\ loop' = loop /\ count' = count + 1 /\ total' = total
      /\ write' = write /\ pc' = pc /\ stage[c] = "count" /\ Goto(c, "ack")
  BY DEF SniffCount, storeVars, At
<1>2. StoredWrites' = StoredWrites
  BY <1>1 DEF StoredWrites
<1>3. c \in Counting /\ Counting' = Counting \ {c} /\ stage' \in [Clients -> Stages]
  BY <1>1 DEF Counting, Goto, ListenersTypeOK, Stages
<1>4. Cardinality(Counting') = Cardinality(Counting) - 1
  BY <1>3, CountedFinite, FS_RemoveElement
<1>5. ListenersTypeOK'
  BY <1>1, <1>3 DEF ListenersTypeOK
<1>6. CountCovered'
  BY <1>1, <1>2, <1>4, CountedFinite DEF CountCovered, ListenersTypeOK
<1>7. ReturnedEnough'
  BY <1>1, SnifferAssumption DEF ReturnedEnough, ListenersTypeOK, NotReturned
<1>8. QED
  BY <1>5, <1>6, <1>7

\* The acknowledgement counts nothing.
LEMMA SniffAckKeeps ==
  ASSUME CountIInv, NEW c \in Clients, SniffAck(c)
  PROVE  CountIInv'
<1> USE DEF CountIInv
<1>1. /\ tool = "sniff" /\ tool' = tool /\ loop' = loop /\ count' = count /\ total' = total
      /\ write' = write /\ pc' = pc /\ Goto(c, "over")
  BY DEF SniffAck, storeVars, snifferVars
<1>2. Counting' \subseteq Counting /\ stage' \in [Clients -> Stages]
  BY <1>1, MovedElsewhere DEF Stages
<1>3. StoredWrites' = StoredWrites
  BY <1>1 DEF StoredWrites
<1>4. ListenersTypeOK'
  BY <1>1, <1>2 DEF ListenersTypeOK
<1>5. CountCovered'
  BY <1>1, <1>2, <1>3, CoveredKept DEF ListenersTypeOK
<1>6. QED
  BY <1>1, <1>4, <1>5 DEF ReturnedEnough

\* A restart forgets the sessions and the counter; what is stored stays.
LEMMA RestartKeeps ==
  ASSUME CountIInv, Restart
  PROVE  CountIInv'
<1> USE DEF CountIInv
<1>1. /\ tool' = tool /\ write' = write /\ count' = 0 /\ total' = NotReturned
      /\ loop' \in {"accept", "check"}
      /\ stage' = [c \in Clients |-> IF At(c, "new") THEN "new" ELSE "over"]
      /\ pc' = [w \in Writes |-> IF w \in Active THEN "err" ELSE pc[w]]
  BY DEF Restart, RestartSessions, LoopStart
<1>2. Counting' = {}
  BY <1>1 DEF Counting
<1>3. ListenersTypeOK'
  BY <1>1 DEF ListenersTypeOK, Stages, NotReturned
<1>4. CountCovered'
  BY <1>1, <1>2, FS_EmptySet, CountedFiniteNext DEF CountCovered
<1>5. ReturnedEnough'
  BY <1>1 DEF ReturnedEnough
<1>6. QED
  BY <1>3, <1>4, <1>5

LEMMA CountStep == CountIInv /\ [ListenersNext]_listenerVars => CountIInv'
<1> SUFFICES ASSUME CountIInv, [ListenersNext]_listenerVars PROVE CountIInv'
  OBVIOUS
<1>1. CASE \E c \in Clients : Connect(c) /\ UNCHANGED <<snifferVars, upstream, restarts>>
  BY <1>1, LoopKeeps
<1>2. CASE LoopStep
  BY <1>2, LoopKeeps, CheckKeeps DEF LoopStep
<1>3. CASE \E c \in Clients : Receiving(c)
  BY <1>3, LoopKeeps
<1>4. CASE \E c \in Clients : Capturing(c) \/ Shadowing(c)
  BY <1>4, OtherCommandsKeep
<1>5. CASE \E c \in Clients : Sniffing(c)
  BY <1>5, SniffCreateKeeps, SniffStoreKeeps, SniffCountKeeps, SniffAckKeeps
     DEF Sniffing, SniffSession
<1>6. CASE CtrlC /\ UNCHANGED <<snifferVars, upstream, restarts>>
  <2>1. tool # "sniff"
    BY <1>6 DEF CtrlC
  <2>2. /\ UNCHANGED <<tool, stage, write, pc, count, total>>
        /\ loop' = "returned"
    BY <1>6 DEF CtrlC, storeVars, snifferVars
  <2>3. QED
    BY <2>1, <2>2 DEF CountIInv, ListenersTypeOK
<1>7. CASE Restart
  BY <1>7, RestartKeeps
<1>8. CASE UNCHANGED listenerVars
  <2>1. UNCHANGED <<tool, loop, stage, write, pc, count, total>>
    BY <1>8 DEF listenerVars, storeVars, sessionVars, snifferVars
  <2>2. StoredWrites' = StoredWrites /\ Counting' = Counting
    BY <2>1 DEF StoredWrites, Counting
  <2>3. QED
    BY <2>1, <2>2 DEF CountIInv, ListenersTypeOK, CountCovered, ReturnedEnough
<1>9. QED
  BY <1>1, <1>2, <1>3, <1>4, <1>5, <1>6, <1>7, <1>8 DEF ListenersNext, SessionStep

-----------------------------------------------------------------------------
\* The inductive invariant always holds: the sessions' state has its type, and of
\* the sniffer every packet that is counted, or about to be, is stored.
THEOREM ListenersInvariant == ListenersSpec => []CountIInv
<1>1. QED
  BY CountInit, CountStep, PTL DEF ListenersSpec

\* The state that the three commands share has its type.
THEOREM ListenersTypeCorrect == ListenersSpec => []ListenersTypeOK
<1>1. CountIInv => ListenersTypeOK
  BY DEF CountIInv
<1>2. QED
  BY <1>1, ListenersInvariant, PTL

\* commands.rs:916: the number that the sniffer reports is at least what was asked
\* for, and each of the sessions that it counts was stored - for any number of
\* sessions at once, which share one temporary file.
THEOREM ListenersCountHonest == ListenersSpec => []CountHonest
<1>1. CountIInv => CountHonest
  <2> SUFFICES ASSUME CountIInv, tool = "sniff"
               PROVE  count <= Cardinality(StoredWrites) /\ ReturnedEnough
    BY DEF CountHonest, StoredWrites, ReturnedEnough
  <2>1. count + Cardinality(Counting) <= Cardinality(StoredWrites) /\ count \in Nat
    BY DEF CountIInv, CountCovered, ListenersTypeOK
  <2>2. QED
    BY <2>1, CountedFinite DEF CountIInv
<1>2. QED
  BY <1>1, ListenersInvariant, PTL

-----------------------------------------------------------------------------
(* The newest snapshot. *)

\* A set of numbers up to a bound has a largest one, if it has any.
LEMMA LargestExists ==
  ASSUME NEW n \in Nat, NEW S \in SUBSET (1..n), S # {}
  PROVE  Max(S) \in S /\ \A y \in S : Max(S) >= y
<1> DEFINE T == {m \in Nat : \A R \in SUBSET (1..m) : R # {} => \E x \in R : \A y \in R : x >= y}
<1>1. 0 \in T
  <2>1. \A x \in 1..0 : FALSE
    OBVIOUS
  <2>2. QED
    BY <2>1
<1>2. ASSUME NEW m \in Nat, m \in T PROVE m + 1 \in T
  <2> SUFFICES ASSUME NEW R \in SUBSET (1..(m + 1)), R # {}
               PROVE  \E x \in R : \A y \in R : x >= y
    OBVIOUS
  <2>1. CASE m + 1 \in R
    <3>1. \A y \in R : m + 1 >= y
      OBVIOUS
    <3>2. QED
      BY <2>1, <3>1
  <2>2. CASE m + 1 \notin R
    <3>1. R \in SUBSET (1..m)
      BY <2>2
    <3>2. QED
      BY <1>2, <3>1
  <2>3. QED
    BY <2>1, <2>2
<1>3. n \in T
  <2> HIDE DEF T
  <2>1. QED
    BY <1>1, <1>2, SetInduction
<1>4. \E x \in S : \A y \in S : x >= y
  BY <1>3
<1>5. QED
  BY <1>4 DEF Max

LEMMA NewestIs ==
  /\ StoredWrites = {} => Newest = NoFile
  /\ StoredWrites # {} => Newest \in StoredWrites /\ \A v \in StoredWrites : v <= Newest
<1>1. MaxWrites \in Nat /\ StoredWrites \in SUBSET (1..MaxWrites)
  BY StoreAssumption DEF StoredWrites, Writes
<1>2. Newest = IF StoredWrites = {} THEN NoFile ELSE Max(StoredWrites)
  BY DEF Newest, StoredWrites
<1>3. StoredWrites # {} => Max(StoredWrites) \in StoredWrites
                           /\ \A v \in StoredWrites : Max(StoredWrites) >= v
  BY <1>1, LargestExists
<1>4. \A v \in StoredWrites : v \in Nat
  BY <1>1
<1> HIDE DEF StoredWrites, Max
<1>5. QED
  BY <1>2, <1>3, <1>4

\* The steps of write_snapshot_atomic without a key name no encrypted file.
LEMMA StoreStepNoKey ==
  ASSUME StoreTypeOK, NoKey, NEW w \in Writes,
         \/ Refuse(w) \/ Create(w) \/ WriteAll(w) \/ WriteShort(w) \/ Sync(w) \/ Rename(w)
         \/ Stop(w)
  PROVE  StoreTypeOK' /\ NoKey'
<1>1. StoreTypeOK'
  BY StoreTypeStep DEF StoreNext
<1>2. /\ key' = key
      /\ \/ withKey' = withKey
         \/ withKey' = [withKey EXCEPT ![w] = key]
  BY DEF Refuse, Create, WriteAll, WriteShort, Sync, Rename, Stop
<1>3. \A v \in Writes : ~withKey'[v]
  BY <1>2 DEF StoreTypeOK, NoKey
<1>4. entry'["enc"] = NoFile
  <2>1. \/ entry' = entry
        \/ \E i : entry' = [entry EXCEPT !["tmp"] = i]
        \/ \E i : entry' = [entry EXCEPT !["json"] = i, !["tmp"] = NoFile]
    <3>1. FinalOf(w) = "json"
      BY DEF NoKey, FinalOf
    <3>2. QED
      BY <3>1 DEF Refuse, Create, WriteAll, WriteShort, Sync, Rename, Stop
  <2>2. QED
    BY <2>1 DEF NoKey, StoreTypeOK, Names, Finals
<1>5. QED
  BY <1>1, <1>2, <1>3, <1>4 DEF NoKey

LEMMA NewestInit == ListenersInit => NewestIInv
<1> SUFFICES ASSUME ListenersInit PROVE NewestIInv
  OBVIOUS
<1>1. /\ StoreInit /\ ~key /\ write = [c \in Clients |-> NoFile]
  BY DEF ListenersInit, SessionsInit
<1>2. NoKey
  BY <1>1 DEF StoreInit, NoKey, Names, Finals
<1>3. CaptureIInv
  <2>1. Active = {} /\ entry["json"] = NoFile
    BY <1>1 DEF StoreInit, Active, Names, Finals
  <2>2. InOrder
    BY <1>1, StoreIInvInit DEF StoreIInv
  <2>3. CaptureOwns /\ OwnWrites /\ CapturedHeld
    BY <1>1, <2>1 DEF StoreInit, CaptureOwns, OwnWrites, CapturedHeld
  <2>4. QED
    BY <2>2, <2>3 DEF CaptureIInv
<1>4. QED
  BY <1>1, <1>2, <1>3, StoreTypeInit, StoreIInvInit DEF NewestIInv

\* What is read, from the invariant.
LEMMA NewestFromInv ==
  ASSUME ListenersTypeOK, NewestIInv
  PROVE  NewestKept
<1> SUFFICES ASSUME ~overlapped
             PROVE  \/ ReadSnapshot(FALSE) = Newest
                    \/ tool = "capture" /\ \E w \in Created : w > Newest
  BY DEF NewestKept
<1>1. StoreTypeOK /\ NoKey
  BY DEF NewestIInv
<1>2. ReadSnapshot(FALSE) = Stored(entry, "json")
  BY <1>1 DEF ReadSnapshot, NoKey, Stored
<1>3. "json" \in Finals /\ ("json" = "enc") = FALSE
  BY DEF Finals
<1>4. ASSUME NEW v \in Writes, entry["json"] # NoFile,
             content[entry["json"]] = Payload(v, FALSE)
      PROVE  Stored(entry, "json") = v
  <2>1. Holds(entry, "json", v)
    BY <1>3, <1>4 DEF Holds
  <2>2. QED
    BY <1>3, <1>4, <2>1, StoredVersion
<1>5. entry["json"] = NoFile => Stored(entry, "json") = NoFile
  BY DEF Stored
<1>6. \A v \in StoredWrites : v \in Writes /\ v \in Nat /\ pc[v] = "ok"
  BY SizePositive DEF StoredWrites
<1>7. CASE tool # "capture"
  <2>1. StoreIInv /\ Kept = StoredWrites
    BY <1>7 DEF NewestIInv, ListenersTypeOK, Kept, StoredWrites
  <2>2. CASE StoredWrites = {}
    <3>1. entry["json"] = NoFile
      BY <1>3, <2>1, <2>2 DEF StoreIInv, FinalsSynced, AllSynced
    <3>2. QED
      BY <1>2, <1>5, <2>2, <3>1, NewestIs
  <2>3. CASE StoredWrites # {}
    <3> DEFINE m == Newest
    <3>1. m \in StoredWrites /\ \A v \in StoredWrites : v <= m
      BY <2>3, NewestIs
    <3> HIDE DEF m
    <3>2. m \in Writes /\ pc[m] = "ok" /\ m \in Nat
      BY <1>6, <3>1
    <3>3. FinalOf(m) = "json"
      BY <1>1, <3>2 DEF NoKey, FinalOf
    <3>4. entry["json"] # NoFile /\ \E v \in Writes : m <= v /\ Holds(entry, "json", v)
      BY <2>1, <3>1, <3>3 DEF StoreIInv, AckedHeld, AllHeld
    <3>5. PICK v \in Writes : m <= v /\ Holds(entry, "json", v)
      BY <3>4
    <3>6. PICK u \in Writes : pc[u] = "ok" /\ Holds(entry, "json", u)
      BY <1>3, <2>1, <3>4 DEF StoreIInv, FinalsSynced, AllSynced, StoredWrites
    <3>7. u = v
      BY <1>3, <3>5, <3>6, PayloadInjective DEF Holds
    <3>8. u <= m /\ u \in Nat /\ v \in Nat
      BY <3>1, <3>6, <3>5, SizePositive DEF StoredWrites
    <3>9. v = m
      BY <3>2, <3>5, <3>7, <3>8
    <3>10. Stored(entry, "json") = m
      BY <1>3, <3>4, <3>5, <3>9, StoredVersion
    <3>11. QED
      BY <1>2, <3>10 DEF m
  <2>4. QED
    BY <2>2, <2>3
<1>8. CASE tool = "capture"
  <2>1. CapturedHeld
    BY <1>8 DEF NewestIInv, CaptureIInv
  <2>2. CASE StoredWrites = {}
    <3>1. Newest = NoFile
      BY <2>2, NewestIs
    <3>2. CASE entry["json"] = NoFile
      BY <1>2, <1>5, <3>1, <3>2
    <3>3. CASE entry["json"] # NoFile
      <4>1. PICK w \in Created : TRUE
        BY <2>1, <3>3 DEF CapturedHeld
      <4>2. w > Newest
        BY <3>1, SizePositive DEF Created, NoFile, Writes
      <4>3. QED
        BY <1>8, <4>2
    <3>4. QED
      BY <3>2, <3>3
  <2>3. CASE StoredWrites # {}
    <3> DEFINE m == Newest
    <3>1. m \in StoredWrites
      BY <2>3, NewestIs
    <3> HIDE DEF m
    <3>2. m \in Writes /\ pc[m] = "ok"
      BY <1>6, <3>1
    <3>3. /\ entry["json"] # NoFile
          /\ (\E v \in Created : v > m) \/ content[entry["json"]] = Payload(m, FALSE)
      BY <2>1, <3>2 DEF CapturedHeld
    <3>4. content[entry["json"]] = Payload(m, FALSE) => Stored(entry, "json") = m
      BY <1>4, <3>2, <3>3
    <3>5. QED
      BY <1>2, <1>8, <3>3, <3>4 DEF m
  <2>4. QED
    BY <2>2, <2>3
<1>9. QED
  BY <1>7, <1>8

\* A step that leaves the files alone, and the stage of a session that has written.
LEMMA FilesAlone ==
  ASSUME NewestIInv, UNCHANGED <<storeVars, tool, write, overlapped>>,
         tool = "capture" /\ ~overlapped =>
           \A c \in Clients : write[c] # NoFile => stage'[c] = stage[c]
  PROVE  NewestIInv'
<1>1. UNCHANGED <<entry, content, synced, pc, fd, withKey, key>>
  BY DEF storeVars
<1>2. StoreTypeOK' /\ NoKey'
  BY <1>1, StoreTypeStep DEF NewestIInv, NoKey
<1>3. CASE ~overlapped /\ tool # "capture"
  <2>1. StoreIInv'
    BY <1>3, KeyOrStutterKeeps DEF NewestIInv
  <2>2. QED
    BY <1>2, <1>3, <2>1 DEF NewestIInv
<1>4. CASE ~overlapped /\ tool = "capture"
  <2>1. CaptureIInv
    BY <1>4 DEF NewestIInv
  <2>2. InOrder' /\ CaptureOwns'
    BY <1>1, <2>1 DEF CaptureIInv, InOrder, CaptureOwns, Active
  <2>3. OwnWrites'
    BY <1>1, <1>4, <2>1 DEF CaptureIInv, OwnWrites, At
  <2>4. CapturedHeld'
    BY <1>1, <2>1 DEF CaptureIInv, CapturedHeld, Created, Payload
  <2>5. QED
    BY <1>2, <1>4, <2>2, <2>3, <2>4 DEF NewestIInv, CaptureIInv
<1>5. CASE overlapped
  BY <1>2, <1>5 DEF NewestIInv
<1>6. QED
  BY <1>3, <1>4, <1>5

\* A session that is neither writing nor over has no write.
LEMMA NotWriting ==
  ASSUME ListenersTypeOK, NewestIInv, NEW c \in Clients, NEW s, Goto(c, s),
         stage[c] \notin {"record", "over"},
         UNCHANGED <<storeVars, tool, write, overlapped>>
  PROVE  NewestIInv'
<1>1. tool = "capture" /\ ~overlapped =>
        \A d \in Clients : write[d] # NoFile => stage'[d] = stage[d]
  BY DEF NewestIInv, CaptureIInv, OwnWrites, Goto, ListenersTypeOK
<1>2. QED
  BY <1>1, FilesAlone

LEMMA LoopNewest ==
  ASSUME ListenersTypeOK, NewestIInv, NEW c \in Clients,
         \/ (Connect(c) \/ Accept(c)) /\ UNCHANGED <<snifferVars, upstream, restarts>>
         \/ Receiving(c)
  PROVE  NewestIInv'
<1>1. /\ UNCHANGED <<storeVars, tool, write, overlapped>>
      /\ stage[c] \in {"new", "backlog", "open"}
      /\ \E s : Goto(c, s)
  BY DEF Connect, Accept, Receiving, CaptureReceive, SniffReceive, ShadowReceive, Receive, At
<1>2. QED
  BY <1>1, NotWriting

LEMMA ShadowNewest ==
  ASSUME ListenersTypeOK, NewestIInv, NEW c \in Clients, Shadowing(c)
  PROVE  NewestIInv'
<1>1. UNCHANGED <<storeVars, tool, write, overlapped>> /\ tool = "shadow"
  BY DEF Shadowing, ShadowSession, ShadowUpstream, ShadowJoin, ShadowRelay, sessionVars
<1>2. QED
  BY <1>1, FilesAlone

\* The sniffer's steps are those of the snapshot files; a write that begins while another
\* is under way is remembered.
LEMMA SniffNewest ==
  ASSUME ListenersTypeOK, NewestIInv, NEW c \in Clients, Sniffing(c)
  PROVE  NewestIInv'
<1>1. ASSUME NEW w \in Writes, SniffCreate(c, w)
      PROVE  NewestIInv'
  <2>1. /\ Refuse(w) \/ Create(w)
        /\ tool = "sniff" /\ tool' = tool
        /\ ~overlapped' => ~overlapped /\ Active = {}
    BY <1>1 DEF SniffCreate, BeginWrite
  <2>2. StoreTypeOK' /\ NoKey'
    BY <2>1, StoreStepNoKey DEF NewestIInv
  <2>3. ~overlapped' => StoreIInv'
    BY <2>1, RefuseKeeps, CreateKeeps DEF NewestIInv
  <2>4. QED
    BY <2>1, <2>2, <2>3 DEF NewestIInv
<1>2. CASE SniffStore(c)
  <2> DEFINE w == write[c]
  <2>1. /\ w \in Writes /\ tool = "sniff" /\ tool' = tool /\ overlapped' = overlapped
        /\ WriteAll(w) \/ Sync(w) \/ WriteShort(w) \/ Stop(w) \/ Rename(w)
    BY <1>2 DEF SniffStore, ListenersTypeOK
  <2> HIDE DEF w
  <2>2. StoreTypeOK' /\ NoKey'
    BY <2>1, StoreStepNoKey DEF NewestIInv
  <2>3. ~overlapped => StoreIInv'
    BY <2>1, WriteAllKeeps, SyncKeeps, WriteShortKeeps, StopKeeps, RenameKeeps DEF NewestIInv
  <2>4. QED
    BY <2>1, <2>2, <2>3 DEF NewestIInv
<1>3. CASE SniffCount(c) \/ SniffAck(c)
  <2>1. UNCHANGED <<storeVars, tool, write, overlapped>> /\ tool = "sniff"
    BY <1>3 DEF SniffCount, SniffAck
  <2>2. QED
    BY <2>1, FilesAlone
<1>4. QED
  BY <1>1, <1>2, <1>3 DEF Sniffing, SniffSession

-----------------------------------------------------------------------------
(* The capture proxy writes the snapshot file in place. *)

\* Every write that has begun began before one that begins.
LEMMA BeginsLast ==
  ASSUME InOrder, NEW w \in Writes, MayBegin(w), NEW v \in Writes, pc[v] # "new"
  PROVE  v < w
<1>1. v \in Nat /\ w \in Nat /\ pc[w] = "new"
  BY SizePositive DEF MayBegin
<1>2. ~(w < v) /\ v # w
  BY <1>1 DEF InOrder
<1>3. QED
  BY <1>1, <1>2

\* A write that begins alone keeps the order, whatever becomes of it at once.
LEMMA OrderKept ==
  ASSUME StoreTypeOK, InOrder, NEW w \in Writes, MayBegin(w), Active = {},
         NEW s \in {"open", "err"}, pc' = [pc EXCEPT ![w] = s]
  PROVE  InOrder' /\ Active' \subseteq {w}
<1>1. \A u \in Writes : u # w => pc'[u] = pc[u]
  BY DEF StoreTypeOK
<1>2. pc'[w] = s /\ pc[w] = "new"
  BY DEF StoreTypeOK, MayBegin
<1>3. Active' \subseteq {w}
  BY <1>1 DEF Active
<1>4. ASSUME NEW u \in Writes, NEW v \in Writes, u < v, pc'[u] = "new"
      PROVE  pc'[v] = "new"
  <2>1. u # w /\ pc[u] = "new" /\ pc[v] = "new"
    BY <1>1, <1>2, <1>4 DEF InOrder
  <2>2. ~(u < w)
    BY <2>1, SizePositive DEF MayBegin, Writes
  <2>3. QED
    BY <1>1, <1>4, <2>1, <2>2
<1>5. ASSUME NEW v \in Writes, w < v
      PROVE  pc'[v] = "new"
  <2>1. v # w
    BY <1>5, SizePositive
  <2>2. QED
    BY <1>1, <1>2, <1>5, <2>1 DEF InOrder
<1>6. QED
  BY <1>3, <1>4, <1>5 DEF InOrder

\* The write of a session that begins is no other session's.
LEMMA OwnWritesBegin ==
  ASSUME ListenersTypeOK, StoreTypeOK, OwnWrites, NEW c \in Clients, NEW w \in Writes,
         BeginWrite(c, w), NEW s \in {"open", "err"}, pc' = [pc EXCEPT ![w] = s],
         \/ s = "open" /\ stage' = stage
         \/ Goto(c, "over")
  PROVE  OwnWrites'
<1>1. /\ write[c] = NoFile /\ write' = [write EXCEPT ![c] = w] /\ pc[w] = "new"
      /\ stage[c] = "record" /\ w # NoFile
  BY SizePositive DEF BeginWrite, MayBegin, At
<1>2. /\ write'[c] = w /\ pc'[w] = s
      /\ stage'[c] \in {"record", "over"} /\ (stage'[c] = "record" => s = "open")
  BY <1>1 DEF ListenersTypeOK, StoreTypeOK, Goto
<1>3. \A d \in Clients : d # c => write'[d] = write[d] /\ stage'[d] = stage[d]
  BY <1>1 DEF ListenersTypeOK, Goto
<1>4. \A d \in Clients : write[d] # NoFile => write[d] # w /\ pc'[write[d]] = pc[write[d]]
  BY <1>1 DEF OwnWrites, ListenersTypeOK, StoreTypeOK
<1>5. ASSUME NEW d \in Clients, write'[d] # NoFile
      PROVE  /\ pc'[write'[d]] # "new" /\ stage'[d] \in {"record", "over"}
             /\ stage'[d] = "record" => pc'[write'[d]] = "open"
             /\ \A e \in Clients : write'[e] = write'[d] => e = d
  <2>1. CASE d = c
    BY <1>1, <1>2, <1>3, <1>4, <2>1
  <2>2. CASE d # c
    <3>1. write'[d] = write[d] /\ stage'[d] = stage[d] /\ write[d] # w /\ write[d] # NoFile
          /\ pc'[write[d]] = pc[write[d]]
      BY <1>3, <1>4, <1>5, <2>2
    <3>2. \A e \in Clients : write'[e] = write[d] => e = d
      BY <1>2, <1>3, <3>1 DEF OwnWrites
    <3>3. QED
      BY <3>1, <3>2 DEF OwnWrites, At
  <2>3. QED
    BY <2>1, <2>2
<1>6. QED
  BY <1>5 DEF OwnWrites, At

LEMMA CaptureCreateNewest ==
  ASSUME ListenersTypeOK, NewestIInv, NEW c \in Clients, NEW w \in Writes, CaptureCreate(c, w)
  PROVE  NewestIInv'
<1> DEFINE i == IF entry["json"] = NoFile THEN w ELSE entry["json"]
<1>1. /\ tool = "capture" /\ tool' = tool /\ BeginWrite(c, w) /\ MayBegin(w)
      /\ entry' = [entry EXCEPT !["json"] = i]
      /\ content' = [content EXCEPT ![i] = <<>>]
      /\ synced' = synced \ {i}
      /\ fd' = [fd EXCEPT ![w] = i]
      /\ pc' = [pc EXCEPT ![w] = "open"]
      /\ UNCHANGED <<disk, withKey, key, stage>>
      /\ ~overlapped' => ~overlapped /\ Active = {}
  BY DEF CaptureCreate, BeginWrite
<1>2. /\ StoreTypeOK /\ NoKey /\ "json" \in Names /\ "enc" \in Names
      /\ i \in Writes /\ i # NoFile
  BY SizePositive DEF NewestIInv, StoreTypeOK, Names, Finals
<1> HIDE DEF i
<1>3. StoreTypeOK'
  <2>1. /\ entry' \in [Names -> Writes \cup {NoFile}]
        /\ disk' \in [Names -> Writes \cup {NoFile}]
        /\ content' \in [Writes -> Seq(Cell)]
        /\ synced' \subseteq Writes
        /\ pc' \in [Writes -> Progress]
        /\ fd' \in [Writes -> Writes \cup {NoFile}]
        /\ withKey' \in [Writes -> BOOLEAN]
        /\ key' \in BOOLEAN
    BY <1>1, <1>2 DEF StoreTypeOK, Progress
  <2>2. \A v \in Active' : fd'[v] # NoFile
    BY <1>1, <1>2 DEF StoreTypeOK, Active
  <2>3. QED
    BY <2>1, <2>2 DEF StoreTypeOK
<1>4. NoKey'
  BY <1>1, <1>2 DEF NoKey, StoreTypeOK
<1>5. ASSUME ~overlapped'
      PROVE  CaptureIInv'
  <2>1. CaptureIInv /\ Active = {}
    BY <1>1, <1>5 DEF NewestIInv
  <2>2. InOrder' /\ Active' \subseteq {w}
    BY <1>1, <1>2, <2>1, OrderKept DEF CaptureIInv
  <2>3. /\ entry'["json"] = i /\ fd'[w] = i /\ content'[i] = <<>> /\ pc'[w] = "open"
        /\ \A v \in Writes : v # w => fd'[v] = fd[v] /\ pc'[v] = pc[v]
    BY <1>1, <1>2 DEF StoreTypeOK
  <2>4. CaptureOwns'
    BY <2>2, <2>3 DEF CaptureOwns
  <2>5. OwnWrites'
    BY <1>1, <1>2, <2>1, OwnWritesBegin DEF CaptureIInv
  <2>6. CapturedHeld'
    <3>1. w \in Created'
      BY <1>2, <2>3 DEF Created
    <3>2. ASSUME NEW u \in Writes, pc'[u] = "ok"
          PROVE  fd'[u] # NoFile /\ w > u
      <4>1. u # w /\ pc[u] = "ok" /\ fd'[u] = fd[u]
        BY <2>3, <3>2
      <4>2. fd[u] # NoFile
        BY <2>1, <4>1 DEF CaptureIInv, CapturedHeld
      <4>3. u < w /\ u \in Nat /\ w \in Nat
        BY <1>1, <2>1, <4>1, BeginsLast, SizePositive DEF CaptureIInv
      <4>4. QED
        BY <4>1, <4>2, <4>3
    <3>3. QED
      BY <1>2, <2>3, <3>1, <3>2 DEF CapturedHeld
  <2>7. QED
    BY <2>2, <2>4, <2>5, <2>6 DEF CaptureIInv
<1>6. QED
  BY <1>1, <1>3, <1>4, <1>5 DEF NewestIInv

LEMMA CaptureCannotNewest ==
  ASSUME ListenersTypeOK, NewestIInv, NEW c \in Clients, NEW w \in Writes, CaptureCannot(c, w)
  PROVE  NewestIInv'
<1>1. /\ tool = "capture" /\ tool' = tool /\ BeginWrite(c, w) /\ MayBegin(w) /\ Refuse(w)
      /\ pc' = [pc EXCEPT ![w] = "err"] /\ UNCHANGED <<entry, content, fd>>
      /\ Goto(c, "over")
      /\ ~overlapped' => ~overlapped /\ Active = {}
  BY DEF CaptureCannot, BeginWrite, Refuse
<1>2. StoreTypeOK' /\ NoKey'
  BY <1>1, StoreStepNoKey DEF NewestIInv
<1>3. ASSUME ~overlapped'
      PROVE  CaptureIInv'
  <2>1. CaptureIInv /\ Active = {} /\ StoreTypeOK
    BY <1>1, <1>3 DEF NewestIInv
  <2>2. InOrder' /\ Active' \subseteq {w} /\ pc'[w] = "err"
    BY <1>1, <2>1, OrderKept DEF CaptureIInv, StoreTypeOK
  <2>3. CaptureOwns'
    BY <2>2 DEF CaptureOwns, Active
  <2>4. OwnWrites'
    BY <1>1, <2>1, OwnWritesBegin DEF CaptureIInv
  <2>5. \A v \in Writes : pc'[v] = "ok" => pc[v] = "ok"
    BY <1>1, <2>1 DEF StoreTypeOK
  <2>6. CapturedHeld'
    BY <1>1, <2>1, <2>5 DEF CaptureIInv, CapturedHeld, Created, Payload
  <2>7. QED
    BY <2>2, <2>3, <2>4, <2>6 DEF CaptureIInv
<1>4. QED
  BY <1>1, <1>2, <1>3 DEF NewestIInv

LEMMA CaptureWriteNewest ==
  ASSUME ListenersTypeOK, NewestIInv, NEW c \in Clients, CaptureWrite(c)
  PROVE  NewestIInv'
<1> DEFINE w == write[c]
<1>1. /\ tool = "capture" /\ tool' = tool /\ overlapped' = overlapped /\ write' = write
      /\ w \in Writes /\ w # NoFile /\ stage[c] = "record" /\ Goto(c, "over")
      /\ UNCHANGED <<entry, disk, fd, withKey, key>>
      /\ \/ /\ content' = [content EXCEPT ![fd[w]] = Overlay(Payload(w, FALSE), @)]
            /\ pc' = [pc EXCEPT ![w] = "ok"] /\ synced' = synced
         \/ WriteShort(w)
  BY DEF CaptureWrite, ListenersTypeOK, At, WriteShort
<1>2. StoreTypeOK /\ NoKey
  BY DEF NewestIInv
<1>3. WriteShort(w) => pc' = [pc EXCEPT ![w] = "err"]
  BY DEF WriteShort
<1>4. NoKey'
  BY <1>1, <1>2 DEF NoKey
<1>5. StoreTypeOK'
  <2>1. CASE WriteShort(w)
    BY <1>1, <1>2, <2>1, StoreTypeStep DEF StoreNext
  <2>2. CASE /\ content' = [content EXCEPT ![fd[w]] = Overlay(Payload(w, FALSE), @)]
             /\ pc' = [pc EXCEPT ![w] = "ok"] /\ synced' = synced
    <3>1. content' \in [Writes -> Seq(Cell)]
      <4> DEFINE p == Payload(w, FALSE)
      <4>1. p \in Seq(Cell)
        BY <1>1, PayloadType
      <4> HIDE DEF p
      <4>2. fd[w] \in Writes => Overlay(p, content[fd[w]]) \in Seq(Cell)
        BY <1>2, <4>1, OverlayType DEF StoreTypeOK
      <4>3. content' = [content EXCEPT ![fd[w]] = Overlay(p, content[fd[w]])]
        BY <2>2 DEF p
      <4> HIDE DEF w
      <4>4. QED
        BY <1>2, <4>2, <4>3 DEF StoreTypeOK
    <3>2. pc' \in [Writes -> Progress]
      BY <1>2, <2>2 DEF StoreTypeOK, Progress
    <3>3. \A v \in Active' : v \in Active
      BY <1>2, <2>2 DEF Active, StoreTypeOK
    <3>4. QED
      BY <1>1, <1>2, <2>2, <3>1, <3>2, <3>3 DEF StoreTypeOK
  <2>3. QED
    BY <1>1, <2>1, <2>2
<1>6. ASSUME ~overlapped
      PROVE  CaptureIInv'
  <2>1. CaptureIInv
    BY <1>1, <1>6 DEF NewestIInv
  <2>2. pc[w] = "open" /\ w \in Active
    BY <1>1, <2>1 DEF CaptureIInv, OwnWrites, At, Active
  <2>3. /\ fd[w] = entry["json"] /\ fd[w] # NoFile /\ content[fd[w]] = <<>>
        /\ fd[w] \in Writes
    <3> HIDE DEF w
    <3>1. fd[w] = entry["json"] /\ fd[w] # NoFile /\ content[fd[w]] = <<>>
      BY <1>2, <2>1, <2>2 DEF CaptureIInv, CaptureOwns, StoreTypeOK
    <3>2. QED
      BY <1>1, <1>2, <3>1 DEF StoreTypeOK
  <2>4. \A v \in Active : v = w
    <3> SUFFICES ASSUME NEW v \in Active PROVE v = w
      OBVIOUS
    <3>1. v \in Writes /\ v \in Nat /\ w \in Nat /\ pc[v] # "new" /\ pc[w] # "new"
      BY <1>1, <2>2, SizePositive DEF Active
    <3>2. ~(v < w) /\ ~(w < v)
      BY <1>1, <2>1, <2>2, <3>1 DEF CaptureIInv, InOrder
    <3>3. QED
      BY <3>1, <3>2
  <2>5. /\ \A v \in Writes : v # w => pc'[v] = pc[v]
        /\ pc'[w] \in {"ok", "err"}
    BY <1>1, <1>2, <1>3 DEF StoreTypeOK
  <2>6. Active' = {}
    BY <2>4, <2>5 DEF Active
  <2>7. InOrder'
    BY <2>1, <2>2, <2>5, <2>6 DEF CaptureIInv, InOrder
  <2>8. CaptureOwns'
    BY <2>6 DEF CaptureOwns
  <2>9. OwnWrites'
    <3>1. /\ \A d \in Clients : d # c => stage'[d] = stage[d]
          /\ stage'[c] = "over"
      BY <1>1 DEF Goto, ListenersTypeOK
    <3>2. \A d \in Clients : d # c => write[d] # w
      BY <1>1, <2>1 DEF CaptureIInv, OwnWrites
    <3>3. \A d \in Clients : write[d] # NoFile => write[d] \in Writes
      BY DEF ListenersTypeOK
    <3>4. ASSUME NEW d \in Clients, write[d] # NoFile
          PROVE  /\ pc'[write[d]] # "new" /\ stage'[d] \in {"record", "over"}
                 /\ stage'[d] = "record" => pc'[write[d]] = "open"
                 /\ \A e \in Clients : write[e] = write[d] => e = d
      <4>1. CASE d = c
        BY <1>1, <2>1, <2>5, <3>1, <4>1 DEF CaptureIInv, OwnWrites
      <4>2. CASE d # c
        <5>1. pc'[write[d]] = pc[write[d]] /\ stage'[d] = stage[d]
          BY <2>5, <3>1, <3>2, <3>3, <3>4, <4>2
        <5>2. QED
          BY <2>1, <3>4, <5>1 DEF CaptureIInv, OwnWrites, At
      <4>3. QED
        BY <4>1, <4>2
    <3>5. QED
      BY <1>1, <3>4 DEF OwnWrites, At
  <2>10. \A u \in Writes : pc[u] = "ok" => w > u /\ fd[u] # NoFile
    <3> SUFFICES ASSUME NEW u \in Writes, pc[u] = "ok" PROVE w > u /\ fd[u] # NoFile
      OBVIOUS
    <3>1. u \in Nat /\ w \in Nat /\ u # w
      BY <1>1, <2>2, SizePositive
    <3>2. ~(w < u)
      BY <2>1, <2>2 DEF CaptureIInv, InOrder
    <3>3. w > u
      <4> HIDE DEF w
      <4>1. QED
        BY <3>1, <3>2
    <3>4. fd[u] # NoFile
      BY <2>1 DEF CaptureIInv, CapturedHeld
    <3>5. QED
      BY <3>3, <3>4
  <2>11. w \in Created'
    BY <1>1, <2>3 DEF Created
  <2>12. pc'[w] = "ok" => content'[entry["json"]] = Payload(w, FALSE)
    <3> SUFFICES ASSUME pc'[w] = "ok" PROVE content'[entry["json"]] = Payload(w, FALSE)
      OBVIOUS
    <3>1. content' = [content EXCEPT ![fd[w]] = Overlay(Payload(w, FALSE), @)]
      BY <1>1, <1>2, <1>3 DEF StoreTypeOK
    <3>2. Overlay(Payload(w, FALSE), <<>>) = Payload(w, FALSE)
      BY <1>1, PayloadType, OverlayEmpty
    <3>3. QED
      BY <1>2, <2>3, <3>1, <3>2 DEF StoreTypeOK
  <2>13. CapturedHeld'
    <3>1. ASSUME NEW u \in Writes, pc'[u] = "ok"
          PROVE  /\ fd'[u] # NoFile /\ entry'["json"] # NoFile
                 /\ (\E v \in Created' : v > u) \/ content'[entry'["json"]] = Payload(u, FALSE)
      BY <1>1, <2>3, <2>5, <2>10, <2>11, <2>12, <3>1
    <3>2. QED
      BY <2>11, <3>1 DEF CapturedHeld, Payload
  <2>14. QED
    BY <2>7, <2>8, <2>9, <2>13 DEF CaptureIInv
<1>7. QED
  BY <1>1, <1>4, <1>5, <1>6 DEF NewestIInv

LEMMA CaptureNewest ==
  ASSUME ListenersTypeOK, NewestIInv, NEW c \in Clients, Capturing(c)
  PROVE  NewestIInv'
<1>1. CASE CaptureForward(c) \/ CaptureRelay(c)
  <2>1. UNCHANGED <<storeVars, tool, write, overlapped>> /\ stage[c] \in {"request", "relay"}
    BY <1>1 DEF CaptureForward, CaptureRelay, At
  <2>2. \E s : Goto(c, s)
    BY <1>1 DEF CaptureForward, CaptureRelay
  <2>3. QED
    BY <2>1, <2>2, NotWriting
<1>2. QED
  BY <1>1, CaptureCreateNewest, CaptureCannotNewest, CaptureWriteNewest
     DEF Capturing, CaptureSession

-----------------------------------------------------------------------------
\* A restart stops the writes under way where they are.
LEMMA RestartNewest ==
  ASSUME ListenersTypeOK, NewestIInv, Restart
  PROVE  NewestIInv'
<1>1. /\ stage' = [c \in Clients |-> IF At(c, "new") THEN "new" ELSE "over"]
      /\ pc' = [w \in Writes |-> IF w \in Active THEN "err" ELSE pc[w]]
      /\ UNCHANGED <<entry, disk, content, synced, fd, withKey, key, tool, write, overlapped>>
  BY DEF Restart, RestartSessions
<1>2. StoreTypeOK /\ NoKey
  BY DEF NewestIInv
<1>3. Active' = {}
  BY <1>1 DEF Active
<1>4. StoreTypeOK' /\ NoKey'
  BY <1>1, <1>2 DEF StoreTypeOK, Active, Progress, NoKey
<1>5. CASE ~overlapped /\ tool # "capture"
  BY <1>1, <1>3, <1>4, <1>5, StoppedKeeps DEF NewestIInv
<1>6. CASE ~overlapped /\ tool = "capture"
  <2>1. CaptureIInv
    BY <1>6 DEF NewestIInv
  <2>2. /\ Active' = {}
        /\ \A v \in Writes : (pc'[v] = "new" <=> pc[v] = "new") /\ (pc'[v] = "ok" <=> pc[v] = "ok")
    BY <1>1 DEF Active
  <2>3. InOrder' /\ CaptureOwns'
    BY <2>1, <2>2 DEF CaptureIInv, InOrder, CaptureOwns
  <2>4. CapturedHeld'
    BY <1>1, <2>1, <2>2 DEF CaptureIInv, CapturedHeld, Created, Payload
  <2>5. OwnWrites'
    <3>1. \A c \in Clients : write[c] # NoFile => write[c] \in Writes /\ stage'[c] = "over"
      BY <1>1, <2>1 DEF ListenersTypeOK, CaptureIInv, OwnWrites, At
    <3>2. QED
      BY <1>1, <2>1, <2>2, <3>1 DEF CaptureIInv, OwnWrites, At
  <2>6. QED
    BY <1>1, <1>4, <1>6, <2>3, <2>4, <2>5 DEF NewestIInv, CaptureIInv
<1>7. CASE overlapped
  BY <1>1, <1>4, <1>7 DEF NewestIInv
<1>8. QED
  BY <1>5, <1>6, <1>7

LEMMA NewestStep ==
  CountIInv /\ NewestIInv /\ [ListenersNext]_listenerVars => NewestIInv'
<1> SUFFICES ASSUME CountIInv, NewestIInv, [ListenersNext]_listenerVars PROVE NewestIInv'
  OBVIOUS
<1> ListenersTypeOK
  BY DEF CountIInv
<1>1. CASE \E c \in Clients : Connect(c) /\ UNCHANGED <<snifferVars, upstream, restarts>>
  BY <1>1, LoopNewest
<1>2. CASE LoopStep
  <2>1. ASSUME SniffCheck PROVE UNCHANGED <<storeVars, tool, stage, write, overlapped>>
    BY <2>1 DEF SniffCheck
  <2>2. QED
    BY <1>2, <2>1, LoopNewest, FilesAlone DEF LoopStep
<1>3. CASE \E c \in Clients : Receiving(c)
  BY <1>3, LoopNewest
<1>4. CASE \E c \in Clients : SessionStep(c)
  BY <1>4, CaptureNewest, SniffNewest, ShadowNewest DEF SessionStep
<1>5. CASE CtrlC \/ UNCHANGED listenerVars
  <2>1. UNCHANGED <<storeVars, tool, stage, write, overlapped>>
    BY <1>5 DEF CtrlC, listenerVars, sessionVars
  <2>2. QED
    BY <2>1, FilesAlone
<1>6. CASE Restart
  BY <1>6, RestartNewest
<1>7. QED
  BY <1>1, <1>2, <1>3, <1>4, <1>5, <1>6 DEF ListenersNext

\* proxy_capture.rs and sniffer.rs: as long as no two sessions write at once, what a test
\* would read is the newest snapshot recorded, across failed writes, kills and restarts,
\* or a later capture has destroyed it - for every number of clients, of writes and of
\* their lengths.
THEOREM ListenersNewestKept == ListenersSpec => []NewestKept
<1>1. ListenersInit => CountIInv /\ NewestIInv
  BY CountInit, NewestInit
<1>2. CountIInv /\ NewestIInv /\ [ListenersNext]_listenerVars => (CountIInv /\ NewestIInv)'
  BY CountStep, NewestStep
<1>3. CountIInv /\ NewestIInv => NewestKept
  BY NewestFromInv DEF CountIInv
<1>4. QED
  BY <1>1, <1>2, <1>3, PTL DEF ListenersSpec
=============================================================================
