----------------------------- MODULE MerkleCas -----------------------------
(***************************************************************************)
(* MerkleCasStore (src/src/storage/merkle.rs) on its file system: ingest   *)
(* walks a body in post-order and write_if_absent puts each new node into  *)
(* an object file of its own, through a temporary file that is named after *)
(* the hash, by fs::write and rename, without fsync.                       *)
(*                                                                         *)
(* A node is identified with its hash: BLAKE3 (external) has no collision. *)
(* The nodes are the numbers 1..N and Children gives their structure; a    *)
(* node refers to smaller numbers only, as a value contains smaller values.*)
(* Writers are processes, each with a MerkleCasStore and its cache.  Files *)
(* are inodes, since two writers that open the same temporary file share   *)
(* it, and an open descriptor survives the rename.                         *)
(***************************************************************************)
EXTENDS Naturals, Sequences, FiniteSets

CONSTANTS Writers,      \* processes with the store open
          Children,     \* Children[n]: the child hashes of node n
          MaxIngests,   \* bound on the ingests
          MaxCrashes,   \* bound on process crashes
          MaxPowerLoss  \* bound on power losses

Nodes == DOMAIN Children

ASSUME CasAssumption ==
  /\ IsFiniteSet(Writers)
  /\ MaxIngests \in Nat /\ MaxCrashes \in Nat /\ MaxPowerLoss \in Nat
  /\ Children \in Seq(Seq(Nat))
  /\ \A n \in Nodes : \A i \in DOMAIN Children[n] : Children[n][i] \in 1..(n - 1)

VARIABLES final,    \* final[n]: the inode of n's object file, or Absent
          tmp,      \* tmp[n]: the inode of n's temporary file, or Absent
          content,  \* content[i]: "empty" or "whole"
          cache,    \* cache[w]: the nodes in the writer's cache
          todo,     \* todo[w]: the nodes of the ingest, what is left of them
          pc,       \* pc[w]: where the writer is in write_if_absent
          fd,       \* fd[w]: the inode the writer has open
          wrote,    \* history: the nodes each writer's ingest wrote, in order
          fresh,    \* history: the nodes absent when the ingest began
          acked,    \* history: the roots whose hash was returned since the power came on
          ingests, crashes, losses   \* the bounded counters

casVars == <<final, tmp, content, cache, todo, pc, fd, wrote, fresh, acked,
             ingests, crashes, losses>>

\* Enough inodes for one object file, one temporary file and the open descriptors
\* of a node: an inode nothing refers to is used again.
Slots == 1..(Cardinality(Writers) + 2)
Inodes == Nodes \X Slots
Absent == <<0, 0>>
Referenced(i) == final[i[1]] = i \/ tmp[i[1]] = i \/ \E w \in Writers : fd[w] = i
NewInode(n) ==
  <<n, CHOOSE k \in Slots : ~Referenced(<<n, k>>)>>

Present == {n \in Nodes : final[n] # Absent}
Whole == {n \in Present : content[final[n]] = "whole"}

\* ingest visits the children of a node, in order, before the node itself.
\* Visit(order, n)[i]: what it has visited below n after the first i children,
\* when `order` has what it visits for each of them.
Visit(order, n) ==
  LET visited[i \in 0..Len(Children[n])] ==
        IF i = 0 THEN <<>> ELSE visited[i - 1] \o order[Children[n][i]]
  IN  visited

PostOrder[n \in Nodes] == Visit(PostOrder, n)[Len(Children[n])] \o <<n>>

Subtrees(n) == {PostOrder[n][i] : i \in DOMAIN PostOrder[n]}

-----------------------------------------------------------------------------
CasInit ==
  /\ final = [n \in Nodes |-> Absent] /\ tmp = [n \in Nodes |-> Absent]
  /\ content = [i \in Inodes |-> "empty"]
  /\ cache = [w \in Writers |-> {}]
  /\ todo = [w \in Writers |-> <<>>]
  /\ pc = [w \in Writers |-> "idle"]
  /\ fd = [w \in Writers |-> Absent]
  /\ wrote = [w \in Writers |-> <<>>] /\ fresh = [w \in Writers |-> {}]
  /\ acked = {}
  /\ ingests = 0 /\ crashes = 0 /\ losses = 0

\* Mutant: a node is written before its children (pre-order).
Ingest_Preorder(w, root) ==
  /\ pc[w] = "idle" /\ ingests < MaxIngests
  /\ ingests' = ingests + 1
  /\ todo' = [todo EXCEPT ![w] = <<root>> \o PostOrder[root]]
  /\ pc' = [pc EXCEPT ![w] = "check"]
  /\ wrote' = [wrote EXCEPT ![w] = <<>>]
  /\ fresh' = [fresh EXCEPT ![w] = Subtrees(root) \ Present]
  /\ UNCHANGED <<final, tmp, content, cache, fd, acked, crashes, losses>>

\* ingest(value) of a body whose Merkle root is `root`.
Ingest(w, root) ==
  /\ pc[w] = "idle" /\ ingests < MaxIngests
  /\ ingests' = ingests + 1
  /\ todo' = [todo EXCEPT ![w] = PostOrder[root]]
  /\ pc' = [pc EXCEPT ![w] = "check"]
  /\ wrote' = [wrote EXCEPT ![w] = <<>>]
  /\ fresh' = [fresh EXCEPT ![w] = Subtrees(root) \ Present]
  /\ UNCHANGED <<final, tmp, content, cache, fd, acked, crashes, losses>>

\* The node is done: on to the next, or the root's hash is returned.
NodeDone(w) ==
  /\ cache' = [cache EXCEPT ![w] = @ \cup {Head(todo[w])}]
  /\ todo' = [todo EXCEPT ![w] = Tail(@)]
  /\ IF Len(todo[w]) = 1
     THEN /\ pc' = [pc EXCEPT ![w] = "idle"]
          /\ acked' = acked \cup {Head(todo[w])}
     ELSE pc' = [pc EXCEPT ![w] = "check"] /\ UNCHANGED acked

\* ingest returns Err: its callers drop the store or carry on with it.
GiveUp(w) ==
  /\ pc' = [pc EXCEPT ![w] = "idle"]
  /\ todo' = [todo EXCEPT ![w] = <<>>]
  /\ fd' = [fd EXCEPT ![w] = Absent]

\* The node is cached or its object file exists: nothing is written.
Skip(w) ==
  /\ pc[w] = "check"
  /\ Head(todo[w]) \in cache[w] \cup Present
  /\ NodeDone(w)
  /\ UNCHANGED <<final, tmp, content, fd, wrote, fresh, ingests, crashes, losses>>

\* Mutants: the cache alone decides; the node is cached before it is written.
Miss_CacheOnly(w) ==
  /\ pc[w] = "check"
  /\ Head(todo[w]) \notin cache[w]
  /\ pc' = [pc EXCEPT ![w] = "missed"]
  /\ UNCHANGED <<final, tmp, content, cache, todo, fd, wrote, fresh, acked,
                 ingests, crashes, losses>>
Miss_CachesEarly(w) ==
  /\ pc[w] = "check"
  /\ Head(todo[w]) \notin cache[w] \cup Present
  /\ pc' = [pc EXCEPT ![w] = "missed"]
  /\ cache' = [cache EXCEPT ![w] = @ \cup {Head(todo[w])}]
  /\ UNCHANGED <<final, tmp, content, todo, fd, wrote, fresh, acked,
                 ingests, crashes, losses>>

\* `path.exists()` is false: the node will be written.
Miss(w) ==
  /\ pc[w] = "check"
  /\ Head(todo[w]) \notin cache[w] \cup Present
  /\ pc' = [pc EXCEPT ![w] = "missed"]
  /\ UNCHANGED <<final, tmp, content, cache, todo, fd, wrote, fresh, acked,
                 ingests, crashes, losses>>

\* Mutant: the object file itself is written, without a temporary file.
Open_InPlace(w) ==
  LET n == Head(todo[w])
      inode == IF final[n] = Absent THEN NewInode(n) ELSE final[n]
  IN  /\ pc[w] = "missed"
      /\ final' = [final EXCEPT ![n] = inode]
      /\ tmp' = [tmp EXCEPT ![n] = inode]
      /\ content' = [content EXCEPT ![inode] = "empty"]
      /\ fd' = [fd EXCEPT ![w] = inode]
      /\ pc' = [pc EXCEPT ![w] = "opened"]
      /\ UNCHANGED <<cache, todo, wrote, fresh, acked, ingests, crashes, losses>>

\* fs::write opens the temporary file: created, or truncated when it is there.
Open(w) ==
  LET n == Head(todo[w])
      inode == IF tmp[n] = Absent THEN NewInode(n) ELSE tmp[n]
  IN  /\ pc[w] = "missed"
      /\ tmp' = [tmp EXCEPT ![n] = inode]
      /\ content' = [content EXCEPT ![inode] = "empty"]
      /\ fd' = [fd EXCEPT ![w] = inode]
      /\ pc' = [pc EXCEPT ![w] = "opened"]
      /\ UNCHANGED <<final, cache, todo, wrote, fresh, acked, ingests, crashes, losses>>

\* fs::write writes the bytes, or fails with a partial file left behind.
Write(w) ==
  /\ pc[w] = "opened"
  /\ \/ /\ content' = [content EXCEPT ![fd[w]] = "whole"]
        /\ pc' = [pc EXCEPT ![w] = "written"]
        /\ UNCHANGED <<todo, fd>>
     \/ GiveUp(w) /\ UNCHANGED content
  /\ UNCHANGED <<final, tmp, cache, wrote, fresh, acked, ingests, crashes, losses>>

\* rename(tmp, path): whatever inode the temporary name has now becomes the object
\* file.  Without a temporary file (another writer renamed it) it fails.
Rename(w) ==
  LET n == Head(todo[w])
  IN  /\ pc[w] = "written"
      /\ \/ /\ tmp[n] # Absent
            /\ final' = [final EXCEPT ![n] = tmp[n]]
            /\ tmp' = [tmp EXCEPT ![n] = Absent]
            /\ wrote' = [wrote EXCEPT ![w] = Append(@, n)]
            /\ fd' = [fd EXCEPT ![w] = Absent]
            /\ NodeDone(w)
         \/ tmp[n] = Absent /\ GiveUp(w) /\ UNCHANGED <<final, tmp, wrote, cache, acked>>
      /\ UNCHANGED <<content, fresh, ingests, crashes, losses>>

\* A process dies and is started again.
Crash(w) ==
  /\ crashes < MaxCrashes
  /\ crashes' = crashes + 1
  /\ GiveUp(w)
  /\ cache' = [cache EXCEPT ![w] = {}]
  /\ UNCHANGED <<final, tmp, content, wrote, fresh, acked, ingests, losses>>

\* The machine loses power: no file and no directory was synced, so any name may be
\* gone, a renamed file may have its temporary name again, and the content of any file
\* may be lost.  The processes start anew, and the hashes they returned with them.
PowerLoss ==
  /\ losses < MaxPowerLoss
  /\ losses' = losses + 1
  /\ \E gone \in SUBSET Present : \E undone \in SUBSET gone :
       /\ final' = [n \in Nodes |-> IF n \in gone THEN Absent ELSE final[n]]
       /\ \E dropped \in SUBSET {n \in Nodes : tmp[n] # Absent} :
            tmp' = [n \in Nodes |-> CASE n \in undone -> final[n]
                                      [] n \in dropped \ undone -> Absent
                                      [] OTHER -> tmp[n]]
  /\ \E intact \in SUBSET {i \in Inodes : i \in {final'[i[1]], tmp'[i[1]]} /\ content[i] = "whole"} :
       content' = [i \in Inodes |-> IF i \in intact THEN "whole" ELSE "empty"]
  /\ pc' = [w \in Writers |-> "idle"] /\ todo' = [w \in Writers |-> <<>>]
  /\ fd' = [w \in Writers |-> Absent] /\ cache' = [w \in Writers |-> {}]
  /\ wrote' = [w \in Writers |-> <<>>] /\ fresh' = [w \in Writers |-> {}]
  /\ acked' = {}
  /\ UNCHANGED <<ingests, crashes>>

CasNext ==
  \/ \E w \in Writers, root \in Nodes : Ingest(w, root)
  \/ \E w \in Writers :
       Skip(w) \/ Miss(w) \/ Open(w) \/ Write(w) \/ Rename(w) \/ Crash(w)
  \/ PowerLoss

CasSpec == CasInit /\ [][CasNext]_casVars

-----------------------------------------------------------------------------
\* reconstruct(root) succeeds and returns what was ingested.
Reconstructs(n) == Subtrees(n) \subseteq Whole

\* RFC-002.md:176, "atomic write: first the temporary file, then rename": an object
\* file never holds less than its object.  For one process this survives crashes
\* and failed writes (no power loss: nothing is synced); two processes that share
\* the temporary file violate it.
ObjectsWhole == losses = 0 => Present = Whole

\* A returned hash can be reconstructed from then on, until the power is lost.
AckedReconstruct == losses = 0 => \A n \in acked : Reconstructs(n)

\* merkle.rs:70, "the number of writes equals the number of new subtrees": of the
\* nodes visited so far, an ingest has written exactly those that were absent when
\* it began, each once, however often they occur in the body.
WritesAreTheNewSubtrees ==
  \A w \in Writers : pc[w] # "idle" =>
    LET written == {wrote[w][i] : i \in DOMAIN wrote[w]}
        left == {todo[w][i] : i \in DOMAIN todo[w]}
    IN  /\ Cardinality(written) = Len(wrote[w])
        /\ fresh[w] \ left \subseteq written
        /\ written \subseteq fresh[w]

\* The store implements ContentStore: whatever the writers do, a node appears
\* after its children, once, and stays until a power loss.
Content == INSTANCE ContentStore WITH stored <- Present
ContentSpec == Content!ContentSpec
=============================================================================
