---------------------------- MODULE ArtifactStore ----------------------------
(***************************************************************************)
(* FileArtifactStore, PendingBlob and SQLiteRepository.publish of          *)
(* services/web-acquisition: downloads written to .pending, sealed into    *)
(* the content-addressed store and then cited by a row, by one or several  *)
(* processes that share the store, any of which may die between two system *)
(* calls, and a power cut that drops what has not reached the disk.        *)
(*                                                                         *)
(* A download w owns one inode.  written[w], cached[w] and durable[w] are  *)
(* how much of its body the program has written, the kernel has, and the   *)
(* disk has; cas[c] is the download whose inode is linked as digest c.     *)
(***************************************************************************)
EXTENDS Integers, FiniteSets

CONSTANTS
    Download, Content, Shard,
    None,
    Body,            \* the content of each download
    ShardOf,         \* the first two digits of its digest
    Size,            \* pieces of a body
    Ordered,         \* fsync and commit make every earlier link and mkdir
                     \* durable too, as journalling file systems do
    MaxCrashes, MaxCuts, MaxFaults

ASSUME StoreAssumption ==
    /\ None \notin Download
    /\ Body \in [Download -> Content] /\ ShardOf \in [Content -> Shard]
    /\ Size \in Nat \ {0} /\ Ordered \in BOOLEAN
    /\ {MaxCrashes, MaxCuts, MaxFaults} \subseteq Nat

\* where a download stands; from "flushed" to "sealed" it is in seal()
InSeal == {"flushed", "synced", "sharded", "linked", "exists", "sealed"}
Over   == {"published", "discarded", "dead"}
Steps  == {"idle", "open", "failing", "artifact"} \cup InSeal \cup Over

VARIABLES
    step,
    written, cached, durable,
    pending,         \* downloads with a file in .pending
    shards, cas,     \* shard directories, and what is linked in them
    newShards,       \* shards whose own directory entry is not durable
    newLinks,        \* contents whose link is not durable
    rows,            \* downloads with a row in the acquisitions table
    lost,            \* downloads that died, or whose discard raised
    crashes, cuts, faults

inodes == <<written, cached, durable>>
dirs   == <<pending, shards, cas>>
unsure == <<newShards, newLinks>>
bounds == <<crashes, cuts, faults>>
vars   == <<step, inodes, dirs, unsure, rows, lost, bounds>>

Init ==
    /\ step = [w \in Download |-> "idle"]
    /\ written = [w \in Download |-> 0] /\ cached = [w \in Download |-> 0]
    /\ durable = [w \in Download |-> 0]
    /\ pending = {} /\ shards = {} /\ cas = [c \in Content |-> None]
    /\ newShards = {} /\ newLinks = {} /\ rows = {} /\ lost = {}
    /\ crashes = 0 /\ cuts = 0 /\ faults = 0

Go(w, s) == step' = [step EXCEPT ![w] = s]
ShardFor(w) == ShardOf[Body[w]]

\* what fsync of a file, of a shard directory, and the commit of a row make
\* durable in the directories
SyncFile == IF Ordered THEN newShards' = {} /\ newLinks' = {}
            ELSE UNCHANGED unsure
SyncShard(s) == IF Ordered THEN newShards' = {} /\ newLinks' = {}
                ELSE /\ newLinks' = {c \in newLinks : ShardOf[c] # s}
                     /\ UNCHANGED newShards

(***************************************************************************)
(* One download.                                                           *)
(***************************************************************************)
Begin(w) ==
    /\ step[w] = "idle" /\ Go(w, "open") /\ pending' = pending \cup {w}
    /\ UNCHANGED <<inodes, shards, cas, unsure, rows, lost, bounds>>

\* Operators named Bug... are plausible slips in the code; each replaces the
\* definition that follows it to show that a property can fail.
HasRoom(w) == written[w] < Size

Write(w) ==
    /\ step[w] = "open" /\ HasRoom(w)
    /\ written' = [written EXCEPT ![w] = @ + 1]
    /\ UNCHANGED <<step, cached, durable, dirs, unsure, rows, lost, bounds>>

\* seal(): the stream is flushed, the file synced, the shard directory made
Flush(w) ==
    /\ step[w] = "open" /\ written[w] = Size /\ Go(w, "flushed")
    /\ cached' = [cached EXCEPT ![w] = written[w]]
    /\ UNCHANGED <<written, durable, dirs, unsure, rows, lost, bounds>>

BugSynced(w) == durable
Synced(w) == [durable EXCEPT ![w] = cached[w]]

Fsync(w) ==
    /\ step[w] = "flushed" /\ Go(w, "synced")
    /\ durable' = Synced(w) /\ SyncFile
    /\ UNCHANGED <<written, cached, dirs, rows, lost, bounds>>

MakeShard(w) ==
    /\ step[w] = "synced" /\ Go(w, "sharded")
    /\ shards' = shards \cup {ShardFor(w)}
    /\ newShards' = newShards \cup ({ShardFor(w)} \ shards)
    /\ UNCHANGED <<inodes, pending, cas, newLinks, rows, lost, bounds>>

Link(w) ==
    /\ step[w] = "sharded"
    /\ IF cas[Body[w]] = None
       THEN /\ cas' = [cas EXCEPT ![Body[w]] = w] /\ Go(w, "linked")
            /\ newLinks' = newLinks \cup {Body[w]}
       ELSE Go(w, "exists") /\ UNCHANGED <<cas, newLinks>>
    /\ UNCHANGED <<inodes, pending, shards, newShards, rows, lost, bounds>>

FsyncShard(w) ==
    /\ step[w] = "linked" /\ Go(w, "sealed") /\ SyncShard(ShardFor(w))
    /\ UNCHANGED <<inodes, dirs, rows, lost, bounds>>

\* the digest is taken: what is linked there is read and compared
Verify(w) ==
    /\ step[w] = "exists"
    /\ Go(w, IF cached[cas[Body[w]]] = Size THEN "sealed" ELSE "failing")
    /\ UNCHANGED <<inodes, dirs, unsure, rows, lost, bounds>>

Unlinked(w) == pending \ {w}

\* seal() discards the pending name and returns the artifact
Sealed(w) ==
    /\ step[w] = "sealed" /\ Go(w, "artifact") /\ pending' = Unlinked(w)
    /\ UNCHANGED <<inodes, shards, cas, unsure, rows, lost, bounds>>

BugCommits(w) == step[w] \in {"sharded", "artifact"}
Commits(w) == step[w] = "artifact"

\* SQLiteRepository.publish: one transaction
Publish(w) ==
    /\ Commits(w) /\ Go(w, "published") /\ rows' = rows \cup {w} /\ SyncFile
    /\ UNCHANGED <<inodes, dirs, lost, bounds>>

\* a fetch that fails or is cancelled, a body the engine does not want
Abandon(w) ==
    /\ step[w] = "open" /\ Go(w, "failing")
    /\ UNCHANGED <<inodes, dirs, unsure, rows, lost, bounds>>

\* a system call of seal(), or publish, raises
Fault(w) ==
    /\ step[w] \in InSeal \cup {"artifact"} /\ faults < MaxFaults
    /\ faults' = faults + 1
    /\ Go(w, IF step[w] = "artifact" THEN "discarded" ELSE "failing")
    /\ UNCHANGED <<inodes, dirs, unsure, rows, lost, crashes, cuts>>

\* discard(): close flushes what is still buffered, and may raise before the
\* name is removed; the blob counts as closed either way
Discard(w) ==
    /\ step[w] = "failing" /\ Go(w, "discarded")
    /\ \/ pending' = Unlinked(w) /\ UNCHANGED <<lost, faults>>
       \/ /\ faults < MaxFaults /\ faults' = faults + 1
          /\ lost' = lost \cup {w} /\ UNCHANGED pending
    /\ cached' = [cached EXCEPT ![w] = written[w]]
    /\ UNCHANGED <<written, durable, shards, cas, unsure, rows, crashes, cuts>>

(***************************************************************************)
(* The operating system.                                                   *)
(***************************************************************************)
\* the stream's buffer is full, or the kernel writes back what it has
Spill(w) ==
    /\ step[w] = "open" /\ cached[w] < written[w]
    /\ cached' = [cached EXCEPT ![w] = written[w]]
    /\ UNCHANGED <<step, written, durable, dirs, unsure, rows, lost, bounds>>

WriteBack(w) ==
    /\ w \in pending /\ durable[w] < cached[w]
    /\ durable' = [durable EXCEPT ![w] = cached[w]]
    /\ UNCHANGED <<step, written, cached, dirs, unsure, rows, lost, bounds>>

\* the process of w dies: the kernel keeps the files as they are
Crash(w) ==
    /\ step[w] \notin {"idle"} \cup Over /\ crashes < MaxCrashes
    /\ crashes' = crashes + 1 /\ Go(w, "dead") /\ lost' = lost \cup {w}
    /\ UNCHANGED <<inodes, dirs, unsure, rows, cuts, faults>>

\* Every process dies; links and directories that are not durable may be
\* gone, and of each file something between what the disk had and what the
\* kernel had is left.
PowerCut ==
    /\ cuts < MaxCuts /\ cuts' = cuts + 1
    /\ step' = [w \in Download |-> IF step[w] \in {"idle"} \cup Over THEN step[w]
                                   ELSE "dead"]
    /\ lost' = lost \cup {w \in Download : step[w] \notin {"idle"} \cup Over}
    /\ \E gone \in SUBSET newShards, unlinked \in SUBSET newLinks :
          /\ shards' = shards \ gone
          /\ cas' = [c \in Content |->
                       IF c \in unlinked \/ ShardOf[c] \in gone THEN None
                       ELSE cas[c]]
    /\ \E kept \in [Download -> 0..Size] :
          /\ \A w \in Download : durable[w] <= kept[w] /\ kept[w] <= cached[w]
          /\ cached' = kept /\ durable' = kept
    /\ newShards' = {} /\ newLinks' = {}
    /\ UNCHANGED <<written, pending, rows, crashes, faults>>

Seal(w) == \/ Flush(w) \/ Fsync(w) \/ MakeShard(w) \/ Link(w) \/ FsyncShard(w)
           \/ Verify(w) \/ Sealed(w)
Step(w) == \/ Begin(w) \/ Write(w) \/ Seal(w) \/ Publish(w) \/ Abandon(w)
           \/ Fault(w) \/ Discard(w) \/ Spill(w) \/ WriteBack(w) \/ Crash(w)
Next == PowerCut \/ \E w \in Download : Step(w)
Spec == Init /\ [][Next]_vars

(***************************************************************************)
(* Properties.                                                             *)
(***************************************************************************)
TypeOK ==
    /\ step \in [Download -> Steps]
    /\ written \in [Download -> 0..Size] /\ cached \in [Download -> 0..Size]
    /\ durable \in [Download -> 0..Size]
    /\ pending \subseteq Download /\ shards \subseteq Shard
    /\ cas \in [Content -> Download \cup {None}]
    /\ newShards \subseteq Shard /\ newLinks \subseteq Content
    /\ rows \subseteq Download /\ lost \subseteq Download
    /\ crashes \in 0..MaxCrashes /\ cuts \in 0..MaxCuts /\ faults \in 0..MaxFaults

Whole(c) == cas[c] # None /\ cached[cas[c]] = Size

\* "A crash may leave a complete unreferenced blob, never a partial one"
\* (repository.py:125-126): what is linked under a digest is that body, whole,
\* whenever a process or the machine stops.
NeverPartial == \A c \in Content : cas[c] # None => Body[cas[c]] = c /\ Whole(c)

stored == {c \in Content : Whole(c)}
cited  == {Body[w] : w \in rows}
Blobs  == INSTANCE BlobStore WITH Content <- Content, stored <- stored,
                                  cited <- cited

\* The store and the repository implement BlobStore: no row cites a body that
\* is not, or is no longer, stored whole (storage.py:90-131,
\* repository.py:124-139).
Refines == Blobs!Spec

\* "Blob publication precedes this atomic metadata transaction"
\* (repository.py:125): a row's body is in the store.
RowsBacked == cited \subseteq stored
==============================================================================
