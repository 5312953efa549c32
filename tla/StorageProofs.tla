---------------------------- MODULE StorageProofs ----------------------------
(***************************************************************************)
(* What web acquisition keeps.  For every set of downloads, every size and *)
(* any number of crashes, power cuts and faults: what the store links is   *)
(* whole, and, on a file system that orders its directory updates, the     *)
(* store and its repository implement BlobStore.  For every set of jobs,   *)
(* resources and digests, every page size and any number of rows: what the *)
(* rows of the repository name is there, and what a client reads of them   *)
(* page by page is whole.                                                  *)
(***************************************************************************)
EXTENDS ArtifactStore, Listings, SequenceTheorems, FiniteSetTheorems, TLAPS

\* The whole body of w is written, in the kernel and on the disk.
Settled(w) == written[w] = Size /\ cached[w] = Size /\ durable[w] = Size

\* seal() syncs before it links, and no linked inode is written any more.
SyncedFirst ==
    \A w \in Download :
        /\ step[w] = "flushed" => written[w] = Size /\ cached[w] = Size
        /\ step[w] \in {"synced", "sharded"} => Settled(w)

LinkedIsSettled ==
    \A c \in Content : cas[c] # None =>
        /\ cas[c] \in Download /\ Body[cas[c]] = c /\ Settled(cas[c])
        /\ step[cas[c]] \notin {"idle", "open"}

WholeInv == TypeOK /\ SyncedFirst /\ LinkedIsSettled

\* What a download past its link, or a row, relies on is in the store, and
\* for a row it can no longer be lost.
TakenIsLinked ==
    \A w \in Download :
        step[w] \in {"linked", "exists", "sealed", "artifact"} =>
            cas[Body[w]] # None

ShardsThere ==
    /\ \A c \in Content : cas[c] # None => ShardOf[c] \in shards
    /\ \A w \in Download : step[w] = "sharded" => ShardFor(w) \in shards

CitedIsSafe ==
    \A w \in rows : /\ cas[Body[w]] # None
                    /\ Body[w] \notin newLinks
                    /\ ShardFor(w) \notin newShards

StoreInv == WholeInv /\ TakenIsLinked /\ ShardsThere /\ CitedIsSafe

(***************************************************************************)
(* What is linked is whole.                                                *)
(***************************************************************************)
LEMMA WholeInit == Init => WholeInv
  BY StoreAssumption DEF Init, WholeInv, TypeOK, SyncedFirst, LinkedIsSettled,
     Steps, InSeal, Over

LEMMA TypeStep == TypeOK /\ [Next]_vars => TypeOK'
<1> SUFFICES ASSUME TypeOK, [Next]_vars PROVE TypeOK'
  OBVIOUS
<1> USE StoreAssumption DEF TypeOK, Steps, InSeal, Over, Go, ShardFor
<1>1. CASE UNCHANGED vars
  BY <1>1 DEF vars, inodes, dirs, unsure, bounds
<1>2. CASE PowerCut
  <2> PICK gone \in SUBSET newShards, unlinked \in SUBSET newLinks :
          /\ shards' = shards \ gone
          /\ cas' = [c \in Content |->
                       IF c \in unlinked \/ ShardOf[c] \in gone THEN None
                       ELSE cas[c]]
    BY <1>2 DEF PowerCut
  <2>1. cached' \in [Download -> 0..Size] /\ durable' = cached'
    BY <1>2 DEF PowerCut
  <2>2. step' \in [Download -> Steps]
    BY <1>2 DEF PowerCut
  <2>3. cuts' \in 0..MaxCuts
    BY <1>2 DEF PowerCut
  <2> QED BY <1>2, <2>1, <2>2, <2>3 DEF PowerCut
<1>3. ASSUME NEW w \in Download, Step(w) PROVE TypeOK'
  <2>1. CASE Begin(w)
    BY <2>1 DEF Begin, inodes, unsure, bounds
  <2>2. CASE Write(w)
    BY <2>2 DEF Write, HasRoom, dirs, unsure, bounds
  <2>3. CASE Flush(w)
    BY <2>3 DEF Flush, dirs, unsure, bounds
  <2>4. CASE Fsync(w)
    BY <2>4 DEF Fsync, Synced, SyncFile, dirs, unsure, bounds
  <2>5. CASE MakeShard(w)
    BY <2>5 DEF MakeShard, inodes, bounds
  <2>6. CASE Link(w)
    BY <2>6 DEF Link, inodes, bounds
  <2>7. CASE FsyncShard(w)
    BY <2>7 DEF FsyncShard, SyncShard, inodes, dirs, unsure, bounds
  <2>8. CASE Verify(w)
    BY <2>8 DEF Verify, inodes, dirs, unsure, bounds
  <2>9. CASE Sealed(w)
    BY <2>9 DEF Sealed, Unlinked, inodes, unsure, bounds
  <2>10. CASE Publish(w)
    BY <2>10 DEF Publish, SyncFile, inodes, dirs, unsure, bounds
  <2>11. CASE Abandon(w)
    BY <2>11 DEF Abandon, inodes, dirs, unsure, bounds
  <2>12. CASE Fault(w)
    BY <2>12 DEF Fault, inodes, dirs, unsure
  <2>13. CASE Discard(w)
    BY <2>13 DEF Discard, Unlinked, unsure
  <2>14. CASE Spill(w)
    BY <2>14 DEF Spill, dirs, unsure, bounds
  <2>15. CASE WriteBack(w)
    BY <2>15 DEF WriteBack, dirs, unsure, bounds
  <2>16. CASE Crash(w)
    BY <2>16 DEF Crash, inodes, dirs, unsure
  <2> QED BY <1>3, <2>1, <2>2, <2>3, <2>4, <2>5, <2>6, <2>7, <2>8, <2>9, <2>10,
             <2>11, <2>12, <2>13, <2>14, <2>15, <2>16 DEF Step, Seal
<1> QED BY <1>1, <1>2, <1>3 DEF Next

LEMMA WholeStep == WholeInv /\ [Next]_vars => WholeInv'
<1> SUFFICES ASSUME WholeInv, [Next]_vars PROVE (SyncedFirst /\ LinkedIsSettled)'
  BY TypeStep DEF WholeInv
<1> USE StoreAssumption DEF WholeInv, TypeOK, Steps, InSeal, Over, Go, ShardFor,
        SyncedFirst, LinkedIsSettled, Settled
<1>1. CASE UNCHANGED vars
  BY <1>1 DEF vars, inodes, dirs
<1>2. CASE PowerCut
  <2> PICK gone \in SUBSET newShards, unlinked \in SUBSET newLinks :
          cas' = [c \in Content |->
                       IF c \in unlinked \/ ShardOf[c] \in gone THEN None
                       ELSE cas[c]]
    BY <1>2 DEF PowerCut
  <2>1. \A w \in Download : Settled(w) => Settled(w)'
    BY <1>2 DEF PowerCut
  <2>2. \A w \in Download : step'[w] \in {"idle"} \cup Over
    BY <1>2 DEF PowerCut
  <2>3. \A w \in Download : step[w] \notin {"idle", "open"}
                              => step'[w] \notin {"idle", "open"}
    BY <1>2 DEF PowerCut
  <2>4. SyncedFirst'
    BY <2>2
  <2>5. LinkedIsSettled'
    BY <2>1, <2>3
  <2> QED BY <2>4, <2>5
<1>3. ASSUME NEW w \in Download, Step(w) PROVE (SyncedFirst /\ LinkedIsSettled)'
  <2>1. CASE Begin(w)
    BY <2>1 DEF Begin, inodes, unsure, bounds
  <2>2. CASE Write(w)
    BY <2>2 DEF Write, HasRoom, dirs, unsure, bounds
  <2>3. CASE Flush(w)
    BY <2>3 DEF Flush, dirs, unsure, bounds
  <2>4. CASE Fsync(w)
    BY <2>4 DEF Fsync, Synced, SyncFile, dirs, unsure, bounds
  <2>5. CASE MakeShard(w)
    BY <2>5 DEF MakeShard, inodes, bounds
  <2>6. CASE Link(w)
    BY <2>6 DEF Link, inodes, bounds
  <2>7. CASE FsyncShard(w)
    BY <2>7 DEF FsyncShard, SyncShard, inodes, dirs, unsure, bounds
  <2>8. CASE Verify(w)
    BY <2>8 DEF Verify, inodes, dirs, unsure, bounds
  <2>9. CASE Sealed(w)
    BY <2>9 DEF Sealed, Unlinked, inodes, unsure, bounds
  <2>10. CASE Publish(w)
    BY <2>10 DEF Publish, Commits, SyncFile, inodes, dirs, unsure, bounds
  <2>11. CASE Abandon(w)
    BY <2>11 DEF Abandon, inodes, dirs, unsure, bounds
  <2>12. CASE Fault(w)
    BY <2>12 DEF Fault, inodes, dirs, unsure
  <2>13. CASE Discard(w)
    BY <2>13 DEF Discard, Unlinked, unsure
  <2>14. CASE Spill(w)
    BY <2>14 DEF Spill, dirs, unsure, bounds
  <2>15. CASE WriteBack(w)
    BY <2>15 DEF WriteBack, dirs, unsure, bounds
  <2>16. CASE Crash(w)
    BY <2>16 DEF Crash, inodes, dirs, unsure
  <2> QED BY <1>3, <2>1, <2>2, <2>3, <2>4, <2>5, <2>6, <2>7, <2>8, <2>9, <2>10,
             <2>11, <2>12, <2>13, <2>14, <2>15, <2>16 DEF Step, Seal
<1> QED BY <1>1, <1>2, <1>3 DEF Next

\* Whatever stops, and however little the file system orders: a body that is
\* linked under a digest has that digest, is complete, and is on the disk.
THEOREM LinkedInvariant == Spec => []WholeInv
  BY WholeInit, WholeStep, PTL DEF Spec

\* No crash, power cut or fault leaves a partial body in the store, because
\* seal() syncs the file before it links it (repository.py:125-126).
THEOREM StoreIsNeverPartial == Spec => []NeverPartial
<1>1. WholeInv => NeverPartial
  BY DEF WholeInv, LinkedIsSettled, Settled, NeverPartial, Whole
<1> QED BY LinkedInvariant, <1>1, PTL

(***************************************************************************)
(* Rows cite what is stored.                                               *)
(***************************************************************************)
LEMMA StoreInit == Init => StoreInv
  BY WholeInit, StoreAssumption
     DEF Init, StoreInv, TakenIsLinked, ShardsThere, CitedIsSafe, ShardFor

LEMMA StoreStep == Ordered /\ StoreInv /\ [Next]_vars => StoreInv'
<1> SUFFICES ASSUME Ordered, StoreInv, [Next]_vars
             PROVE (TakenIsLinked /\ ShardsThere /\ CitedIsSafe)'
  BY WholeStep DEF StoreInv
<1> USE StoreAssumption DEF StoreInv, WholeInv, TypeOK, Steps, InSeal, Over, Go,
        ShardFor, LinkedIsSettled, TakenIsLinked, ShardsThere, CitedIsSafe
<1>1. CASE UNCHANGED vars
  BY <1>1 DEF vars, dirs, unsure
<1>2. CASE PowerCut
  <2> PICK gone \in SUBSET newShards, unlinked \in SUBSET newLinks :
          /\ shards' = shards \ gone
          /\ cas' = [c \in Content |->
                       IF c \in unlinked \/ ShardOf[c] \in gone THEN None
                       ELSE cas[c]]
    BY <1>2 DEF PowerCut
  <2>1. \A w \in Download : step'[w] \in {"idle"} \cup Over
    BY <1>2 DEF PowerCut
  <2>2. rows' = rows /\ newShards' = {} /\ newLinks' = {}
    BY <1>2 DEF PowerCut
  <2>3. TakenIsLinked'
    BY <2>1
  <2>4. ShardsThere'
    BY <2>1
  <2>5. CitedIsSafe'
    BY <2>2
  <2> QED BY <2>3, <2>4, <2>5
<1>3. ASSUME NEW w \in Download, Step(w)
      PROVE (TakenIsLinked /\ ShardsThere /\ CitedIsSafe)'
  <2>1. CASE Begin(w)
    BY <2>1 DEF Begin, inodes, unsure, bounds
  <2>2. CASE Write(w)
    BY <2>2 DEF Write, HasRoom, dirs, unsure, bounds
  <2>3. CASE Flush(w)
    BY <2>3 DEF Flush, dirs, unsure, bounds
  <2>4. CASE Fsync(w)
    BY <2>4 DEF Fsync, Synced, SyncFile, dirs, unsure, bounds
  <2>5. CASE MakeShard(w)
    BY <2>5 DEF MakeShard, inodes, bounds
  <2>6. CASE Link(w)
    BY <2>6 DEF Link, inodes, bounds
  <2>7. CASE FsyncShard(w)
    BY <2>7 DEF FsyncShard, SyncShard, inodes, dirs, unsure, bounds
  <2>8. CASE Verify(w)
    BY <2>8 DEF Verify, inodes, dirs, unsure, bounds
  <2>9. CASE Sealed(w)
    BY <2>9 DEF Sealed, Unlinked, inodes, unsure, bounds
  <2>10. CASE Publish(w)
    BY <2>10 DEF Publish, Commits, SyncFile, inodes, dirs, unsure, bounds
  <2>11. CASE Abandon(w)
    BY <2>11 DEF Abandon, inodes, dirs, unsure, bounds
  <2>12. CASE Fault(w)
    BY <2>12 DEF Fault, inodes, dirs, unsure
  <2>13. CASE Discard(w)
    BY <2>13 DEF Discard, Unlinked, unsure
  <2>14. CASE Spill(w)
    BY <2>14 DEF Spill, dirs, unsure, bounds
  <2>15. CASE WriteBack(w)
    BY <2>15 DEF WriteBack, dirs, unsure, bounds
  <2>16. CASE Crash(w)
    BY <2>16 DEF Crash, inodes, dirs, unsure
  <2> QED BY <1>3, <2>1, <2>2, <2>3, <2>4, <2>5, <2>6, <2>7, <2>8, <2>9, <2>10,
             <2>11, <2>12, <2>13, <2>14, <2>15, <2>16 DEF Step, Seal
<1> QED BY <1>1, <1>2, <1>3 DEF Next

\* With directory updates made durable in order, no row ever cites a body that
\* is missing.
THEOREM StoreInvariant == ASSUME Ordered PROVE Spec => []StoreInv
<1>1. StoreInv /\ [Next]_vars => StoreInv'
  BY Ordered, StoreStep
<1> QED BY StoreInit, <1>1, PTL DEF Spec

LEMMA InvCites == StoreInv => RowsBacked
  BY StoreAssumption
     DEF StoreInv, WholeInv, TypeOK, LinkedIsSettled, Settled, CitedIsSafe,
         RowsBacked, stored, cited, Whole

\* A row's body is in the store, whatever stops (repository.py:125).
THEOREM RowsAreBacked == ASSUME Ordered PROVE Spec => []RowsBacked
  BY StoreInvariant, InvCites, PTL

LEMMA StoredIsLinked == StoreInv => stored = {c \in Content : cas[c] # None}
  BY DEF StoreInv, WholeInv, LinkedIsSettled, Settled, stored, Whole

LEMMA StepRefines ==
    ASSUME Ordered, StoreInv, StoreInv', [Next]_vars
    PROVE  Blobs!Next \/ (stored' = stored /\ cited' = cited)
<1> DEFINE linked == {c \in Content : cas[c] # None}
<1>1. stored = linked /\ stored' = linked'
  BY StoredIsLinked DEF StoreInv, WholeInv, LinkedIsSettled, Settled, stored, Whole
<1>2. cited \subseteq stored'
  <2>1. rows' = rows \/ rows \subseteq rows'
    BY DEF Next, Step, Seal, vars, Begin, Write, Flush, Fsync, MakeShard, Link,
           FsyncShard, Verify, Sealed, Publish, Abandon, Fault, Discard, Spill,
           WriteBack, Crash, PowerCut
  <2>2. cited \subseteq cited'
    BY <2>1 DEF cited
  <2>3. RowsBacked'
    BY StoreAssumption
       DEF StoreInv, WholeInv, TypeOK, LinkedIsSettled, Settled, CitedIsSafe,
           RowsBacked, stored, cited, Whole
  <2> QED BY <2>2, <2>3 DEF RowsBacked
<1>3. CASE UNCHANGED vars
  <2>1. cas' = cas /\ rows' = rows
    BY <1>3 DEF vars, dirs
  <2> QED BY <1>1, <2>1 DEF cited
<1>4. CASE PowerCut
  <2>1. rows' = rows /\ \A c \in Content : cas'[c] # None => cas[c] # None
    BY <1>4 DEF PowerCut
  <2>2. cited' = cited
    BY <2>1 DEF cited
  <2>3. stored' \subseteq stored
    BY <1>1, <2>1
  <2> QED BY <1>2, <2>2, <2>3 DEF Blobs!Next, Blobs!Lose
<1>5. ASSUME NEW w \in Download, Step(w)
      PROVE Blobs!Next \/ (stored' = stored /\ cited' = cited)
  <2> Body[w] \in Content
    BY StoreAssumption
  <2>1. CASE Link(w)
    <3>1. rows' = rows
      BY <2>1 DEF Link
    <3>2. linked' = linked \/ linked' = linked \cup {Body[w]}
      BY <2>1, StoreAssumption DEF Link, StoreInv, WholeInv, TypeOK
    <3>3. cited' = cited
      BY <3>1 DEF cited
    <3> QED BY <1>1, <3>2, <3>3 DEF Blobs!Next, Blobs!Store
  <2>2. CASE Publish(w)
    <3>1. cas' = cas /\ rows' = rows \cup {w}
      BY <2>2 DEF Publish, dirs
    <3>2. Body[w] \in linked
      BY <2>2 DEF Publish, Commits, StoreInv, TakenIsLinked
    <3>3. cited' = cited \cup {Body[w]} /\ stored' = stored
      BY <1>1, <3>1 DEF cited
    <3> QED BY <1>1, <3>2, <3>3 DEF Blobs!Next, Blobs!Cite
  <2>3. ASSUME ~Link(w), ~Publish(w) PROVE stored' = stored /\ cited' = cited
    <3>1. cas' = cas /\ rows' = rows
      BY <1>5, <2>3 DEF Step, Seal, dirs, Begin, Write, Flush, Fsync, MakeShard,
         FsyncShard, Verify, Sealed, Abandon, Fault, Discard, Spill, WriteBack, Crash
    <3> QED BY <1>1, <3>1 DEF cited
  <2> QED BY <2>1, <2>2, <2>3
<1> QED BY <1>3, <1>4, <1>5 DEF Next

LEMMA InitRefines == Init => Blobs!Init
  BY StoreAssumption DEF Init, Blobs!Init, stored, cited, Whole

\* The store and the repository implement BlobStore: every step stores a body,
\* cites a stored one, loses bodies that nothing cites, or is invisible.
THEOREM StoreRefines == ASSUME Ordered PROVE Spec => Refines
<1>1. StoreInv /\ StoreInv' /\ [Next]_vars => [Blobs!Next]_<<stored, cited>>
  BY Ordered, StepRefines
<1> QED BY StoreInvariant, InitRefines, <1>1, PTL DEF Spec, Refines, Blobs!Spec

-----------------------------------------------------------------------------
(***************************************************************************)
(* The rows of the repository, and readings of them (Listings).            *)
(***************************************************************************)
(***************************************************************************)
(* ORDER BY: how many of a set of numbers come before one of them.         *)
(***************************************************************************)
Below(S, e) == {m \in S : m < e}
Height(S, e) == Cardinality(Below(S, e))
Numbers(S) == S \in SUBSET Int /\ IsFiniteSet(S)

LEMMA HeightIs ==
    ASSUME NEW S, Numbers(S), NEW a \in S
    PROVE  Height(S, a) \in 0..(Cardinality(S) - 1) /\ Cardinality(S) \in Nat
<1> DEFINE A == Below(S, a)
<1>1. A \in SUBSET (S \ {a}) /\ a \in Int /\ IsFiniteSet(S)
  BY DEF Below, Numbers
<1>2. IsFiniteSet(S \ {a}) /\ Cardinality(S \ {a}) = Cardinality(S) - 1
  BY <1>1, FS_RemoveElement
<1> HIDE DEF A
<1>3. IsFiniteSet(A) /\ Cardinality(A) <= Cardinality(S \ {a})
  BY <1>1, <1>2, FS_Subset
<1>4. Cardinality(A) \in Nat /\ Cardinality(S) \in Nat
  BY <1>1, <1>3, FS_CardinalityType
<1>5. QED BY <1>2, <1>3, <1>4 DEF A, Height

LEMMA HeightGrows ==
    ASSUME NEW S, Numbers(S), NEW a \in S, NEW b \in S, a < b
    PROVE  Height(S, a) < Height(S, b)
<1> DEFINE A == Below(S, a)
           B == Below(S, b)
<1>1. B \in SUBSET S /\ A \in SUBSET B /\ a \in B /\ a \notin A /\ IsFiniteSet(S)
  <2>1. S \in SUBSET Int /\ a \in Int /\ b \in Int /\ IsFiniteSet(S)
    BY DEF Numbers
  <2>2. \A m \in S : m < a => m < b
    BY <2>1
  <2>3. A = {m \in S : m < a} /\ B = {m \in S : m < b}
    BY DEF Below
  <2>4. ~(a < a)
    BY <2>1
  <2> HIDE DEF A, B
  <2>5. A \in SUBSET B
    BY <2>2, <2>3
  <2>6. a \in B /\ a \notin A
    BY <2>3, <2>4
  <2>7. QED BY <2>1, <2>3, <2>5, <2>6
<1> HIDE DEF A, B
<1>2. IsFiniteSet(B)
  BY <1>1, FS_Subset
<1>3. IsFiniteSet(A) /\ Cardinality(A) <= Cardinality(B) /\ Cardinality(A) # Cardinality(B)
  BY <1>1, <1>2, FS_Subset
<1>4. Cardinality(A) \in Nat /\ Cardinality(B) \in Nat
  BY <1>2, <1>3, FS_CardinalityType
<1>5. QED BY <1>3, <1>4 DEF A, B, Height

LEMMA HeightTells ==
    ASSUME NEW S, Numbers(S), NEW a \in S, NEW b \in S
    PROVE  /\ Height(S, a) = Height(S, b) => a = b
           /\ Height(S, a) < Height(S, b) => a < b
<1>1. a \in Int /\ b \in Int /\ Height(S, a) \in Nat /\ Height(S, b) \in Nat
  <2>1. Height(S, a) \in 0..(Cardinality(S) - 1) /\ Cardinality(S) \in Nat
    BY HeightIs
  <2>2. Height(S, b) \in 0..(Cardinality(S) - 1)
    BY HeightIs
  <2>3. a \in Int /\ b \in Int
    BY DEF Numbers
  <2>4. QED BY <2>1, <2>2, <2>3
<1>2. a < b => Height(S, a) < Height(S, b)
  BY HeightGrows
<1>3. b < a => Height(S, b) < Height(S, a)
  BY HeightGrows
<1>4. QED BY <1>1, <1>2, <1>3

LEMMA HeightTaken ==
    ASSUME NEW S, Numbers(S), NEW i \in 0..(Cardinality(S) - 1)
    PROVE  \E e \in S : Height(S, e) = i
<1> DEFINE f == [e \in S |-> Height(S, e)]
           size == Cardinality(S)
<1>1. size \in Nat /\ IsFiniteSet(S)
  BY FS_CardinalityType DEF Numbers
<1>2. f \in [S -> 0..(size - 1)]
  BY HeightIs
<1>3. \A a, b \in S : f[a] = f[b] => a = b
  BY HeightTells
<1> HIDE DEF f
<1>4. f \in Injection(S, 0..(size - 1))
  BY <1>2, <1>3 DEF Injection, IsInjective
<1>5. IsFiniteSet(0..(size - 1)) /\ Cardinality(0..(size - 1)) = size
  BY <1>1, FS_Interval
<1>6. f \in Surjection(S, 0..(size - 1))
  BY <1>1, <1>4, <1>5, FS_Injection
<1>7. \E e \in S : f[e] = i
  BY <1>6 DEF Surjection
<1>8. QED BY <1>7 DEF f

\* q is S from the least up.
Rises(q, S) ==
    /\ q \in Seq(S) /\ DOMAIN q = 1..Cardinality(S) /\ Len(q) = Cardinality(S) /\ Cardinality(S) \in Nat
    /\ \A k \in DOMAIN q : q[k] \in S /\ Height(S, q[k]) = k - 1
    /\ \A e \in S : (Height(S, e) + 1) \in DOMAIN q /\ q[Height(S, e) + 1] = e

LEMMA RisingIs ==
    ASSUME NEW S, Numbers(S)
    PROVE  Rises(Rising(S), S)
<1> DEFINE q == Rising(S)
           size == Cardinality(S)
<1>1. size \in Nat
  BY FS_CardinalityType DEF Numbers
<1>2. q = [k \in 1..size |-> q[k]]
  BY DEF Rising
<1>3. ASSUME NEW k \in 1..size PROVE q[k] \in S /\ Height(S, q[k]) = k - 1
  <2>1. q[k] = CHOOSE i \in S : Cardinality({m \in S : m < i}) = k - 1
    BY DEF Rising, Nth
  <2>2. \E i \in S : Cardinality({m \in S : m < i}) = k - 1
    <3>1. k - 1 \in 0..(size - 1)
      BY <1>1
    <3>2. PICK i \in S : Height(S, i) = k - 1
      BY <3>1, HeightTaken
    <3>3. QED BY <3>2 DEF Height, Below
  <2> HIDE DEF q
  <2>3. q[k] \in S /\ Cardinality({m \in S : m < q[k]}) = k - 1
    BY <2>1, <2>2
  <2>4. QED BY <2>3 DEF Height, Below
<1> HIDE DEF q
<1>4. q \in Seq(S) /\ DOMAIN q = 1..size /\ Len(q) = size
  BY <1>1, <1>2, <1>3
<1>5. ASSUME NEW e \in S PROVE (Height(S, e) + 1) \in 1..size /\ q[Height(S, e) + 1] = e
  <2> DEFINE k == Height(S, e) + 1
  <2>1. k \in 1..size /\ k - 1 = Height(S, e)
    BY <1>1, HeightIs
  <2> HIDE DEF k
  <2>2. q[k] \in S /\ Height(S, q[k]) = Height(S, e)
    BY <1>3, <2>1
  <2>3. q[k] = e
    BY <2>2, HeightTells
  <2>4. QED BY <2>1, <2>3 DEF k
<1>6. Rises(q, S)
  BY <1>1, <1>3, <1>4, <1>5 DEF Rises
<1>7. QED BY <1>6 DEF q

\* A set that grew upwards only keeps its order and goes on.
LEMMA RisingGoesOn ==
    ASSUME NEW S, Numbers(S), NEW T, Numbers(T), S \in SUBSET T,
           \A a \in S, b \in T \ S : a < b
    PROVE  /\ DOMAIN Rising(S) \in SUBSET DOMAIN Rising(T)
           /\ \A k \in DOMAIN Rising(S) : Rising(T)[k] = Rising(S)[k]
<1> DEFINE p == Rising(S)
           q == Rising(T)
<1>1. Rises(p, S) /\ Rises(q, T)
  BY RisingIs
<1> HIDE DEF p, q
<1>2. ASSUME NEW e \in S PROVE Height(T, e) = Height(S, e)
  <2>1. Below(T, e) = Below(S, e)
    <3> SUFFICES ASSUME NEW b \in T, b < e PROVE b \in S
      BY DEF Below
    <3> SUFFICES ASSUME b \notin S PROVE FALSE
      OBVIOUS
    <3>1. e < b /\ e \in Int /\ b \in Int
      BY DEF Numbers
    <3>2. QED BY <3>1
  <2>2. QED BY <2>1 DEF Height
<1>3. ASSUME NEW k \in DOMAIN p PROVE k \in DOMAIN q /\ q[k] = p[k]
  <2> DEFINE e == p[k]
  <2>1. e \in S /\ Height(S, e) = k - 1 /\ k \in Int
    BY <1>1 DEF Rises
  <2> HIDE DEF e
  <2>2. e \in T /\ Height(T, e) + 1 = k
    BY <1>2, <2>1
  <2>3. k \in DOMAIN q /\ q[k] = e
    BY <1>1, <2>2 DEF Rises
  <2>4. QED BY <2>3 DEF e
<1>4. QED BY <1>3 DEF p, q

(***************************************************************************)
(* Tables, and what is listed of them.                                     *)
(***************************************************************************)
IsList(s) == \E X : s \in Seq(X)
Unique(s) == \A i, k \in DOMAIN s : s[i].id = s[k].id => i = k
\* t has the rows of s where s has them, rewritten perhaps.
Grown(s, t) == \A i \in DOMAIN s : i \in DOMAIN t /\ t[i].id = s[i].id /\ t[i].job = s[i].job

LEMMA AtIs ==
    ASSUME NEW s, IsList(s), NEW j
    PROVE  /\ Numbers(At(s, j)) /\ At(s, j) \in SUBSET DOMAIN s
           /\ DOMAIN s = 1..Len(s) /\ Len(s) \in Nat
<1>1. DOMAIN s = 1..Len(s) /\ Len(s) \in Nat
  BY DEF IsList
<1>2. At(s, j) \in SUBSET DOMAIN s
  BY DEF At
<1>3. IsFiniteSet(1..Len(s))
  BY <1>1, FS_Interval
<1>4. IsFiniteSet(At(s, j))
  BY <1>1, <1>2, <1>3, FS_Subset
<1>5. At(s, j) \in SUBSET Int
  BY <1>1, <1>2
<1>6. QED BY <1>1, <1>2, <1>4, <1>5 DEF Numbers

\* q lists the rows of s for which at holds the positions.
Picks(q, s, at, S) ==
    /\ IsList(q) /\ DOMAIN q = DOMAIN at /\ Len(q) = Len(at) /\ Len(q) \in Nat /\ DOMAIN q = 1..Len(q)
    /\ Rises(at, S) /\ \A k \in DOMAIN q : at[k] \in S /\ q[k] = s[at[k]]

LEMMA RowsOfPicks ==
    ASSUME NEW s, IsList(s), NEW j
    PROVE  Picks(RowsOf(s, j), s, Rising(At(s, j)), At(s, j))
<1> DEFINE S == At(s, j)
           at == Rising(S)
           q == RowsOf(s, j)
<1>1. q = [k \in DOMAIN at |-> s[at[k]]]
  BY DEF RowsOf
<1>2. Rises(at, S)
  BY AtIs, RisingIs
<1> HIDE DEF S, at, q
<1>3. DOMAIN at = 1..Len(at) /\ Len(at) \in Nat /\ \A k \in DOMAIN at : at[k] \in S
  BY <1>2 DEF Rises
<1>4. q \in Seq({s[at[k]] : k \in DOMAIN at}) /\ Len(q) = Len(at)
  BY <1>1, <1>3
<1>5. Picks(q, s, at, S)
  BY <1>1, <1>2, <1>3, <1>4 DEF Picks, IsList
<1>6. QED BY <1>5 DEF q, at, S

\* What a listing has: the rows of the job, each once.
LEMMA RowsOfIs ==
    ASSUME NEW s, IsList(s), Unique(s), NEW j
    PROVE  /\ IsList(RowsOf(s, j)) /\ Unique(RowsOf(s, j))
           /\ Ids(RowsOf(s, j)) = Of(s, j)
           /\ \A k \in DOMAIN RowsOf(s, j) :
                \E i \in DOMAIN s : RowsOf(s, j)[k] = s[i] /\ s[i].job = j
<1> DEFINE S == At(s, j)
           at == Rising(S)
           q == RowsOf(s, j)
<1>1. Picks(q, s, at, S) /\ S \in SUBSET DOMAIN s
  BY RowsOfPicks, AtIs
<1>2. Of(s, j) = {s[i].id : i \in S} /\ Ids(q) = {q[k].id : k \in DOMAIN q}
      /\ \A i \in S : s[i].job = j
  BY DEF Of, Ids, At
<1> HIDE DEF S, at, q
<1>3. Unique(q)
  <2> SUFFICES ASSUME NEW i \in DOMAIN q, NEW k \in DOMAIN q, q[i].id = q[k].id PROVE i = k
    BY DEF Unique
  <2>1. at[i] \in S /\ at[k] \in S /\ s[at[i]].id = s[at[k]].id
    BY <1>1 DEF Picks
  <2>2. at[i] = at[k]
    BY <1>1, <2>1 DEF Unique
  <2>3. Height(S, at[i]) = i - 1 /\ Height(S, at[k]) = k - 1 /\ i \in Int /\ k \in Int
    BY <1>1 DEF Picks, Rises
  <2>4. i - 1 = k - 1
    BY <2>2, <2>3
  <2>5. QED BY <2>3, <2>4
<1>4. \A i \in S : \E k \in DOMAIN q : q[k] = s[i]
  <2> SUFFICES ASSUME NEW i \in S PROVE \E k \in DOMAIN q : q[k] = s[i]
    OBVIOUS
  <2>1. (Height(S, i) + 1) \in DOMAIN at /\ at[Height(S, i) + 1] = i
    BY <1>1 DEF Picks, Rises
  <2>2. QED BY <1>1, <2>1 DEF Picks
<1>5. \A k \in DOMAIN q : at[k] \in S /\ q[k] = s[at[k]]
  BY <1>1 DEF Picks
<1>6. Ids(q) = Of(s, j)
  BY <1>2, <1>4, <1>5
<1>7. \A k \in DOMAIN q : \E i \in DOMAIN s : q[k] = s[i] /\ s[i].job = j
  BY <1>1, <1>2, <1>5
<1>8. IsList(q)
  BY <1>1 DEF Picks
<1>9. QED BY <1>3, <1>6, <1>7, <1>8 DEF q

\* A listing of a table that has grown goes on where it ended.
LEMMA RowsOfGrow ==
    ASSUME NEW s, IsList(s), NEW t, IsList(t), Grown(s, t), NEW j
    PROVE  \A k \in DOMAIN RowsOf(s, j) :
             k \in DOMAIN RowsOf(t, j) /\ RowsOf(t, j)[k].id = RowsOf(s, j)[k].id
<1> DEFINE S == At(s, j)
           T == At(t, j)
           at == Rising(S)
           to == Rising(T)
           p == RowsOf(s, j)
           q == RowsOf(t, j)
<1>1. Picks(p, s, at, S) /\ Picks(q, t, to, T)
  BY RowsOfPicks
<1>2. Numbers(S) /\ Numbers(T) /\ DOMAIN s = 1..Len(s) /\ DOMAIN t = 1..Len(t) /\ Len(s) \in Nat /\ Len(t) \in Nat
  BY AtIs
<1>3. S = {i \in DOMAIN s : s[i].job = j} /\ T = {i \in DOMAIN t : t[i].job = j}
  BY DEF At
<1>4. S \in SUBSET T
  BY <1>3 DEF Grown
<1>5. \A a \in S, b \in T \ S : a < b
  <2> SUFFICES ASSUME NEW a \in S, NEW b \in T, b \notin S PROVE a < b
    OBVIOUS
  <2>1. b \notin DOMAIN s
    BY <1>3 DEF Grown
  <2>2. a \in 1..Len(s) /\ b \in 1..Len(t) /\ b \notin 1..Len(s)
    BY <1>2, <1>3, <2>1
  <2>3. QED BY <1>2, <2>2
<1> HIDE DEF S, T
<1>6. DOMAIN at \in SUBSET DOMAIN to /\ \A k \in DOMAIN at : to[k] = at[k]
  BY <1>2, <1>4, <1>5, RisingGoesOn
<1> HIDE DEF at, to, p, q
<1>7. ASSUME NEW k \in DOMAIN p PROVE k \in DOMAIN q /\ q[k].id = p[k].id
  <2>1. at[k] \in S /\ p[k] = s[at[k]] /\ k \in DOMAIN at
    BY <1>1 DEF Picks
  <2>2. k \in DOMAIN q /\ q[k] = t[at[k]]
    BY <1>1, <1>6, <2>1 DEF Picks
  <2>3. t[at[k]].id = s[at[k]].id
    BY <1>3, <2>1 DEF Grown
  <2>4. QED BY <2>1, <2>2, <2>3
<1>8. QED BY <1>7 DEF p, q

\* INSERT ... ON CONFLICT(id) DO UPDATE, and a row at the end.
LEMMA UpsertIs ==
    ASSUME NEW X, NEW s \in Seq(X), NEW row \in X, Unique(s),
           \A i \in DOMAIN s : s[i].id = row.id => s[i].job = row.job
    PROVE  LET t == Upsert(s, row)
           IN  /\ t \in Seq(X) /\ Unique(t) /\ Grown(s, t)
               /\ \A i \in DOMAIN t : t[i] = row \/ (i \in DOMAIN s /\ t[i] = s[i])
               /\ \E i \in DOMAIN t : t[i] = row
<1> DEFINE t == Upsert(s, row)
<1>1. CASE row.id \in Ids(s)
  <2>1. t = [i \in DOMAIN s |-> IF s[i].id = row.id THEN row ELSE s[i]]
    BY <1>1 DEF Upsert
  <2>2. PICK i \in DOMAIN s : s[i].id = row.id
    BY <1>1 DEF Ids
  <2> HIDE DEF t
  <2>3. t \in Seq(X) /\ DOMAIN t = DOMAIN s
    BY <2>1
  <2>4. \A k \in DOMAIN s : t[k].id = s[k].id /\ t[k].job = s[k].job /\ t[k] \in {row, s[k]}
    BY <2>1
  <2>5. Unique(t) /\ Grown(s, t)
    BY <2>3, <2>4 DEF Unique, Grown
  <2>6. t[i] = row
    BY <2>1, <2>2
  <2>7. QED BY <2>2, <2>3, <2>4, <2>5, <2>6 DEF t
<1>2. CASE row.id \notin Ids(s)
  <2>1. t = Append(s, row)
    BY <1>2 DEF Upsert
  <2>2. \A i \in DOMAIN s : s[i].id # row.id
    BY <1>2 DEF Ids
  <2> HIDE DEF t
  <2>3. /\ t \in Seq(X) /\ DOMAIN s = 1..Len(s) /\ Len(s) \in Nat /\ DOMAIN t = 1..(Len(s) + 1)
        /\ t[Len(s) + 1] = row /\ \A i \in DOMAIN s : t[i] = s[i]
    BY <2>1
  <2>4. \A i \in DOMAIN t : i \in DOMAIN s \/ i = Len(s) + 1
    BY <2>3
  <2>5. Unique(t)
    BY <2>2, <2>3, <2>4 DEF Unique
  <2>6. Grown(s, t)
    BY <2>3 DEF Grown
  <2>7. Len(s) + 1 \in DOMAIN t
    BY <2>3
  <2>8. QED BY <2>3, <2>4, <2>5, <2>6, <2>7 DEF t
<1>3. QED BY <1>1, <1>2

(***************************************************************************)
(* The shapes of rows, and how tables change.                              *)
(***************************************************************************)
ResourceRow == [id : Resource, job : Job, body : Digest \cup {Nothing}]
AttemptRow == [id : Nat, job : Job, resource : Resource, done : BOOLEAN]
DiscoveryRow == [id : Nat, job : Job, resource : Resource]
Numbered(s) == \A i \in DOMAIN s : s[i].id = i

Sound ==
    /\ resources \in Seq(ResourceRow) /\ Unique(resources)
    /\ attempts \in Seq(AttemptRow) /\ Numbered(attempts)
    /\ discoveries \in Seq(DiscoveryRow) /\ Numbered(discoveries)
    /\ artifacts \in SUBSET Digest /\ IsFiniteSet(artifacts)
    /\ acquisitions \in SUBSET [resource : Resource, body : Digest]
    /\ \A a \in acquisitions : a.body \in artifacts
    /\ saving \in [Job -> Resource \cup {Nothing}]

\* Rows are added and rewritten, never removed.
Growing ==
    /\ Grown(resources, resources') /\ Grown(attempts, attempts') /\ Grown(discoveries, discoveries')
    /\ artifacts \in SUBSET artifacts' /\ acquisitions \in SUBSET acquisitions'

LEMMA GrownSame == ASSUME NEW s PROVE Grown(s, s)
BY DEF Grown

LEMMA NumberedIsUnique == ASSUME NEW s, Numbered(s) PROVE Unique(s)
BY DEF Numbered, Unique

\* A row after the last one.
LEMMA AppendIs ==
    ASSUME NEW X, NEW s \in Seq(X), NEW row \in X, Numbered(s), row.id = Len(s) + 1
    PROVE  LET t == Append(s, row)
           IN  /\ t \in Seq(X) /\ Numbered(t) /\ Grown(s, t)
               /\ \A i \in DOMAIN t : t[i] = row \/ (i \in DOMAIN s /\ t[i] = s[i])
               /\ \E i \in DOMAIN t : t[i] = row
<1> DEFINE t == Append(s, row)
<1>1. /\ t \in Seq(X) /\ DOMAIN s = 1..Len(s) /\ Len(s) \in Nat /\ DOMAIN t = 1..(Len(s) + 1)
      /\ t[Len(s) + 1] = row /\ \A i \in DOMAIN s : t[i] = s[i]
  OBVIOUS
<1> HIDE DEF t
<1>2. \A i \in DOMAIN t : i \in DOMAIN s \/ i = Len(s) + 1
  BY <1>1
<1>3. Numbered(t)
  BY <1>1, <1>2 DEF Numbered
<1>4. Grown(s, t)
  BY <1>1 DEF Grown
<1>5. Len(s) + 1 \in DOMAIN t
  BY <1>1
<1>6. QED BY <1>1, <1>2, <1>3, <1>4, <1>5 DEF t

\* What the first save of an attempt is.
LEMMA InsertIs ==
    ASSUME NEW X, NEW s \in Seq(X), NEW row \in X, Numbered(s), row.id = Len(s) + 1
    PROVE  Upsert(s, row) = Append(s, row)
<1>1. Len(s) + 1 \notin Ids(s)
  <2>1. DOMAIN s = 1..Len(s) /\ Len(s) \in Nat
    OBVIOUS
  <2>2. \A i \in DOMAIN s : s[i].id # Len(s) + 1
    BY <2>1 DEF Numbered
  <2>3. QED BY <2>2 DEF Ids
<1>2. QED BY <1>1 DEF Upsert

LEMMA BodyOfIs ==
    ASSUME Sound, NEW r
    PROVE  /\ BodyOf(r) \in Digest \cup {Nothing}
           /\ BodyOf(r) # Nothing =>
                \E a \in acquisitions : a.resource = r /\ a.body = BodyOf(r)
<1>1. CASE \E a \in acquisitions : a.resource = r
  <2> DEFINE a == CHOOSE a \in acquisitions : a.resource = r
  <2>1. a \in acquisitions /\ a.resource = r
    BY <1>1
  <2>2. BodyOf(r) = a.body
    BY <1>1 DEF BodyOf
  <2> HIDE DEF a
  <2>3. a.body \in Digest
    BY <2>1 DEF Sound
  <2>4. QED BY <2>1, <2>2, <2>3
<1>2. CASE ~ \E a \in acquisitions : a.resource = r
  BY <1>2 DEF BodyOf
<1>3. QED BY <1>1, <1>2

\* The save of a resource by the only job that has it.
LEMMA ResourceUpsert ==
    ASSUME Sound, NEW j \in Job, NEW r \in Resource, NEW b \in Digest \cup {Nothing},
           \A i \in DOMAIN resources : resources[i].id = r => resources[i].job = j
    PROVE  LET row == [id |-> r, job |-> j, body |-> b]
               t == Upsert(resources, row)
           IN  /\ t \in Seq(ResourceRow) /\ Unique(t) /\ Grown(resources, t)
               /\ \A i \in DOMAIN t : t[i] = row \/ (i \in DOMAIN resources /\ t[i] = resources[i])
               /\ \E i \in DOMAIN t : t[i] = row
<1> DEFINE row == [id |-> r, job |-> j, body |-> b]
<1>1. row \in ResourceRow /\ row.id = r /\ row.job = j
  BY DEF ResourceRow
<1> HIDE DEF row
<1>2. resources \in Seq(ResourceRow) /\ Unique(resources)
  BY DEF Sound
<1>3. \A i \in DOMAIN resources : resources[i].id = row.id => resources[i].job = row.job
  BY <1>1
<1>4. /\ Upsert(resources, row) \in Seq(ResourceRow) /\ Unique(Upsert(resources, row))
      /\ Grown(resources, Upsert(resources, row))
      /\ \A i \in DOMAIN Upsert(resources, row) :
            Upsert(resources, row)[i] = row
            \/ (i \in DOMAIN resources /\ Upsert(resources, row)[i] = resources[i])
      /\ \E i \in DOMAIN Upsert(resources, row) : Upsert(resources, row)[i] = row
  BY <1>1, <1>2, <1>3, UpsertIs
<1>5. QED BY <1>4 DEF row

\* A resource of one job is none of another's.
LEMMA OwnerIs ==
    ASSUME Sound, NEW j \in Job, NEW r
    PROVE  /\ r \notin UNION {Of(resources, k) : k \in Job \ {j}} =>
                \A i \in DOMAIN resources : resources[i].id = r => resources[i].job = j
           /\ r \in Of(resources, j) =>
                \A i \in DOMAIN resources : resources[i].id = r => resources[i].job = j
<1>1. \A i \in DOMAIN resources : resources[i].job \in Job
  <2> SUFFICES ASSUME NEW i \in DOMAIN resources PROVE resources[i].job \in Job
    OBVIOUS
  <2>1. resources[i] \in ResourceRow
    BY DEF Sound
  <2>2. QED BY <2>1 DEF ResourceRow
<1>2. ASSUME r \notin UNION {Of(resources, k) : k \in Job \ {j}}, NEW i \in DOMAIN resources,
             resources[i].id = r, resources[i].job # j
      PROVE  FALSE
  <2>1. r \in Of(resources, resources[i].job)
    BY <1>2 DEF Of, At
  <2>2. QED BY <1>1, <1>2, <2>1
<1>3. ASSUME r \in Of(resources, j), NEW i \in DOMAIN resources, resources[i].id = r
      PROVE  resources[i].job = j
  <2>1. PICK m \in DOMAIN resources : resources[m].job = j /\ resources[m].id = r
    BY <1>3 DEF Of, At
  <2>2. m = i
    BY <1>3, <2>1 DEF Sound, Unique
  <2>3. QED BY <2>1, <2>2
<1>4. QED BY <1>2, <1>3

\* The end of an attempt.
Ended(i) == [attempts[i] EXCEPT !.done = TRUE]
LEMMA EndIs ==
    ASSUME Sound, NEW i \in DOMAIN attempts
    PROVE  LET t == Upsert(attempts, Ended(i))
           IN  /\ t \in Seq(AttemptRow) /\ Numbered(t) /\ Grown(attempts, t)
               /\ \A k \in DOMAIN t : t[k] = Ended(i) \/ (k \in DOMAIN attempts /\ t[k] = attempts[k])
               /\ Ended(i).resource = attempts[i].resource /\ Ended(i).job = attempts[i].job
<1> DEFINE row == Ended(i)
           t == Upsert(attempts, row)
<1>1. attempts \in Seq(AttemptRow) /\ attempts[i] \in AttemptRow /\ Unique(attempts) /\ Numbered(attempts)
  BY NumberedIsUnique DEF Sound
<1>2. row \in AttemptRow /\ row.id = i /\ row.job = attempts[i].job /\ row.resource = attempts[i].resource
  BY <1>1 DEF AttemptRow, Ended, Numbered
<1>3. \A k \in DOMAIN attempts : attempts[k].id = row.id => attempts[k].job = row.job
  BY <1>1, <1>2 DEF Numbered
<1> HIDE DEF row
<1>4. /\ t \in Seq(AttemptRow) /\ Unique(t) /\ Grown(attempts, t)
      /\ \A k \in DOMAIN t : t[k] = row \/ (k \in DOMAIN attempts /\ t[k] = attempts[k])
  BY <1>1, <1>2, <1>3, UpsertIs
<1> HIDE DEF t
<1>5. Numbered(t)
  <2> SUFFICES ASSUME NEW k \in DOMAIN t PROVE t[k].id = k
    BY DEF Numbered
  <2>1. CASE t[k] = row
    <3>1. i \in DOMAIN t /\ t[i].id = i
      BY <1>1, <1>4 DEF Grown, Numbered
    <3>2. t[k].id = i
      BY <1>2, <2>1
    <3>3. k = i
      BY <1>4, <3>1, <3>2 DEF Unique
    <3>4. QED BY <3>2, <3>3
  <2>2. CASE k \in DOMAIN attempts /\ t[k] = attempts[k]
    BY <1>1, <2>2 DEF Numbered
  <2>3. QED BY <1>4, <2>1, <2>2
<1>6. QED BY <1>2, <1>4, <1>5 DEF row, t

LEMMA TablesSame ==
    ASSUME Sound, UNCHANGED <<resources, attempts, discoveries, artifacts, acquisitions, saving>>
    PROVE  Sound' /\ Growing
<1>1. Sound'
  BY DEF Sound, Unique, Numbered
<1>2. Growing
  BY GrownSame DEF Growing
<1>3. QED BY <1>1, <1>2

LEMMA SaveResourceSound ==
    ASSUME Sound, NEW j \in Job, NEW r \in Resource, SaveResource(j, r)
    PROVE  Sound' /\ Growing
<1> DEFINE t == Upsert(resources, [id |-> r, job |-> j, body |-> BodyOf(r)])
<1>1. resources' = t /\ saving' = [saving EXCEPT ![j] = r] /\ UNCHANGED <<attempts, discoveries, artifacts, acquisitions>>
  BY DEF SaveResource
<1>2. \A i \in DOMAIN resources : resources[i].id = r => resources[i].job = j
  BY OwnerIs DEF SaveResource
<1>3. t \in Seq(ResourceRow) /\ Unique(t) /\ Grown(resources, t)
  BY <1>2, BodyOfIs, ResourceUpsert
<1> HIDE DEF t
<1>4. saving' \in [Job -> Resource \cup {Nothing}]
  BY <1>1 DEF Sound
<1>5. Sound'
  BY <1>1, <1>3, <1>4 DEF Sound, Unique, Numbered
<1>6. Growing
  BY <1>1, <1>3, GrownSame DEF Growing
<1>7. QED BY <1>5, <1>6

LEMMA SaveDiscoverySound ==
    ASSUME Sound, NEW j \in Job, SaveDiscovery(j)
    PROVE  Sound' /\ Growing
<1> DEFINE row == [id |-> Len(discoveries) + 1, job |-> j, resource |-> saving[j]]
           t == Append(discoveries, row)
<1>1. /\ discoveries' = t /\ saving' = [saving EXCEPT ![j] = Nothing]
      /\ UNCHANGED <<resources, attempts, artifacts, acquisitions>>
  BY DEF SaveDiscovery
<1>2. saving[j] \in Resource
  BY DEF SaveDiscovery, Sound
<1>3. discoveries \in Seq(DiscoveryRow) /\ Numbered(discoveries) /\ Len(discoveries) \in Nat
  BY DEF Sound
<1>4. row \in DiscoveryRow /\ row.id = Len(discoveries) + 1
  BY <1>2, <1>3 DEF DiscoveryRow
<1> HIDE DEF row
<1>5. t \in Seq(DiscoveryRow) /\ Numbered(t) /\ Grown(discoveries, t)
  BY <1>3, <1>4, AppendIs
<1> HIDE DEF t
<1>6. saving' \in [Job -> Resource \cup {Nothing}]
  BY <1>1 DEF Sound
<1>7. Sound'
  BY <1>1, <1>5, <1>6 DEF Sound, Unique, Numbered
<1>8. Growing
  BY <1>1, <1>5, GrownSame DEF Growing
<1>9. QED BY <1>7, <1>8

LEMMA StartAttemptSound ==
    ASSUME Sound, NEW j \in Job, NEW r \in Resource, StartAttempt(j, r)
    PROVE  Sound' /\ Growing
<1> DEFINE row == [id |-> Len(attempts) + 1, job |-> j, resource |-> r, done |-> FALSE]
           t == Append(attempts, row)
<1>1. /\ attempts' = Upsert(attempts, row)
      /\ UNCHANGED <<resources, discoveries, artifacts, acquisitions, saving>>
  BY DEF StartAttempt
<1>2. attempts \in Seq(AttemptRow) /\ Numbered(attempts) /\ Len(attempts) \in Nat
  BY DEF Sound
<1>3. row \in AttemptRow /\ row.id = Len(attempts) + 1
  BY <1>2 DEF AttemptRow
<1> HIDE DEF row
<1>4. attempts' = t
  BY <1>1, <1>2, <1>3, InsertIs
<1>5. t \in Seq(AttemptRow) /\ Numbered(t) /\ Grown(attempts, t)
  BY <1>2, <1>3, AppendIs
<1> HIDE DEF t
<1>6. Sound'
  BY <1>1, <1>4, <1>5 DEF Sound, Unique, Numbered
<1>7. Growing
  BY <1>1, <1>4, <1>5, GrownSame DEF Growing
<1>8. QED BY <1>6, <1>7

LEMMA EndAttemptSound ==
    ASSUME Sound, NEW j \in Job, NEW i \in DOMAIN attempts, EndAttempt(j, i)
    PROVE  Sound' /\ Growing
<1> DEFINE t == Upsert(attempts, Ended(i))
<1>1. attempts' = t /\ UNCHANGED <<resources, discoveries, artifacts, acquisitions, saving>>
  BY DEF EndAttempt, Ended
<1>2. t \in Seq(AttemptRow) /\ Numbered(t) /\ Grown(attempts, t)
  BY EndIs
<1> HIDE DEF t
<1>3. Sound'
  BY <1>1, <1>2 DEF Sound, Unique, Numbered
<1>4. Growing
  BY <1>1, <1>2, GrownSame DEF Growing
<1>5. QED BY <1>3, <1>4

LEMMA PublishSound ==
    ASSUME Sound, NEW j \in Job, NEW r \in Resource, NEW b \in Digest, PublishArtifact(j, r, b)
    PROVE  Sound' /\ Growing
<1> DEFINE t == Upsert(resources, [id |-> r, job |-> j, body |-> b])
<1>1. /\ resources' = t /\ artifacts' = artifacts \cup {b}
      /\ acquisitions' = acquisitions \cup {[resource |-> r, body |-> b]}
      /\ UNCHANGED <<attempts, discoveries, saving>>
  BY DEF PublishArtifact, Cited
<1>2. \A i \in DOMAIN resources : resources[i].id = r => resources[i].job = j
  BY OwnerIs DEF PublishArtifact
<1>3. t \in Seq(ResourceRow) /\ Unique(t) /\ Grown(resources, t)
  BY <1>2, ResourceUpsert
<1> HIDE DEF t
<1>4. artifacts' \in SUBSET Digest /\ IsFiniteSet(artifacts')
  BY <1>1, FS_AddElement DEF Sound
<1>5. /\ acquisitions' \in SUBSET [resource : Resource, body : Digest]
      /\ \A a \in acquisitions' : a.body \in artifacts'
  BY <1>1 DEF Sound
<1>6. Sound'
  BY <1>1, <1>3, <1>4, <1>5 DEF Sound, Unique, Numbered
<1>7. Growing
  BY <1>1, <1>3, GrownSame DEF Growing
<1>8. QED BY <1>6, <1>7

LEMMA StepSound ==
    ASSUME Sound, [ListNext]_listVars
    PROVE  Sound' /\ Growing
<1>1. CASE \E j \in Job : SaveDiscovery(j)
  BY <1>1, SaveDiscoverySound
<1>2. CASE \E j \in Job, r \in Resource : SaveResource(j, r)
  BY <1>2, SaveResourceSound
<1>3. CASE \E j \in Job, r \in Resource : StartAttempt(j, r)
  BY <1>3, StartAttemptSound
<1>4. CASE \E j \in Job, i \in DOMAIN attempts : EndAttempt(j, i)
  BY <1>4, EndAttemptSound
<1>5. CASE \E j \in Job, r \in Resource, b \in Digest : PublishArtifact(j, r, b)
  BY <1>5, PublishSound
<1>6. CASE \E kind \in Kinds, j \in Job : BeginReading(kind, j)
  BY <1>6, TablesSame DEF BeginReading, db
<1>7. CASE Ask
  BY <1>7, TablesSame DEF Ask, db
<1>8. CASE Forget
  BY <1>8, TablesSame DEF Forget, db
<1>9. CASE UNCHANGED listVars
  BY <1>9, TablesSame DEF listVars
<1>10. QED BY <1>1, <1>2, <1>3, <1>4, <1>5, <1>6, <1>7, <1>8, <1>9 DEF ListNext

(***************************************************************************)
(* What rows name.                                                         *)
(***************************************************************************)
HeldBy(j, res, arts, acqs) ==
    {a.body : a \in {a \in acqs : a.resource \in Of(res, j)}} \cap arts
Backed(row, res, arts, acqs) == row.body # Nothing => row.body \in HeldBy(row.job, res, arts, acqs)
Told(row, found, going) ==
    (\E i \in DOMAIN found : found[i].resource = row.id) \/ going[row.job] = row.id
Linked ==
    /\ \A i \in DOMAIN attempts : attempts[i].resource \in Of(resources, attempts[i].job)
    /\ \A i \in DOMAIN discoveries : discoveries[i].resource \in Of(resources, discoveries[i].job)
    /\ \A j \in Job : saving[j] # Nothing => saving[j] \in Of(resources, j)
    /\ \A i \in DOMAIN resources : /\ Backed(resources[i], resources, artifacts, acquisitions)
                                    /\ Told(resources[i], discoveries, saving)

LEMMA AcquiredIs ==
    ASSUME NEW j PROVE Acquired(j) = HeldBy(j, resources, artifacts, acquisitions)
BY DEF Acquired, HeldBy

LEMMA OfGrows ==
    ASSUME NEW s, NEW t, Grown(s, t), NEW j
    PROVE  Of(s, j) \in SUBSET Of(t, j)
<1> SUFFICES ASSUME NEW i \in DOMAIN s, s[i].job = j PROVE s[i].id \in Of(t, j)
  BY DEF Of, At
<1>1. i \in DOMAIN t /\ t[i].id = s[i].id /\ t[i].job = j
  BY DEF Grown
<1>2. QED BY <1>1 DEF Of, At

LEMMA AcquiredGrows ==
    ASSUME Growing, NEW j
    PROVE  HeldBy(j, resources, artifacts, acquisitions)
             \in SUBSET HeldBy(j, resources', artifacts', acquisitions')
<1>1. Of(resources, j) \in SUBSET Of(resources', j)
  BY OfGrows DEF Growing
<1>2. artifacts \in SUBSET artifacts' /\ acquisitions \in SUBSET acquisitions'
  BY DEF Growing
<1>3. QED BY <1>1, <1>2 DEF HeldBy

LEMMA BackedStays ==
    ASSUME Growing, NEW row, Backed(row, resources, artifacts, acquisitions)
    PROVE  Backed(row, resources', artifacts', acquisitions')
BY AcquiredGrows DEF Backed

\* Where nothing is added to a table its rows keep naming what is there.
LEMMA AttemptsLinked ==
    ASSUME Linked, Growing, attempts' = attempts
    PROVE  \A i \in DOMAIN attempts' : attempts'[i].resource \in Of(resources', attempts'[i].job)
BY OfGrows DEF Growing, Linked

LEMMA DiscoveriesLinked ==
    ASSUME Linked, Growing, discoveries' = discoveries
    PROVE  \A i \in DOMAIN discoveries' : discoveries'[i].resource \in Of(resources', discoveries'[i].job)
BY OfGrows DEF Growing, Linked

LEMMA SavingLinked ==
    ASSUME Linked, Growing, saving' = saving
    PROVE  \A j \in Job : saving'[j] # Nothing => saving'[j] \in Of(resources', j)
BY OfGrows DEF Growing, Linked

LEMMA RowOf ==
    ASSUME NEW s, NEW i \in DOMAIN s
    PROVE  s[i].id \in Of(s, s[i].job)
BY DEF Of, At

LEMMA ResourceIs ==
    ASSUME Sound, NEW i \in DOMAIN resources
    PROVE  /\ resources[i].id \in Resource /\ resources[i].job \in Job
           /\ resources[i].body \in Digest \cup {Nothing}
<1>1. resources[i] \in ResourceRow
  BY DEF Sound
<1>2. QED BY <1>1 DEF ResourceRow

LEMMA SaveResourceLinked ==
    ASSUME Sound, Linked, Sound', Growing, NEW j \in Job, NEW r \in Resource, SaveResource(j, r)
    PROVE  Linked'
<1> DEFINE row == [id |-> r, job |-> j, body |-> BodyOf(r)]
           t == Upsert(resources, row)
<1>1. /\ resources' = t /\ saving' = [saving EXCEPT ![j] = r] /\ saving[j] = Nothing
      /\ UNCHANGED <<attempts, discoveries, artifacts, acquisitions>>
  BY DEF SaveResource, Writes
<1>2. \A i \in DOMAIN resources : resources[i].id = r => resources[i].job = j
  BY OwnerIs DEF SaveResource
<1>3. /\ \A i \in DOMAIN t : t[i] = row \/ (i \in DOMAIN resources /\ t[i] = resources[i])
      /\ \E i \in DOMAIN t : t[i] = row
  BY <1>2, BodyOfIs, ResourceUpsert
<1>4. row.id = r /\ row.job = j /\ row.body = BodyOf(r)
  OBVIOUS
<1> HIDE DEF row, t
<1>5. r \in Of(resources', j)
  BY <1>1, <1>3, <1>4, RowOf
<1>6. \A k \in Job : saving'[k] = IF k = j THEN r ELSE saving[k]
  BY <1>1 DEF Sound
<1>7. \A k \in Job : saving'[k] # Nothing => saving'[k] \in Of(resources', k)
  BY <1>5, <1>6, OfGrows DEF Linked, Growing
<1>8. Backed(row, resources', artifacts', acquisitions') /\ Told(row, discoveries', saving')
  <2>1. saving'[j] = r
    BY <1>6
  <2>2. ASSUME row.body # Nothing PROVE row.body \in HeldBy(j, resources', artifacts', acquisitions')
    <3>1. PICK a \in acquisitions : a.resource = r /\ a.body = BodyOf(r)
      BY <1>4, <2>2, BodyOfIs
    <3>2. a.body \in artifacts
      BY DEF Sound
    <3>3. a \in acquisitions' /\ a.body \in artifacts' /\ a.resource \in Of(resources', j)
      BY <1>1, <1>5, <3>1, <3>2
    <3>4. QED BY <1>4, <3>1, <3>3 DEF HeldBy
  <2>3. QED BY <1>4, <2>1, <2>2 DEF Backed, Told
<1>9. ASSUME NEW i \in DOMAIN resources
      PROVE  /\ Backed(resources[i], resources', artifacts', acquisitions')
             /\ Told(resources[i], discoveries', saving')
  <2>1. Backed(resources[i], resources, artifacts, acquisitions) /\ Told(resources[i], discoveries, saving)
    BY DEF Linked
  <2>2. resources[i].id \in Resource /\ resources[i].job \in Job /\ Nothing \notin Resource
    BY ResourceIs, ListingsAssumption
  <2>3. Backed(resources[i], resources', artifacts', acquisitions')
    BY <2>1, BackedStays
  <2>4. Told(resources[i], discoveries', saving')
    BY <1>1, <1>6, <2>1, <2>2 DEF Told
  <2>5. QED BY <2>3, <2>4
<1>10. \A i \in DOMAIN resources' : /\ Backed(resources'[i], resources', artifacts', acquisitions')
                                    /\ Told(resources'[i], discoveries', saving')
  BY <1>1, <1>3, <1>8, <1>9
<1>11. QED BY <1>1, <1>7, <1>10, AttemptsLinked, DiscoveriesLinked DEF Linked

LEMMA ResourcesLinked ==
    ASSUME Linked, Growing, resources' = resources,
           \A i \in DOMAIN resources : Told(resources[i], discoveries, saving)
                                         => Told(resources[i], discoveries', saving')
    PROVE  \A i \in DOMAIN resources' : /\ Backed(resources'[i], resources', artifacts', acquisitions')
                                        /\ Told(resources'[i], discoveries', saving')
<1>1. ASSUME NEW i \in DOMAIN resources
      PROVE  /\ Backed(resources[i], resources', artifacts', acquisitions')
             /\ Told(resources[i], discoveries', saving')
  <2>1. Backed(resources[i], resources, artifacts, acquisitions) /\ Told(resources[i], discoveries, saving)
    BY DEF Linked
  <2>2. QED BY <2>1, BackedStays
<1>2. QED BY <1>1

LEMMA SaveDiscoveryLinked ==
    ASSUME Sound, Linked, Sound', Growing, NEW j \in Job, SaveDiscovery(j)
    PROVE  Linked'
<1> DEFINE row == [id |-> Len(discoveries) + 1, job |-> j, resource |-> saving[j]]
           t == Append(discoveries, row)
<1>1. /\ discoveries' = t /\ saving' = [saving EXCEPT ![j] = Nothing] /\ saving[j] # Nothing
      /\ UNCHANGED <<resources, attempts, artifacts, acquisitions>>
  BY DEF SaveDiscovery
<1>2. saving[j] \in Resource
  BY <1>1 DEF Sound
<1>3. discoveries \in Seq(DiscoveryRow) /\ Numbered(discoveries) /\ Len(discoveries) \in Nat
  BY DEF Sound
<1>4. row \in DiscoveryRow /\ row.id = Len(discoveries) + 1 /\ row.job = j /\ row.resource = saving[j]
  BY <1>2, <1>3 DEF DiscoveryRow
<1> HIDE DEF row
<1>5. /\ Grown(discoveries, t) /\ \E i \in DOMAIN t : t[i] = row
      /\ \A i \in DOMAIN t : t[i] = row \/ (i \in DOMAIN discoveries /\ t[i] = discoveries[i])
      /\ \A i \in DOMAIN discoveries : i \in DOMAIN t /\ t[i] = discoveries[i]
  <2>1. /\ Grown(discoveries, t) /\ \E i \in DOMAIN t : t[i] = row
        /\ \A i \in DOMAIN t : t[i] = row \/ (i \in DOMAIN discoveries /\ t[i] = discoveries[i])
    BY <1>3, <1>4, AppendIs
  <2>2. \A i \in DOMAIN discoveries : i \in DOMAIN t /\ t[i] = discoveries[i]
    BY <1>3
  <2>3. QED BY <2>1, <2>2
<1> HIDE DEF t
<1>6. \A k \in Job : saving'[k] = IF k = j THEN Nothing ELSE saving[k]
  BY <1>1 DEF Sound
<1>7. \A k \in Job : saving'[k] # Nothing => saving'[k] \in Of(resources', k)
  BY <1>1, <1>6 DEF Linked
<1>8. \A i \in DOMAIN discoveries' : discoveries'[i].resource \in Of(resources', discoveries'[i].job)
  <2>1. \A i \in DOMAIN discoveries : discoveries[i].resource \in Of(resources, discoveries[i].job)
    BY DEF Linked
  <2>2. row.resource \in Of(resources, row.job)
    BY <1>1, <1>4 DEF Linked
  <2>3. QED BY <1>1, <1>5, <2>1, <2>2
<1>9. ASSUME NEW i \in DOMAIN resources, Told(resources[i], discoveries, saving)
      PROVE  Told(resources[i], discoveries', saving')
  <2>1. resources[i].job \in Job
    BY ResourceIs
  <2>2. CASE \E k \in DOMAIN discoveries : discoveries[k].resource = resources[i].id
    BY <1>1, <1>5, <2>2 DEF Told
  <2>3. CASE saving[resources[i].job] = resources[i].id /\ resources[i].job = j
    BY <1>1, <1>4, <1>5, <2>3 DEF Told
  <2>4. CASE saving[resources[i].job] = resources[i].id /\ resources[i].job # j
    BY <1>6, <2>1, <2>4 DEF Told
  <2>5. QED BY <1>9, <2>2, <2>3, <2>4 DEF Told
<1>10. \A i \in DOMAIN resources' : /\ Backed(resources'[i], resources', artifacts', acquisitions')
                                    /\ Told(resources'[i], discoveries', saving')
  BY <1>1, <1>9, ResourcesLinked
<1>11. QED BY <1>1, <1>7, <1>8, <1>10, AttemptsLinked DEF Linked

LEMMA ToldSame ==
    ASSUME Linked, Growing, UNCHANGED <<resources, discoveries, saving>>
    PROVE  \A i \in DOMAIN resources' : /\ Backed(resources'[i], resources', artifacts', acquisitions')
                                        /\ Told(resources'[i], discoveries', saving')
BY ResourcesLinked

LEMMA StartAttemptLinked ==
    ASSUME Sound, Linked, Sound', Growing, NEW j \in Job, NEW r \in Resource, StartAttempt(j, r)
    PROVE  Linked'
<1> DEFINE row == [id |-> Len(attempts) + 1, job |-> j, resource |-> r, done |-> FALSE]
           t == Append(attempts, row)
<1>1. /\ attempts' = Upsert(attempts, row) /\ r \in Of(resources, j)
      /\ UNCHANGED <<resources, discoveries, artifacts, acquisitions, saving>>
  BY DEF StartAttempt
<1>2. attempts \in Seq(AttemptRow) /\ Numbered(attempts) /\ Len(attempts) \in Nat
  BY DEF Sound
<1>3. row \in AttemptRow /\ row.id = Len(attempts) + 1 /\ row.job = j /\ row.resource = r
  BY <1>2 DEF AttemptRow
<1> HIDE DEF row
<1>4. attempts' = t
  BY <1>1, <1>2, <1>3, InsertIs
<1>5. \A i \in DOMAIN t : t[i] = row \/ (i \in DOMAIN attempts /\ t[i] = attempts[i])
  BY <1>2, <1>3, AppendIs
<1> HIDE DEF t
<1>6. \A i \in DOMAIN attempts' : attempts'[i].resource \in Of(resources', attempts'[i].job)
  <2>1. \A i \in DOMAIN attempts : attempts[i].resource \in Of(resources, attempts[i].job)
    BY DEF Linked
  <2>2. QED BY <1>1, <1>3, <1>4, <1>5, <2>1
<1>7. QED BY <1>1, <1>6, DiscoveriesLinked, SavingLinked, ToldSame DEF Linked

LEMMA EndAttemptLinked ==
    ASSUME Sound, Linked, Sound', Growing, NEW j \in Job, NEW i \in DOMAIN attempts, EndAttempt(j, i)
    PROVE  Linked'
<1> DEFINE t == Upsert(attempts, Ended(i))
<1>1. attempts' = t /\ UNCHANGED <<resources, discoveries, artifacts, acquisitions, saving>>
  BY DEF EndAttempt, Ended
<1>2. /\ \A k \in DOMAIN t : t[k] = Ended(i) \/ (k \in DOMAIN attempts /\ t[k] = attempts[k])
      /\ Ended(i).resource = attempts[i].resource /\ Ended(i).job = attempts[i].job
  BY EndIs
<1> HIDE DEF t
<1>3. \A k \in DOMAIN attempts' : attempts'[k].resource \in Of(resources', attempts'[k].job)
  <2>1. \A k \in DOMAIN attempts : attempts[k].resource \in Of(resources, attempts[k].job)
    BY DEF Linked
  <2>2. QED BY <1>1, <1>2, <2>1
<1>4. QED BY <1>1, <1>3, DiscoveriesLinked, SavingLinked, ToldSame DEF Linked

LEMMA PublishLinked ==
    ASSUME Sound, Linked, Sound', Growing,
           NEW j \in Job, NEW r \in Resource, NEW b \in Digest, PublishArtifact(j, r, b)
    PROVE  Linked'
<1> DEFINE row == [id |-> r, job |-> j, body |-> b]
           t == Upsert(resources, row)
           cite == [resource |-> r, body |-> b]
<1>1. /\ resources' = t /\ artifacts' = artifacts \cup {b} /\ acquisitions' = acquisitions \cup {cite}
      /\ UNCHANGED <<attempts, discoveries, saving>> /\ r \in Of(resources, j)
  BY DEF PublishArtifact, Cited
<1>2. \A i \in DOMAIN resources : resources[i].id = r => resources[i].job = j
  BY OwnerIs DEF PublishArtifact
<1>3. \A i \in DOMAIN t : t[i] = row \/ (i \in DOMAIN resources /\ t[i] = resources[i])
  BY <1>2, ResourceUpsert
<1>4. row.id = r /\ row.job = j /\ row.body = b /\ cite.resource = r /\ cite.body = b
  OBVIOUS
<1> HIDE DEF row, t, cite
<1>5. Backed(row, resources', artifacts', acquisitions')
  <2>1. r \in Of(resources', j)
    BY <1>1, OfGrows DEF Growing
  <2>2. cite \in acquisitions' /\ cite.body \in artifacts'
    BY <1>1, <1>4
  <2>3. QED BY <1>4, <2>1, <2>2 DEF Backed, HeldBy
<1>6. Told(row, discoveries', saving')
  <2>1. PICK i \in DOMAIN resources : resources[i].job = j /\ resources[i].id = r
    BY <1>1 DEF Of, At
  <2>2. Told(resources[i], discoveries, saving)
    BY DEF Linked
  <2>3. QED BY <1>1, <1>4, <2>1, <2>2 DEF Told
<1>7. ASSUME NEW i \in DOMAIN resources
      PROVE  /\ Backed(resources[i], resources', artifacts', acquisitions')
             /\ Told(resources[i], discoveries', saving')
  <2>1. Backed(resources[i], resources, artifacts, acquisitions) /\ Told(resources[i], discoveries, saving)
    BY DEF Linked
  <2>2. QED BY <1>1, <2>1, BackedStays
<1>8. \A i \in DOMAIN resources' : /\ Backed(resources'[i], resources', artifacts', acquisitions')
                                   /\ Told(resources'[i], discoveries', saving')
  BY <1>1, <1>3, <1>5, <1>6, <1>7
<1>9. QED BY <1>1, <1>8, AttemptsLinked, DiscoveriesLinked, SavingLinked DEF Linked

LEMMA LinkedSame ==
    ASSUME Linked, UNCHANGED <<resources, attempts, discoveries, artifacts, acquisitions, saving>>
    PROVE  Linked'
BY DEF Linked

LEMMA StepLinked ==
    ASSUME Sound, Linked, [ListNext]_listVars
    PROVE  Linked'
<1> USE StepSound
<1>1. CASE \E j \in Job : SaveDiscovery(j)
  BY <1>1, SaveDiscoveryLinked
<1>2. CASE \E j \in Job, r \in Resource : SaveResource(j, r)
  BY <1>2, SaveResourceLinked
<1>3. CASE \E j \in Job, r \in Resource : StartAttempt(j, r)
  BY <1>3, StartAttemptLinked
<1>4. CASE \E j \in Job, i \in DOMAIN attempts : EndAttempt(j, i)
  BY <1>4, EndAttemptLinked
<1>5. CASE \E j \in Job, r \in Resource, b \in Digest : PublishArtifact(j, r, b)
  BY <1>5, PublishLinked
<1>6. CASE \E kind \in Kinds, j \in Job : BeginReading(kind, j)
  BY <1>6, LinkedSame DEF BeginReading, db
<1>7. CASE Ask
  BY <1>7, LinkedSame DEF Ask, db
<1>8. CASE Forget
  BY <1>8, LinkedSame DEF Forget, db
<1>9. CASE UNCHANGED listVars
  BY <1>9, LinkedSame DEF listVars
<1>10. QED BY <1>1, <1>2, <1>3, <1>4, <1>5, <1>6, <1>7, <1>8, <1>9 DEF ListNext

(***************************************************************************)
(* The client's reading.                                                   *)
(***************************************************************************)
Join(s, t) == s \o t
LEMMA JoinIs ==
    ASSUME NEW s, NEW t, IsList(s), IsList(t)
    PROVE  /\ IsList(Join(s, t)) /\ Len(s) \in Nat /\ Len(t) \in Nat /\ Len(Join(s, t)) = Len(s) + Len(t)
           /\ DOMAIN s = 1..Len(s) /\ DOMAIN t = 1..Len(t) /\ DOMAIN Join(s, t) = 1..(Len(s) + Len(t))
           /\ \A k \in DOMAIN s : Join(s, t)[k] = s[k]
           /\ \A k \in DOMAIN t : Join(s, t)[Len(s) + k] = t[k]
           /\ \A k \in DOMAIN Join(s, t) : k \in DOMAIN s \/ \E m \in DOMAIN t : k = Len(s) + m
<1>1. PICK X : s \in Seq(X)
  BY DEF IsList
<1>2. PICK Y : t \in Seq(Y)
  BY DEF IsList
<1>3. s \in Seq(X \cup Y) /\ t \in Seq(X \cup Y)
  <2>1. Len(s) \in Nat /\ Len(t) \in Nat /\ s \in [1..Len(s) -> X] /\ t \in [1..Len(t) -> Y]
    BY <1>1, <1>2
  <2>2. s \in [1..Len(s) -> X \cup Y] /\ t \in [1..Len(t) -> X \cup Y]
    BY <2>1
  <2>3. QED BY <2>1, <2>2, SeqDef
<1>4. s \o t \in Seq(X \cup Y) /\ Len(s \o t) = Len(s) + Len(t)
  BY <1>3, ConcatProperties
<1>5. Len(s) \in Nat /\ Len(t) \in Nat /\ DOMAIN s = 1..Len(s) /\ DOMAIN t = 1..Len(t)
      /\ DOMAIN (s \o t) = 1..(Len(s) + Len(t))
  BY <1>3, <1>4
<1>6. \A k \in 1..(Len(s) + Len(t)) : (s \o t)[k] = IF k <= Len(s) THEN s[k] ELSE t[k - Len(s)]
  BY <1>3, <1>4, ConcatProperties
<1>7. \A k \in DOMAIN s : (s \o t)[k] = s[k]
  BY <1>5, <1>6
<1>8. ASSUME NEW k \in DOMAIN t PROVE (s \o t)[Len(s) + k] = t[k]
  <2>1. Len(s) + k \in 1..(Len(s) + Len(t)) /\ ~ (Len(s) + k <= Len(s)) /\ (Len(s) + k) - Len(s) = k
    BY <1>5
  <2>2. QED BY <1>6, <2>1
<1>9. ASSUME NEW k \in DOMAIN (s \o t), k \notin DOMAIN s PROVE \E m \in DOMAIN t : k = Len(s) + m
  <2>1. k - Len(s) \in DOMAIN t /\ k = Len(s) + (k - Len(s))
    BY <1>5, <1>9
  <2>2. QED BY <2>1
<1>10. QED BY <1>4, <1>5, <1>7, <1>8, <1>9 DEF IsList, Join

LEMMA LesserIs ==
    ASSUME NEW a \in Int, NEW b \in Int
    PROVE  Min({a, b}) = IF a <= b THEN a ELSE b
<1> DEFINE m == IF a <= b THEN a ELSE b
<1>1. m \in {a, b} /\ \A y \in {a, b} : m <= y
  OBVIOUS
<1>2. \A x \in {a, b} : (\A y \in {a, b} : x <= y) => x = m
  OBVIOUS
<1> HIDE DEF m
<1>3. (CHOOSE x \in {a, b} : \A y \in {a, b} : x <= y) = m
  BY <1>1, <1>2
<1>4. QED BY <1>3 DEF Min, m

\* LIMIT ? OFFSET ?
LEMMA PageIs ==
    ASSUME NEW s, IsList(s), NEW offset \in 0..Len(s)
    PROVE  LET page == PageAt(s, offset)
           IN  /\ IsList(page) /\ Len(page) \in Nat /\ DOMAIN page = 1..Len(page)
               /\ offset + Len(page) <= Len(s)
               /\ \A k \in DOMAIN page : offset + k \in DOMAIN s /\ page[k] = s[offset + k]
               /\ Len(page) < Limit => offset + Len(page) = Len(s)
<1> DEFINE page == PageAt(s, offset)
           size == Len(s)
           edge == Min({offset + Limit, size})
           many == edge - offset
<1>1. PICK X : s \in Seq(X)
  BY DEF IsList
<1>2. size \in Nat /\ DOMAIN s = 1..size
  BY <1>1
<1>3. Limit \in Nat /\ Limit # 0
  BY ListingsAssumption
<1>4. offset \in Nat /\ offset <= size
  BY <1>2
<1>5. page = SubSeq(s, offset + 1, edge)
  BY DEF PageAt
<1> HIDE DEF page, size
<1>6. edge = IF offset + Limit <= size THEN offset + Limit ELSE size
  BY <1>2, <1>3, <1>4, LesserIs
<1> HIDE DEF edge
<1>7. edge \in Nat /\ offset <= edge /\ edge <= size
  BY <1>2, <1>3, <1>4, <1>6
<1>8. many \in Nat /\ offset + many = edge
  BY <1>4, <1>7
<1>9. many < Limit => edge = size
  BY <1>2, <1>3, <1>4, <1>6
<1>10. \A k \in 1..many : offset + k \in 1..size
  BY <1>2, <1>4, <1>7
<1>11. Len(page) = many /\ DOMAIN page = 1..many
  BY <1>1, <1>2, <1>4, <1>5, <1>7, SubSeqProperties
<1>12. \A k \in 1..many : page[k] = s[offset + k]
  BY <1>1, <1>2, <1>4, <1>5, <1>7, SubSeqProperties
<1> HIDE DEF many
<1>13. page \in Seq(X)
  BY <1>1, <1>2, <1>10, <1>11, <1>12, <1>4, <1>5, <1>7, SubSeqProperties
<1>14. QED BY <1>2, <1>7, <1>8, <1>9, <1>10, <1>11, <1>12, <1>13 DEF IsList, page, size

\* A reading: of which listing, what it has got, what was there when it began.
Shape(p) ==
    /\ p = [at |-> p.at, kind |-> p.kind, job |-> p.job, got |-> p.got, before |-> p.before]
    /\ p.at \in {"reading", "read"} /\ p.kind \in {"resources", "attempts", "discoveries", "artifacts"}
    /\ p.job \in Job /\ IsList(p.got)

\* A reading of a table stands where the table begins.
TablePass(p, all) ==
    /\ \A k \in DOMAIN p.got : k \in DOMAIN all /\ p.got[k].id = all[k].id
    /\ p.before \in SUBSET Ids(all)
    /\ p.at = "read" => p.before \in SUBSET Ids(p.got)

\* A reading of artifacts may be overtaken from below, by artifacts that are new.
ArtifactPass(p, held) ==
    /\ p.before \in SUBSET held
    /\ \A k \in DOMAIN p.got :
          /\ p.got[k].id \in held /\ Height(held, p.got[k].id) >= k - 1
          /\ Height(held, p.got[k].id) > k - 1 => \E b \in held \ p.before : b < p.got[k].id
    /\ \A b \in p.before : b \in Ids(p.got) \/ Height(held, b) >= Len(p.got)
    /\ p.at = "read" => p.before \in SUBSET Ids(p.got)

ReadSoFar(p, table, held) ==
    /\ p.kind # "artifacts" => TablePass(p, RowsOf(table, p.job))
    /\ p.kind = "artifacts" => ArtifactPass(p, held)
    /\ p.kind = "resources" => \A k \in DOMAIN p.got : p.got[k].body # Nothing => p.got[k].body \in held

Held(j) == HeldBy(j, resources, artifacts, acquisitions)
TableOf(kind, res, att, dis) == IF kind = "resources" THEN res ELSE IF kind = "attempts" THEN att ELSE dis
Table(kind) == TableOf(kind, resources, attempts, discoveries)
PassOK == pass = [at |-> "idle"] \/ (Shape(pass) /\ ReadSoFar(pass, Table(pass.kind), Held(pass.job)))

LEMMA HeldNumbers ==
    ASSUME Sound, NEW j
    PROVE  Numbers(Held(j)) /\ Held(j) \in SUBSET Digest
<1>1. Held(j) \in SUBSET artifacts /\ IsFiniteSet(artifacts) /\ artifacts \in SUBSET Digest /\ Digest \in SUBSET Nat
  BY ListingsAssumption DEF Held, HeldBy, Sound
<1>2. IsFiniteSet(Held(j))
  BY <1>1, FS_Subset
<1>3. Held(j) \in SUBSET Digest /\ Held(j) \in SUBSET Int
  <2>1. Nat \in SUBSET Int
    OBVIOUS
  <2>2. QED BY <1>1, <2>1
<1>4. QED BY <1>2, <1>3 DEF Numbers

LEMMA TablesAreLists ==
    ASSUME Sound, NEW kind
    PROVE  IsList(Table(kind)) /\ Unique(Table(kind))
<1>1. IsList(resources) /\ IsList(attempts) /\ IsList(discoveries)
  BY DEF Sound, IsList
<1>2. Unique(resources) /\ Unique(attempts) /\ Unique(discoveries)
  BY NumberedIsUnique DEF Sound
<1>3. Table(kind) \in {resources, attempts, discoveries}
  BY DEF Table, TableOf
<1>4. QED BY <1>1, <1>2, <1>3

LEMMA TablesGrow ==
    ASSUME Growing, NEW kind
    PROVE  Grown(Table(kind), TableOf(kind, resources', attempts', discoveries'))
<1>1. CASE kind = "resources"
  BY <1>1 DEF Table, TableOf, Growing
<1>2. CASE kind = "attempts"
  BY <1>2 DEF Table, TableOf, Growing
<1>3. CASE kind \notin {"resources", "attempts"}
  BY <1>3 DEF Table, TableOf, Growing
<1>4. QED BY <1>1, <1>2, <1>3

\* Among more numbers a number comes no earlier, and later only behind a new one.
LEMMA HeightWidens ==
    ASSUME NEW S, NEW T, Numbers(S), Numbers(T), S \in SUBSET T, NEW e \in S
    PROVE  /\ Height(S, e) <= Height(T, e)
           /\ Height(S, e) < Height(T, e) => \E b \in T \ S : b < e
           /\ Height(S, e) \in Nat /\ Height(T, e) \in Nat
<1> DEFINE A == Below(S, e)
           B == Below(T, e)
<1>1. A \in SUBSET B /\ B \in SUBSET T /\ IsFiniteSet(T)
  BY DEF Below, Numbers
<1>2. (\E b \in T \ S : b < e) \/ A = B
  BY DEF Below
<1> HIDE DEF A, B
<1>3. IsFiniteSet(B)
  BY <1>1, FS_Subset
<1>4. IsFiniteSet(A) /\ Cardinality(A) <= Cardinality(B)
  BY <1>1, <1>3, FS_Subset
<1>5. Cardinality(A) \in Nat /\ Cardinality(B) \in Nat
  BY <1>3, <1>4, FS_CardinalityType
<1>6. Height(S, e) = Cardinality(A) /\ Height(T, e) = Cardinality(B)
  BY DEF Height, A, B
<1>7. ASSUME Height(S, e) < Height(T, e) PROVE \E b \in T \ S : b < e
  <2>1. Cardinality(A) # Cardinality(B)
    BY <1>5, <1>6, <1>7
  <2>2. A # B
    BY <2>1
  <2>3. QED BY <1>2, <2>2
<1>8. QED BY <1>4, <1>5, <1>6, <1>7

LEMMA TablePassStays ==
    ASSUME NEW p, NEW s, NEW t, IsList(s), IsList(t), Unique(s), Unique(t), Grown(s, t),
           TablePass(p, RowsOf(s, p.job))
    PROVE  TablePass(p, RowsOf(t, p.job))
<1> DEFINE all == RowsOf(s, p.job)
           now == RowsOf(t, p.job)
<1>1. \A k \in DOMAIN all : k \in DOMAIN now /\ now[k].id = all[k].id
  BY RowsOfGrow
<1> HIDE DEF all, now
<1>2. Ids(all) \in SUBSET Ids(now)
  BY <1>1 DEF Ids
<1>3. TablePass(p, all)
  BY DEF all
<1>4. TablePass(p, now)
  BY <1>1, <1>2, <1>3 DEF TablePass
<1>5. QED BY <1>4 DEF now

LEMMA ArtifactPassStays ==
    ASSUME NEW p, NEW S, NEW T, Numbers(S), Numbers(T), S \in SUBSET T, IsList(p.got), ArtifactPass(p, S)
    PROVE  ArtifactPass(p, T)
<1>1. p.before \in SUBSET T
  BY DEF ArtifactPass
<1>2. DOMAIN p.got = 1..Len(p.got) /\ Len(p.got) \in Nat
  BY DEF IsList
<1>3. ASSUME NEW k \in DOMAIN p.got
      PROVE  /\ p.got[k].id \in T /\ Height(T, p.got[k].id) >= k - 1
             /\ Height(T, p.got[k].id) > k - 1 => \E b \in T \ p.before : b < p.got[k].id
  <2> DEFINE e == p.got[k].id
  <2>1. /\ e \in S /\ Height(S, e) >= k - 1 /\ k \in Int
        /\ Height(S, e) > k - 1 => \E b \in S \ p.before : b < e
    BY <1>2 DEF ArtifactPass
  <2> HIDE DEF e
  <2>2. /\ Height(S, e) <= Height(T, e) /\ Height(S, e) \in Nat /\ Height(T, e) \in Nat
        /\ Height(S, e) < Height(T, e) => \E b \in T \ S : b < e
    BY <2>1, HeightWidens
  <2>3. Height(T, e) >= k - 1
    BY <2>1, <2>2
  <2>4. ASSUME Height(T, e) > k - 1 PROVE \E b \in T \ p.before : b < e
    <3>1. Height(S, e) > k - 1 \/ Height(S, e) < Height(T, e)
      BY <2>1, <2>2, <2>4
    <3>2. p.before \in SUBSET S
      BY DEF ArtifactPass
    <3>3. QED BY <2>1, <2>2, <3>1, <3>2
  <2>5. QED BY <2>1, <2>3, <2>4 DEF e
<1>4. ASSUME NEW b \in p.before PROVE b \in Ids(p.got) \/ Height(T, b) >= Len(p.got)
  <2>1. b \in S /\ (b \in Ids(p.got) \/ Height(S, b) >= Len(p.got))
    BY DEF ArtifactPass
  <2>2. Height(S, b) <= Height(T, b) /\ Height(S, b) \in Nat /\ Height(T, b) \in Nat
    BY <2>1, HeightWidens
  <2>3. QED BY <1>2, <2>1, <2>2
<1>5. p.at = "read" => p.before \in SUBSET Ids(p.got)
  BY DEF ArtifactPass
<1>6. QED BY <1>1, <1>3, <1>4, <1>5 DEF ArtifactPass

\* While the jobs write, what has been read keeps its place.

\* While the jobs write, what has been read keeps its place.
LEMMA ReadingStays ==
    ASSUME Sound, Sound', Growing, NEW p, Shape(p), ReadSoFar(p, Table(p.kind), Held(p.job))
    PROVE  ReadSoFar(p, TableOf(p.kind, resources', attempts', discoveries'),
                 HeldBy(p.job, resources', artifacts', acquisitions'))
<1> DEFINE s == Table(p.kind)
           t == TableOf(p.kind, resources', attempts', discoveries')
           S == Held(p.job)
           T == HeldBy(p.job, resources', artifacts', acquisitions')
<1>1. IsList(s) /\ Unique(s)
  BY TablesAreLists
<1>2. IsList(t) /\ Unique(t)
  <2>1. IsList(resources') /\ IsList(attempts') /\ IsList(discoveries')
    BY DEF Sound, IsList
  <2>2. Unique(resources') /\ Unique(attempts') /\ Unique(discoveries')
    BY NumberedIsUnique DEF Sound
  <2>3. t \in {resources', attempts', discoveries'}
    BY DEF TableOf
  <2>4. QED BY <2>1, <2>2, <2>3
<1>3. Grown(s, t)
  BY TablesGrow
<1>4. Numbers(S)
  BY HeldNumbers
<1>5. Numbers(T)
  <2>1. T \in SUBSET artifacts' /\ IsFiniteSet(artifacts') /\ artifacts' \in SUBSET Digest /\ Digest \in SUBSET Nat
    BY ListingsAssumption DEF HeldBy, Sound
  <2>2. IsFiniteSet(T)
    BY <2>1, FS_Subset
  <2>3. Nat \in SUBSET Int
    OBVIOUS
  <2>4. T \in SUBSET Int
    BY <2>1, <2>3
  <2>5. QED BY <2>2, <2>4 DEF Numbers
<1>6. S \in SUBSET T
  BY AcquiredGrows DEF Held
<1>7. IsList(p.got) /\ ReadSoFar(p, s, S)
  BY DEF Shape
<1> HIDE DEF s, t, S, T
<1>8. p.kind # "artifacts" => TablePass(p, RowsOf(t, p.job))
  BY <1>1, <1>2, <1>3, <1>7, TablePassStays DEF ReadSoFar
<1>9. p.kind = "artifacts" => ArtifactPass(p, T)
  BY <1>4, <1>5, <1>6, <1>7, ArtifactPassStays DEF ReadSoFar
<1>10. p.kind = "resources" => \A k \in DOMAIN p.got : p.got[k].body # Nothing => p.got[k].body \in T
  BY <1>6, <1>7 DEF ReadSoFar
<1>11. ReadSoFar(p, t, T)
  BY <1>8, <1>9, <1>10 DEF ReadSoFar
<1>12. QED BY <1>11 DEF t, T

\* q is p after one more page of all.
Asked(p, q, all) ==
    /\ q.kind = p.kind /\ q.job = p.job /\ q.before = p.before /\ p.at = "reading"
    /\ IsList(p.got) /\ IsList(q.got) /\ Len(q.got) \in Nat /\ Len(q.got) <= Len(all)
    /\ DOMAIN p.got = 1..Len(p.got) /\ DOMAIN q.got = 1..Len(q.got) /\ Len(p.got) \in Nat
    /\ \A k \in DOMAIN q.got : (k \in DOMAIN p.got /\ q.got[k] = p.got[k])
                               \/ (k \in DOMAIN all /\ k > Len(p.got) /\ q.got[k] = all[k])
    /\ \A k \in DOMAIN p.got : k \in DOMAIN q.got /\ q.got[k] = p.got[k]
    /\ q.at = "read" => Len(q.got) = Len(all)

Turned(p, got, at) == [at |-> at, kind |-> p.kind, job |-> p.job, got |-> got, before |-> p.before]
Turn(p, page, at) == [p EXCEPT !.got = @ \o page, !.at = at]
LEMMA TurnIs ==
    ASSUME NEW p, Shape(p), NEW page, NEW at
    PROVE  Turn(p, page, at) = Turned(p, Join(p.got, page), at)
<1> DEFINE r == Turn(p, page, at)
           F == {"at", "kind", "job", "got", "before"}
           got == Join(p.got, page)
<1>1. p = [x \in F |-> p[x]]
  BY DEF Shape
<1>2. r = [x \in F |-> IF x = "got" THEN got ELSE IF x = "at" THEN at ELSE p[x]]
  BY <1>1 DEF Turn, Join
<1> HIDE DEF r, got
<1>3. r = Turned(p, got, at)
  BY <1>2 DEF Turned
<1>4. QED BY <1>3 DEF r, got

LEMMA AskIs ==
    ASSUME NEW p, Shape(p), p.at = "reading", NEW all, IsList(all), Len(p.got) <= Len(all)
    PROVE  LET page == PageAt(all, Len(p.got))
               q == [p EXCEPT !.got = @ \o page, !.at = IF Len(page) < Limit THEN "read" ELSE "reading"]
           IN  Shape(q) /\ Asked(p, q, all)
<1> DEFINE have == p.got
           m == Len(have)
           page == PageAt(all, m)
           n == Len(page)
           size == Len(all)
           got == Join(have, page)
           sum == Len(got)
           at == IF n < Limit THEN "read" ELSE "reading"
           q == [p EXCEPT !.got = @ \o page, !.at = at]
<1>1. IsList(have) /\ m \in 0..size /\ DOMAIN have = 1..m /\ size \in Nat
  BY DEF Shape, IsList
<1>2. /\ IsList(page) /\ n \in Nat /\ DOMAIN page = 1..n /\ m + n <= size
      /\ \A k \in DOMAIN page : m + k \in DOMAIN all /\ page[k] = all[m + k]
      /\ n < Limit => m + n = size
  BY <1>1, PageIs
<1>3. p = [at |-> p.at, kind |-> p.kind, job |-> p.job, got |-> have, before |-> p.before]
  BY DEF Shape
<1>5. q = Turned(p, got, at)
  <2> HIDE DEF page, at
  <2>1. Turn(p, page, at) = Turned(p, Join(p.got, page), at)
    BY TurnIs
  <2>2. q = Turn(p, page, at)
    BY DEF Turn
  <2>3. QED BY <2>1, <2>2
<1> HIDE DEF page, have
<1>4. /\ IsList(got) /\ sum = m + n /\ DOMAIN got = 1..(m + n)
      /\ \A k \in DOMAIN have : got[k] = have[k]
      /\ \A k \in DOMAIN page : got[m + k] = page[k]
      /\ \A k \in DOMAIN got : k \in DOMAIN have \/ \E i \in DOMAIN page : k = m + i
  BY <1>1, <1>2, JoinIs
<1>6. at \in {"reading", "read"} /\ (at = "read" => n < Limit)
  OBVIOUS
<1> HIDE DEF m, n, size, sum, got, at, q
<1>7. q.at = at /\ q.kind = p.kind /\ q.job = p.job /\ q.got = got /\ q.before = p.before
  BY <1>5 DEF Turned
<1>8. Shape(q)
  BY <1>4, <1>5, <1>6, <1>7 DEF Shape, Turned
<1>9. m \in Nat /\ m <= size /\ sum \in Nat /\ sum <= size /\ (n < Limit => sum = size) /\ DOMAIN got = 1..sum
  BY <1>1, <1>2, <1>4
<1>10. ASSUME NEW k \in DOMAIN got
       PROVE  (k \in DOMAIN have /\ got[k] = have[k]) \/ (k \in DOMAIN all /\ k > m /\ got[k] = all[k])
  <2>1. CASE k \in DOMAIN have
    BY <1>4, <2>1
  <2>2. CASE \E i \in DOMAIN page : k = m + i
    <3>1. PICK i \in DOMAIN page : k = m + i
      BY <2>2
    <3>2. k > m
      BY <1>2, <1>9, <3>1
    <3>3. k \in DOMAIN all /\ got[k] = all[k]
      BY <1>2, <1>4, <3>1
    <3>4. QED BY <3>2, <3>3
  <2>3. QED BY <1>4, <2>1, <2>2
<1>11. \A k \in DOMAIN have : k \in DOMAIN got
  BY <1>1, <1>2, <1>4, <1>9
<1>12. Len(got) \in Nat /\ Len(got) <= Len(all) /\ DOMAIN got = 1..Len(got) /\ (q.at = "read" => Len(got) = Len(all))
  BY <1>6, <1>7, <1>9 DEF sum, size
<1>13. DOMAIN have = 1..Len(have) /\ Len(have) \in Nat
  BY <1>1, <1>9 DEF m
<1>14. \A k \in DOMAIN got : (k \in DOMAIN have /\ got[k] = have[k])
                              \/ (k \in DOMAIN all /\ k > Len(have) /\ got[k] = all[k])
  BY <1>10 DEF m
<1>15. Asked(p, q, all)
  BY <1>1, <1>4, <1>7, <1>11, <1>12, <1>13, <1>14 DEF Asked, have
<1>16. QED BY <1>8, <1>15 DEF q, at, n, page, m, have

LEMMA LengthWithin ==
    ASSUME NEW s, NEW t, IsList(s), IsList(t), \A k \in DOMAIN s : k \in DOMAIN t
    PROVE  Len(s) <= Len(t)
<1>1. Len(s) \in Nat /\ Len(t) \in Nat /\ DOMAIN s = 1..Len(s) /\ DOMAIN t = 1..Len(t)
  BY DEF IsList
<1>2. CASE Len(s) = 0
  BY <1>1, <1>2
<1>3. CASE Len(s) # 0
  <2>1. Len(s) \in DOMAIN s
    BY <1>1, <1>3
  <2>2. Len(s) \in DOMAIN t
    BY <2>1
  <2>3. QED BY <1>1, <2>2
<1>4. QED BY <1>2, <1>3

LEMMA TablePassAsked ==
    ASSUME NEW p, NEW q, NEW all, IsList(all), TablePass(p, all), Asked(p, q, all)
    PROVE  TablePass(q, all)
<1>1. \A k \in DOMAIN q.got : k \in DOMAIN all /\ q.got[k].id = all[k].id
  BY DEF Asked, TablePass
<1>2. q.before \in SUBSET Ids(all)
  BY DEF Asked, TablePass
<1>3. ASSUME q.at = "read" PROVE q.before \in SUBSET Ids(q.got)
  <2>1. DOMAIN q.got = DOMAIN all
    BY <1>3 DEF Asked, IsList
  <2>2. Ids(q.got) = Ids(all)
    BY <1>1, <2>1 DEF Ids
  <2>3. QED BY <1>2, <2>2
<1>4. QED BY <1>1, <1>2, <1>3 DEF TablePass

\* ORDER BY a.id
Listed(all, held) ==
    /\ IsList(all) /\ DOMAIN all = 1..Cardinality(held) /\ Len(all) = Cardinality(held) /\ Len(all) \in Nat
    /\ \A k \in DOMAIN all : all[k].id \in held /\ Height(held, all[k].id) = k - 1
    /\ \A e \in held : (Height(held, e) + 1) \in DOMAIN all /\ all[Height(held, e) + 1].id = e
    /\ Ids(all) = held

Digests(held) == LET order == Rising(held) IN [k \in DOMAIN order |-> [id |-> order[k]]]
LEMMA DigestsListed ==
    ASSUME NEW held, Numbers(held)
    PROVE  Listed(Digests(held), held)
<1> DEFINE order == Rising(held)
           all == Digests(held)
           size == Cardinality(held)
<1>1. Rises(order, held)
  BY RisingIs
<1>2. all = [k \in DOMAIN order |-> [id |-> order[k]]]
  BY DEF Digests
<1> HIDE DEF order, all
<1>3. /\ DOMAIN order = 1..size /\ size \in Nat
      /\ \A k \in DOMAIN order : order[k] \in held /\ Height(held, order[k]) = k - 1
      /\ \A e \in held : (Height(held, e) + 1) \in DOMAIN order /\ order[Height(held, e) + 1] = e
  BY <1>1 DEF Rises
<1> HIDE DEF size
<1>4. all \in Seq([id : held]) /\ DOMAIN all = 1..size /\ Len(all) = size
  BY <1>2, <1>3
<1>5. \A k \in DOMAIN all : all[k].id = order[k] /\ k \in DOMAIN order
  BY <1>2
<1>6. \A k \in DOMAIN all : all[k].id \in held /\ Height(held, all[k].id) = k - 1
  BY <1>3, <1>5
<1>7. \A e \in held : (Height(held, e) + 1) \in DOMAIN all /\ all[Height(held, e) + 1].id = e
  BY <1>2, <1>3, <1>5
<1>8. Ids(all) = held
  BY <1>6, <1>7 DEF Ids
<1>9. Listed(all, held)
  BY <1>3, <1>4, <1>6, <1>7, <1>8 DEF Listed, IsList, size
<1>10. QED BY <1>9 DEF all

LEMMA ArtifactPassWithin ==
    ASSUME NEW p, NEW held, Numbers(held), IsList(p.got), ArtifactPass(p, held), NEW all, Listed(all, held)
    PROVE  Len(p.got) <= Len(all)
<1>1. /\ Len(p.got) \in Nat /\ Len(all) \in Nat /\ DOMAIN p.got = 1..Len(p.got)
      /\ Len(all) = Cardinality(held)
  BY DEF IsList, Listed
<1>2. CASE Len(p.got) = 0
  BY <1>1, <1>2
<1>3. CASE Len(p.got) # 0
  <2> DEFINE n == Len(p.got)
             e == p.got[n].id
  <2>1. n \in DOMAIN p.got
    BY <1>1, <1>3
  <2>2. e \in held /\ Height(held, e) >= n - 1
    BY <2>1 DEF ArtifactPass
  <2>3. n \in Nat
    BY <1>1
  <2> HIDE DEF e
  <2>4. Height(held, e) \in 0..(Cardinality(held) - 1) /\ Cardinality(held) \in Nat
    BY <2>2, HeightIs
  <2> HIDE DEF n
  <2>5. n <= Cardinality(held)
    BY <2>2, <2>3, <2>4
  <2>6. QED BY <1>1, <2>5 DEF n
<1>4. QED BY <1>2, <1>3

LEMMA ArtifactPassAsked ==
    ASSUME NEW p, NEW q, NEW held, Numbers(held), ArtifactPass(p, held),
           NEW all, Listed(all, held), Asked(p, q, all)
    PROVE  ArtifactPass(q, held)
<1> DEFINE m == Len(p.got)
           n == Len(q.got)
           size == Len(all)
<1>1. /\ m \in Nat /\ n \in Nat /\ size \in Nat /\ n <= size
      /\ DOMAIN p.got = 1..m /\ DOMAIN q.got = 1..n /\ DOMAIN all = 1..size
      /\ q.before = p.before
  BY DEF Asked, Listed
<1>2. /\ \A k \in DOMAIN q.got : (k \in DOMAIN p.got /\ q.got[k] = p.got[k])
                                 \/ (k \in DOMAIN all /\ k > m /\ q.got[k] = all[k])
      /\ \A k \in DOMAIN p.got : k \in DOMAIN q.got /\ q.got[k] = p.got[k]
  BY DEF Asked
<1>3. \A e \in held : Height(held, e) \in Nat /\ Height(held, e) < size
  <2> SUFFICES ASSUME NEW e \in held PROVE Height(held, e) \in Nat /\ Height(held, e) < size
    OBVIOUS
  <2>1. Height(held, e) \in 0..(Cardinality(held) - 1) /\ Cardinality(held) \in Nat
    BY HeightIs
  <2>2. size = Cardinality(held)
    BY DEF Listed
  <2>3. QED BY <2>1, <2>2
<1>4. ASSUME NEW k \in DOMAIN q.got
      PROVE  /\ q.got[k].id \in held /\ Height(held, q.got[k].id) >= k - 1
             /\ Height(held, q.got[k].id) > k - 1 => \E b \in held \ q.before : b < q.got[k].id
  <2>1. CASE k \in DOMAIN p.got /\ q.got[k] = p.got[k]
    BY <1>1, <2>1 DEF ArtifactPass
  <2>2. CASE k \in DOMAIN all /\ q.got[k] = all[k]
    <3>1. all[k].id \in held /\ Height(held, all[k].id) = k - 1 /\ k \in Int
      BY <1>1, <2>2 DEF Listed
    <3>2. QED BY <2>2, <3>1
  <2>3. QED BY <1>2, <2>1, <2>2
<1>5. ASSUME NEW b \in q.before PROVE b \in Ids(q.got) \/ Height(held, b) >= n
  <2>1. b \in held /\ (b \in Ids(p.got) \/ Height(held, b) >= m)
    BY <1>1 DEF ArtifactPass
  <2>2. CASE b \in Ids(p.got)
    BY <1>2, <2>2 DEF Ids
  <2>3. CASE Height(held, b) >= m /\ Height(held, b) < n
    <3> DEFINE k == Height(held, b) + 1
    <3>1. k \in DOMAIN all /\ all[k].id = b
      BY <2>1 DEF Listed
    <3>2. k \in 1..n /\ ~ (k \in 1..m)
      BY <1>1, <1>3, <2>1, <2>3
    <3> HIDE DEF k
    <3>3. q.got[k] = all[k] /\ k \in DOMAIN q.got
      BY <1>1, <1>2, <3>2
    <3>4. QED BY <3>1, <3>3 DEF Ids
  <2>4. CASE ~ (Height(held, b) < n)
    BY <1>1, <1>3, <2>1, <2>4
  <2>5. QED BY <2>1, <2>2, <2>3, <2>4
<1>6. ASSUME q.at = "read", NEW b \in q.before PROVE b \in Ids(q.got)
  <2>1. n = size
    BY <1>6 DEF Asked
  <2>2. b \in held
    BY <1>1, <1>6 DEF ArtifactPass
  <2>3. Height(held, b) \in Nat /\ Height(held, b) < size
    BY <1>3, <2>2
  <2>4. ~ (Height(held, b) >= n)
    BY <1>1, <2>1, <2>3
  <2>5. QED BY <1>5, <1>6, <2>4
<1>7. q.before \in SUBSET held
  BY <1>1 DEF ArtifactPass
<1>8. QED BY <1>4, <1>5, <1>6, <1>7 DEF ArtifactPass

LEMMA KindsAre == Kinds = {"resources", "attempts", "discoveries", "artifacts"}
BY DEF Kinds, Tables

\* What the API answers from.
LEMMA ListingIs ==
    ASSUME Sound, NEW kind \in {"resources", "attempts", "discoveries", "artifacts"}, NEW j
    PROVE  /\ IsList(Listing(kind, j))
           /\ kind # "artifacts" => /\ Listing(kind, j) = RowsOf(Table(kind), j)
                                    /\ Unique(Listing(kind, j))
           /\ kind = "artifacts" => Listed(Listing(kind, j), Held(j))
<1>1. CASE kind = "artifacts"
  <2>1. Listing(kind, j) = Digests(Held(j))
    BY <1>1, AcquiredIs DEF Listing, Digests, Held
  <2>2. Listed(Digests(Held(j)), Held(j))
    BY HeldNumbers, DigestsListed
  <2>3. QED BY <1>1, <2>1, <2>2 DEF Listed
<1>2. CASE kind # "artifacts"
  <2>1. Tables[kind] = Table(kind)
    BY <1>2 DEF Tables, Table, TableOf
  <2>2. Listing(kind, j) = RowsOf(Table(kind), j)
    BY <1>2, <2>1 DEF Listing
  <2>3. IsList(RowsOf(Table(kind), j)) /\ Unique(RowsOf(Table(kind), j))
    BY TablesAreLists, RowsOfIs
  <2>4. QED BY <1>2, <2>2, <2>3
<1>3. QED BY <1>1, <1>2

\* An acquired resource that is listed names an artifact of its job.
LEMMA ListedIsBacked ==
    ASSUME Sound, Linked, NEW j, NEW k \in DOMAIN RowsOf(resources, j)
    PROVE  RowsOf(resources, j)[k].body # Nothing => RowsOf(resources, j)[k].body \in Held(j)
<1> DEFINE row == RowsOf(resources, j)[k]
<1>1. IsList(resources) /\ Unique(resources)
  BY DEF Sound, IsList
<1>2. PICK i \in DOMAIN resources : row = resources[i] /\ resources[i].job = j
  BY <1>1, RowsOfIs
<1> HIDE DEF row
<1>3. Backed(resources[i], resources, artifacts, acquisitions)
  BY DEF Linked
<1>4. row.body # Nothing => row.body \in Held(j)
  BY <1>2, <1>3 DEF Backed, Held
<1>5. QED BY <1>4 DEF row

LEMMA AskGoesOn ==
    ASSUME Sound, Linked, NEW p, Shape(p), p.at = "reading", ReadSoFar(p, Table(p.kind), Held(p.job))
    PROVE  LET page == PageAt(Listing(p.kind, p.job), Len(p.got))
               q == [p EXCEPT !.got = @ \o page, !.at = IF Len(page) < Limit THEN "read" ELSE "reading"]
           IN  Shape(q) /\ ReadSoFar(q, Table(q.kind), Held(q.job))
<1> DEFINE all == Listing(p.kind, p.job)
           page == PageAt(all, Len(p.got))
           q == [p EXCEPT !.got = @ \o page, !.at = IF Len(page) < Limit THEN "read" ELSE "reading"]
           held == Held(p.job)
           s == Table(p.kind)
<1>1. /\ p.kind \in {"resources", "attempts", "discoveries", "artifacts"} /\ IsList(p.got)
      /\ ReadSoFar(p, s, held) /\ Numbers(held)
  BY HeldNumbers DEF Shape
<1>2. /\ IsList(all)
      /\ p.kind # "artifacts" => all = RowsOf(s, p.job)
      /\ p.kind = "artifacts" => Listed(all, held)
  BY <1>1, ListingIs
<1>3. p.kind = "resources" =>
        \A k \in DOMAIN all : all[k].body # Nothing => all[k].body \in held
  BY <1>2, ListedIsBacked DEF Table, TableOf
<1> HIDE DEF all, held, s
<1>4. Len(p.got) <= Len(all)
  <2>1. CASE p.kind # "artifacts"
    <3>1. TablePass(p, all)
      BY <1>1, <1>2, <2>1 DEF ReadSoFar
    <3>2. QED BY <1>1, <1>2, <3>1, LengthWithin DEF TablePass
  <2>2. CASE p.kind = "artifacts"
    <3>1. ArtifactPass(p, held) /\ Listed(all, held)
      BY <1>1, <1>2, <2>2 DEF ReadSoFar
    <3>2. QED BY <1>1, <3>1, ArtifactPassWithin
  <2>3. QED BY <2>1, <2>2
<1>5. Shape(q) /\ Asked(p, q, all)
  BY <1>2, <1>4, AskIs
<1> HIDE DEF page, q
<1>6. q.kind = p.kind /\ q.job = p.job
  BY <1>5 DEF Asked
<1>7. p.kind # "artifacts" => TablePass(q, RowsOf(s, p.job))
  BY <1>1, <1>2, <1>5, TablePassAsked DEF ReadSoFar
<1>8. p.kind = "artifacts" => ArtifactPass(q, held)
  BY <1>1, <1>2, <1>5, ArtifactPassAsked DEF ReadSoFar
<1>9. p.kind = "resources" => \A k \in DOMAIN q.got : q.got[k].body # Nothing => q.got[k].body \in held
  BY <1>1, <1>3, <1>5 DEF ReadSoFar, Asked
<1>10. ReadSoFar(q, s, held)
  BY <1>6, <1>7, <1>8, <1>9 DEF ReadSoFar
<1>11. Shape(q) /\ ReadSoFar(q, Table(q.kind), Held(q.job))
  BY <1>5, <1>6, <1>10 DEF s, held
<1>12. QED BY <1>11 DEF q, page, all

LEMMA BeginIs ==
    ASSUME Sound, NEW kind \in Kinds, NEW j \in Job
    PROVE  LET p == [at |-> "reading", kind |-> kind, job |-> j, got |-> <<>>,
                     before |-> Ids(Listing(kind, j))]
           IN  Shape(p) /\ ReadSoFar(p, Table(p.kind), Held(p.job))
<1> DEFINE all == Listing(kind, j)
           p == [at |-> "reading", kind |-> kind, job |-> j, got |-> <<>>, before |-> Ids(all)]
           held == Held(j)
           s == Table(kind)
<1>1. kind \in {"resources", "attempts", "discoveries", "artifacts"} /\ Numbers(held)
  BY KindsAre, HeldNumbers
<1>2. /\ kind # "artifacts" => all = RowsOf(s, j)
      /\ kind = "artifacts" => Listed(all, held)
  BY <1>1, ListingIs
<1> HIDE DEF all, held, s
<1>3. /\ p.at = "reading" /\ p.kind = kind /\ p.job = j /\ p.got = <<>> /\ p.before = Ids(all)
      /\ p = [at |-> p.at, kind |-> p.kind, job |-> p.job, got |-> p.got, before |-> p.before]
  OBVIOUS
<1> HIDE DEF p
<1>4. <<>> \in Seq({}) /\ Len(<<>>) = 0 /\ DOMAIN <<>> = {}
  OBVIOUS
<1>5. Shape(p)
  BY <1>1, <1>3, <1>4 DEF Shape, IsList
<1>6. kind # "artifacts" => TablePass(p, RowsOf(s, j))
  BY <1>2, <1>3, <1>4 DEF TablePass
<1>7. kind = "artifacts" => ArtifactPass(p, held)
  <2> SUFFICES ASSUME kind = "artifacts" PROVE ArtifactPass(p, held)
    OBVIOUS
  <2>1. p.before = held
    BY <1>2, <1>3 DEF Listed
  <2>2. \A b \in held : Height(held, b) >= 0
    <3> SUFFICES ASSUME NEW b \in held PROVE Height(held, b) >= 0
      OBVIOUS
    <3>1. Height(held, b) \in 0..(Cardinality(held) - 1)
      BY <1>1, HeightIs
    <3>2. QED BY <3>1
  <2>3. QED BY <1>3, <1>4, <2>1, <2>2 DEF ArtifactPass
<1>8. ReadSoFar(p, s, held)
  BY <1>3, <1>4, <1>6, <1>7 DEF ReadSoFar
<1>9. Shape(p) /\ ReadSoFar(p, Table(p.kind), Held(p.job))
  BY <1>3, <1>5, <1>8 DEF s, held
<1>10. QED BY <1>9 DEF p, all

\* The same reading of tables that have grown.
LEMMA PassStays ==
    ASSUME Sound, Sound', Growing, PassOK, pass' = pass
    PROVE  PassOK'
<1>1. CASE pass = [at |-> "idle"]
  BY <1>1 DEF PassOK
<1>2. CASE Shape(pass) /\ ReadSoFar(pass, Table(pass.kind), Held(pass.job))
  <2>1. ReadSoFar(pass, TableOf(pass.kind, resources', attempts', discoveries'),
              HeldBy(pass.job, resources', artifacts', acquisitions'))
    BY <1>2, ReadingStays
  <2>2. QED BY <1>2, <2>1 DEF PassOK, Table, Held, Shape
<1>3. QED BY <1>1, <1>2 DEF PassOK

LEMMA StepPass ==
    ASSUME Sound, Linked, PassOK, [ListNext]_listVars
    PROVE  PassOK'
<1>1. Sound' /\ Growing
  BY StepSound
<1>2. CASE \E j \in Job : SaveDiscovery(j)
  BY <1>1, <1>2, PassStays DEF SaveDiscovery
<1>3. CASE \E j \in Job, r \in Resource : SaveResource(j, r)
  BY <1>1, <1>3, PassStays DEF SaveResource
<1>4. CASE \E j \in Job, r \in Resource : StartAttempt(j, r)
  BY <1>1, <1>4, PassStays DEF StartAttempt
<1>5. CASE \E j \in Job, i \in DOMAIN attempts : EndAttempt(j, i)
  BY <1>1, <1>5, PassStays DEF EndAttempt
<1>6. CASE \E j \in Job, r \in Resource, b \in Digest : PublishArtifact(j, r, b)
  BY <1>1, <1>6, PassStays DEF PublishArtifact
<1>7. CASE \E kind \in Kinds, j \in Job : BeginReading(kind, j)
  <2>1. PICK kind \in Kinds, j \in Job : BeginReading(kind, j)
    BY <1>7
  <2> DEFINE p == [at |-> "reading", kind |-> kind, job |-> j, got |-> <<>>,
                   before |-> Ids(Listing(kind, j))]
  <2>2. pass' = p /\ UNCHANGED <<resources, attempts, discoveries, artifacts, acquisitions>>
    BY <2>1 DEF BeginReading, db
  <2>3. Shape(p) /\ ReadSoFar(p, Table(p.kind), Held(p.job))
    BY BeginIs
  <2> HIDE DEF p
  <2>4. Shape(pass') /\ ReadSoFar(pass', TableOf(pass'.kind, resources', attempts', discoveries'),
                              HeldBy(pass'.job, resources', artifacts', acquisitions'))
    BY <2>2, <2>3 DEF Table, Held
  <2>5. QED BY <2>4 DEF PassOK, Table, Held, Shape
<1>8. CASE Ask
  <2> DEFINE page == PageAt(Listing(pass.kind, pass.job), Len(pass.got))
             q == [pass EXCEPT !.got = @ \o page, !.at = IF Len(page) < Limit THEN "read" ELSE "reading"]
  <2>1. /\ pass' = q /\ pass.at = "reading"
        /\ UNCHANGED <<resources, attempts, discoveries, artifacts, acquisitions>>
    BY <1>8 DEF Ask, db
  <2>2. Shape(pass) /\ ReadSoFar(pass, Table(pass.kind), Held(pass.job))
    BY <2>1 DEF PassOK
  <2>3. Shape(q) /\ ReadSoFar(q, Table(q.kind), Held(q.job))
    BY <2>1, <2>2, AskGoesOn
  <2> HIDE DEF q
  <2>4. Shape(pass') /\ ReadSoFar(pass', TableOf(pass'.kind, resources', attempts', discoveries'),
                              HeldBy(pass'.job, resources', artifacts', acquisitions'))
    BY <2>1, <2>3 DEF Table, Held
  <2>5. QED BY <2>4 DEF PassOK, Table, Held, Shape
<1>9. CASE Forget
  BY <1>9 DEF Forget, PassOK
<1>10. CASE UNCHANGED listVars
  BY <1>1, <1>10, PassStays DEF listVars
<1>11. QED BY <1>2, <1>3, <1>4, <1>5, <1>6, <1>7, <1>8, <1>9, <1>10 DEF ListNext

IdsOf(s) == [i \in DOMAIN s |-> s[i].id]
LEMMA IdsAre ==
    ASSUME NEW s, IsList(s)
    PROVE  /\ IdsOf(s) \in Seq({s[i].id : i \in DOMAIN s}) /\ Len(IdsOf(s)) = Len(s)
           /\ DOMAIN IdsOf(s) = DOMAIN s /\ \A i \in DOMAIN s : IdsOf(s)[i] = s[i].id
           /\ ToSet(IdsOf(s)) = Ids(s) /\ DOMAIN s = 1..Len(s) /\ Len(s) \in Nat
<1>1. DOMAIN s = 1..Len(s) /\ Len(s) \in Nat
  BY DEF IsList
<1>2. DOMAIN IdsOf(s) = DOMAIN s /\ \A i \in DOMAIN s : IdsOf(s)[i] = s[i].id
  BY DEF IdsOf
<1>3. IdsOf(s) \in Seq({s[i].id : i \in DOMAIN s}) /\ Len(IdsOf(s)) = Len(s)
  BY <1>1 DEF IdsOf
<1>4. ToSet(IdsOf(s)) = Ids(s)
  BY <1>2 DEF ToSet, Ids
<1>5. QED BY <1>1, <1>2, <1>3, <1>4

LEMMA PrefixIs ==
    ASSUME NEW s, NEW t, IsList(s), IsList(t), \A k \in DOMAIN s : k \in DOMAIN t /\ s[k].id = t[k].id
    PROVE  IsPrefix(IdsOf(s), IdsOf(t))
<1> DEFINE a == IdsOf(s)
           b == IdsOf(t)
           n == Len(a)
<1>1. /\ n \in Nat /\ DOMAIN a = 1..n /\ Len(b) \in Nat /\ DOMAIN b = 1..Len(b) /\ n <= Len(b)
      /\ a = [k \in 1..n |-> a[k]]
  <2>1. a = [k \in DOMAIN s |-> s[k].id] /\ DOMAIN s = 1..Len(s) /\ n = Len(s) /\ Len(b) = Len(t)
        /\ Len(s) \in Nat /\ Len(t) \in Nat /\ DOMAIN b = 1..Len(t)
    BY IdsAre DEF IdsOf
  <2>2. Len(s) <= Len(t)
    BY LengthWithin
  <2>3. QED BY <2>1, <2>2
<1>2. \A k \in 1..n : a[k] = b[k]
  BY IdsAre, <1>1
<1>3. PICK X : b \in Seq(X)
  BY IdsAre
<1> HIDE DEF a, b
<1>4. SubSeq(b, 1, n) = [k \in 1..n |-> b[k]]
  BY <1>1, <1>3
<1>5. SubSeq(a, 1, n) = [k \in 1..n |-> a[k]]
  BY <1>1
<1>6. SubSeq(a, 1, n) = SubSeq(b, 1, n)
  BY <1>2, <1>4, <1>5
<1>7. IsPrefix(a, b)
  BY <1>1, <1>6 DEF IsPrefix
<1>8. QED BY <1>7 DEF a, b

LEMMA PassIs ==
    ASSUME Sound, PassOK
    PROVE  PassIsWhole
<1> SUFFICES ASSUME pass.at # "idle" PROVE PassIsWhole
  BY DEF PassIsWhole
<1> DEFINE rowsGot == pass.got
           got == IdsOf(rowsGot)
           all == Listing(pass.kind, pass.job)
           held == Held(pass.job)
           before == pass.before
<1>1. Shape(pass) /\ ReadSoFar(pass, Table(pass.kind), held)
  BY DEF PassOK
<1>2. pass.kind \in {"resources", "attempts", "discoveries", "artifacts"} /\ IsList(rowsGot)
  BY <1>1 DEF Shape
<1>3. /\ IsList(all)
      /\ pass.kind # "artifacts" => all = RowsOf(Table(pass.kind), pass.job) /\ Unique(all)
      /\ pass.kind = "artifacts" => Listed(all, held)
  BY <1>2, ListingIs
<1>4. pass.kind # "artifacts" => TablePass(pass, all)
  BY <1>1, <1>3 DEF ReadSoFar
<1>5. pass.kind = "artifacts" => ArtifactPass(pass, held) /\ Ids(all) = held
  BY <1>1, <1>3 DEF ReadSoFar, Listed
<1>6. /\ DOMAIN got = DOMAIN rowsGot /\ \A i \in DOMAIN rowsGot : got[i] = rowsGot[i].id
      /\ ToSet(got) = Ids(rowsGot) /\ DOMAIN rowsGot = 1..Len(rowsGot)
  BY <1>2, IdsAre DEF ToSet
<1> HIDE DEF all, got, held
<1>7. pass.at = "read" => before \subseteq ToSet(got)
  BY <1>4, <1>5, <1>6 DEF TablePass, ArtifactPass
<1>8. ToSet(got) \subseteq Ids(all)
  <2>1. CASE pass.kind # "artifacts"
    BY <1>4, <1>6, <2>1 DEF TablePass, Ids
  <2>2. CASE pass.kind = "artifacts"
    BY <1>5, <1>6, <2>2 DEF ArtifactPass, Ids
  <2>3. QED BY <2>1, <2>2
<1>9. pass.kind # "artifacts" => IsPrefix(got, IdsOf(all))
  BY <1>2, <1>3, <1>4, PrefixIs DEF TablePass, got
<1>10. ASSUME NEW i \in DOMAIN got, NEW k \in DOMAIN got, i < k, got[i] = got[k]
       PROVE  pass.kind = "artifacts" /\ \E b \in Ids(all) \ before : b < got[i]
  <2>1. i \in DOMAIN rowsGot /\ k \in DOMAIN rowsGot /\ i \in Int /\ k \in Int
        /\ rowsGot[i].id = got[i] /\ rowsGot[k].id = got[i]
    BY <1>6, <1>10
  <2>2. CASE pass.kind # "artifacts"
    <3>1. i \in DOMAIN all /\ k \in DOMAIN all /\ all[i].id = all[k].id
      BY <1>4, <2>1, <2>2 DEF TablePass
    <3>2. i = k
      BY <1>3, <2>2, <3>1 DEF Unique
    <3>3. QED BY <1>10, <2>1, <3>2
  <2>3. CASE pass.kind = "artifacts"
    <3> DEFINE e == got[i]
    <3>1. /\ ArtifactPass(pass, held) /\ Ids(all) = held
      BY <1>5, <2>3
    <3>2. /\ e \in held /\ Height(held, e) >= k - 1
          /\ Height(held, e) > i - 1 => \E b \in held \ before : b < e
      <4>1. /\ rowsGot[k].id \in held /\ Height(held, rowsGot[k].id) >= k - 1
            /\ Height(held, rowsGot[i].id) > i - 1 => \E b \in held \ before : b < rowsGot[i].id
        BY <2>1, <3>1 DEF ArtifactPass
      <4>2. QED BY <2>1, <4>1
    <3> HIDE DEF e
    <3>3. Height(held, e) \in Nat
      <4>1. Numbers(held)
        BY HeldNumbers DEF held
      <4>2. Height(held, e) \in 0..(Cardinality(held) - 1)
        BY <3>2, <4>1, HeightIs
      <4>3. QED BY <4>2
    <3>4. Height(held, e) > i - 1
      BY <1>10, <2>1, <3>2, <3>3
    <3>5. QED BY <2>3, <3>1, <3>2, <3>4 DEF e
  <2>4. QED BY <2>2, <2>3
<1>11. QED BY <1>7, <1>8, <1>9, <1>10 DEF PassIsWhole, got, all, IdsOf

LEMMA NamesAre ==
    ASSUME Sound, Linked, PassOK
    PROVE  NamesResolve
<1>1. \A row \in ToSet(attempts) \cup ToSet(discoveries) : row.resource \in Of(resources, row.job)
  BY DEF Linked, ToSet
<1>2. ASSUME NEW row \in ToSet(resources)
      PROVE  /\ row.body # Nothing => row.body \in Acquired(row.job)
             /\ Discovered(row.id) \/ saving[row.job] = row.id
  <2>1. PICK i \in DOMAIN resources : row = resources[i]
    BY DEF ToSet
  <2>2. Backed(row, resources, artifacts, acquisitions) /\ Told(row, discoveries, saving)
    BY <2>1 DEF Linked
  <2>3. QED BY <2>2, AcquiredIs DEF Backed, Told, Discovered
<1>3. ASSUME pass.at # "idle", pass.kind = "resources", NEW row \in ToSet(pass.got), row.body # Nothing
      PROVE  row.body \in Acquired(pass.job)
  <2>1. ReadSoFar(pass, Table(pass.kind), Held(pass.job))
    BY <1>3 DEF PassOK
  <2>2. row.body \in Held(pass.job)
    BY <1>3, <2>1 DEF ReadSoFar, ToSet
  <2>3. QED BY <2>2, AcquiredIs DEF Held
<1>4. QED BY <1>1, <1>2, <1>3 DEF NamesResolve

ListingsInv == Sound /\ Linked /\ PassOK

LEMMA ListingsHold ==
    ListSpec => []ListingsInv
<1>1. ListInit => ListingsInv
  <2> SUFFICES ASSUME ListInit PROVE ListingsInv
    OBVIOUS
  <2>1. resources = <<>> /\ attempts = <<>> /\ discoveries = <<>> /\ artifacts = {} /\ acquisitions = {}
        /\ saving = [j \in Job |-> Nothing] /\ pass = [at |-> "idle"]
    BY DEF ListInit
  <2>2. Sound
    BY <2>1, FS_EmptySet DEF Sound, Unique, Numbered
  <2>3. Linked
    BY <2>1 DEF Linked
  <2>4. PassOK
    BY <2>1 DEF PassOK
  <2>5. QED BY <2>2, <2>3, <2>4 DEF ListingsInv
<1>2. ListingsInv /\ [ListNext]_listVars => ListingsInv'
  BY StepSound, StepLinked, StepPass DEF ListingsInv
<1>3. QED BY <1>1, <1>2, PTL DEF ListSpec

(* However pages and writes interleave, whatever the size of a page, the   *)
(* tables and the digests: a reading of a listing is whole.                *)
THEOREM ReadingsAreWhole == ListSpec => []PassIsWhole
<1>1. ListingsInv => PassIsWhole
  BY PassIs DEF ListingsInv
<1>2. QED BY <1>1, ListingsHold, PTL

(* Whatever jobs write and whenever one dies, what a row names is there.   *)
THEOREM NamesAlwaysResolve == ListSpec => []NamesResolve
<1>1. ListingsInv => NamesResolve
  BY NamesAre DEF ListingsInv
<1>2. QED BY <1>1, ListingsHold, PTL
=============================================================================
