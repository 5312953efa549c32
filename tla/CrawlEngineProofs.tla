--------------------------- MODULE CrawlEngineProofs ---------------------------
(***************************************************************************)
(* What holds of one crawl job for every site, every policy and any number *)
(* of faults and stop requests: types, the ownership of pending files,     *)
(* what the rows say, depths, and that timing does not show in the result. *)
(***************************************************************************)
EXTENDS CrawlEngine, FiniteSetTheorems, TLAPS

\* the types that the ownership argument needs
Types ==
    /\ task \in [Url -> TaskState]
    /\ run \in {"pop", "gather", "publish", "unwind", "ended"}
    /\ interrupted \in BOOLEAN

\* Where the coroutine stands fixes who may still own a pending file: nobody
\* before a level, the level's tasks and their results while it is gathered,
\* and the items still to be published after it has settled.
Stages ==
    /\ run = "pop" => Undone = {} /\ pending = {} /\ results = {}
    /\ run = "gather" => Undone \subseteq level /\ results \subseteq level
    /\ run = "publish" => Undone = {} /\ pending \subseteq todo
    /\ run = "ended" /\ ~interrupted => Undone = {} /\ pending = {}

Ownership == Types /\ PendingOwned /\ Stages

LEMMA InitOwnership == Init => Ownership
BY DEF Init, Ownership, Types, PendingOwned, Stages, Undone, TaskState

\* A step of one fetch task.
LEMMA TaskOwnership ==
    ASSUME Ownership, NEW u \in Url,
           StartFetch(u) \/ Receive(u) \/ FinishFetch(u) \/ CancelFetch(u)
    PROVE  Ownership'
<1> USE DEF Ownership, Types, PendingOwned, Stages, Undone, TaskState, control
<1>0. u \in Undone
  BY DEF StartFetch, Receive, FinishFetch, CancelFetch
<1>1. CASE StartFetch(u)
  <2>1. Undone' = Undone
    BY <1>1 DEF StartFetch
  <2>2. QED BY <1>0, <1>1, <2>1 DEF StartFetch
<1>2. CASE Receive(u)
  <2>1. \E outcome \in {"budget", "error", "fetching"} :
           task' = [task EXCEPT ![u] = outcome]
    BY <1>2 DEF Receive, Overrun
  <2>2. /\ pending' = pending \cup {u} /\ task' = task
        \/ pending' = pending \ {u}
    BY <1>2 DEF Receive, Discarded
  <2>3. QED BY <1>0, <1>2, <2>1, <2>2 DEF Receive, catalog
<1>3. CASE FinishFetch(u)
  BY <1>0, <1>3 DEF FinishFetch, catalog, Discarded
<1>4. CASE CancelFetch(u)
  BY <1>0, <1>4 DEF CancelFetch, catalog, Discarded
<1>5. QED BY <1>1, <1>2, <1>3, <1>4

LEMMA StepOwnership == Ownership /\ [Next]_vars => Ownership'
<1> SUFFICES ASSUME Ownership, [Next]_vars PROVE Ownership'
  OBVIOUS
<1> USE DEF Ownership, Types, PendingOwned, Stages, Undone, TaskState
<1>1. CASE StartLevel
  <2> DEFINE chosen == First(PopLevel(Catalog), fetchCount)
  <2>1. pending' = {} /\ results' = {} /\ interrupted' = interrupted
    BY <1>1 DEF StartLevel
  <2>2. CASE chosen = {}
    BY <1>1, <2>1, <2>2 DEF StartLevel, EnterFinally
  <2>3. CASE chosen # {}
    <3>1. /\ run' = "gather" /\ level' = chosen
          /\ task' = [u \in Url |-> IF u \in chosen THEN "waiting" ELSE task[u]]
      BY <1>1, <2>3 DEF StartLevel
    <3>2. QED BY <1>1, <2>1, <3>1 DEF StartLevel
  <2>4. QED BY <2>2, <2>3
<1>2. CASE GatherReturns
  BY <1>2 DEF GatherReturns, LevelSettled, tasks, catalog
<1>3. CASE GatherRaises
  BY <1>3 DEF GatherRaises, EnterFinally, catalog
<1>4. CASE PublishItem
  BY <1>4 DEF PublishItem
<1>5. CASE PublishFaults
  BY <1>5 DEF PublishFaults, EnterFinally, catalog
<1>6. CASE Unwind
  BY <1>6 DEF Unwind
<1>7. CASE Stop
  BY <1>7 DEF Stop, StopAtGather, StopAtPublish, StopAtUnwind, EnterFinally, catalog
<1>8. CASE Network
  BY <1>8, TaskOwnership DEF Network
<1>9. CASE \E u \in Url : CancelFetch(u)
  BY <1>9, TaskOwnership
<1>10. CASE UNCHANGED vars
  BY <1>10 DEF vars, catalog, tasks, control
<1>11. QED
  BY <1>1, <1>2, <1>3, <1>4, <1>5, <1>6, <1>7, <1>8, <1>9, <1>10
     DEF Next, RunStep, Ended

\* The invariant behind both ownership properties.
THEOREM OwnershipInvariant == Spec => []Ownership
BY InitOwnership, StepOwnership, PTL DEF Spec

\* No interleaving of completions, failures and stop requests orphans a file
\* of .pending while a job runs (engine.py:130-144, 181-187).
THEOREM PendingIsOwned == Spec => []PendingOwned
<1>1. Ownership => PendingOwned
  BY DEF Ownership
<1>2. QED BY <1>1, OwnershipInvariant, PTL

\* A finally block that ran to its end leaves no task and no pending file.
THEOREM NothingIsLeft == Spec => []NothingLeftAtEnd
<1>1. Ownership => NothingLeftAtEnd
  BY DEF Ownership, Stages, NothingLeftAtEnd
<1>2. QED BY <1>1, OwnershipInvariant, PTL

-----------------------------------------------------------------------------
(***************************************************************************)
(* Induction over the naturals, for sets: a set of naturals that is not    *)
(* empty has a least element.                                              *)
(***************************************************************************)
LEMMA NatLeast ==
    ASSUME NEW T \in SUBSET Nat, T # {}
    PROVE  \E x \in T : \A y \in T : x <= y
<1> DEFINE R == OpToRel(<, Nat)
<1>1. IsWellFoundedOn(R, Nat)
  BY NatLessThanWellFounded
<1>2. \A x, y \in Nat : x < y => <<x, y>> \in R
  BY DEF OpToRel
<1> HIDE DEF R
<1>3. PICK x \in T : \A y \in T : ~(<<y, x>> \in R)
  BY <1>1, WFMin
<1>4. \A y \in T : ~(y < x)
  BY <1>2, <1>3
<1>5. QED BY <1>4

LEMMA NatSteps ==
    ASSUME NEW T \in SUBSET Nat, 0 \in T, \A n \in T : n + 1 \in T
    PROVE  T = Nat
<1> SUFFICES ASSUME T # Nat PROVE FALSE
  OBVIOUS
<1> DEFINE U == Nat \ T
<1>1. U \in SUBSET Nat /\ U # {}
  OBVIOUS
<1>2. PICK x \in U : \A y \in U : x <= y
  <2> HIDE DEF U
  <2> QED BY <1>1, NatLeast
<1>3. x # 0 /\ x - 1 \in Nat /\ x - 1 \notin U
  BY <1>2
<1>4. QED BY <1>3

\* The least of the items still to be published is one of them.
LEMMA LeastIsOne ==
    ASSUME NEW S \in SUBSET Url, S # {}
    PROVE  Least(S) \in S /\ \A v \in S : Least(S) <= v
<1>1. S \in SUBSET Nat
  BY EngineAssumption
<1>2. \E u \in S : \A v \in S : u <= v
  BY <1>1, NatLeast
<1>3. QED BY <1>2 DEF Least

(***************************************************************************)
(* DiscoverLinks: the catalogs between two links exist, and what Discover  *)
(* keeps, the whole list keeps.                                            *)
(***************************************************************************)
Between(f, g, links, d, n) ==
    f = [k \in 0..n |-> IF k = 0 THEN g ELSE Discover(f[k - 1], links[k], d)]

LEMMA BetweenExists ==
    ASSUME NEW g, NEW links, NEW d, NEW n \in Nat
    PROVE  \E f : Between(f, g, links, d, n)
<1> DEFINE T == {m \in Nat : \E f : Between(f, g, links, d, m)}
<1>1. 0 \in T
  <2> DEFINE f == [k \in 0..0 |-> g]
  <2>1. f = [k \in 0..0 |-> IF k = 0 THEN g ELSE Discover(f[k - 1], links[k], d)]
    OBVIOUS
  <2>2. Between(f, g, links, d, 0)
    BY <2>1 DEF Between
  <2>3. QED BY <2>2
<1>2. ASSUME NEW m \in T PROVE m + 1 \in T
  <2>1. PICK f : Between(f, g, links, d, m)
    OBVIOUS
  <2> DEFINE F == [k \in 0..(m + 1) |->
                     IF k <= m THEN f[k] ELSE Discover(f[m], links[m + 1], d)]
  <2>2. ASSUME NEW k \in 0..(m + 1)
        PROVE  F[k] = IF k = 0 THEN g ELSE Discover(F[k - 1], links[k], d)
    <3>1. CASE k = 0
      BY <2>1, <3>1 DEF Between
    <3>2. CASE k # 0 /\ k <= m
      BY <2>1, <3>2 DEF Between
    <3>3. CASE k = m + 1
      BY <3>3
    <3>4. QED BY <3>1, <3>2, <3>3
  <2>3. F = [k \in 0..(m + 1) |->
               IF k = 0 THEN g ELSE Discover(F[k - 1], links[k], d)]
    BY <2>2
  <2>4. Between(F, g, links, d, m + 1)
    BY <2>3 DEF Between
  <2>5. QED BY <2>4
<1>3. T = Nat
  <2> HIDE DEF T
  <2>1. T \in SUBSET Nat
    BY DEF T
  <2>2. QED BY <1>1, <1>2, <2>1, NatSteps
<1>4. QED BY <1>3

LEMMA DiscoverLinksBetween ==
    ASSUME NEW g, NEW links \in Seq(Url), NEW d
    PROVE  \E f : /\ Between(f, g, links, d, Len(links))
                  /\ DiscoverLinks(g, links, d) = f[Len(links)]
<1> DEFINE f == CHOOSE f : f = [n \in 0..Len(links) |->
                   IF n = 0 THEN g ELSE Discover(f[n - 1], links[n], d)]
<1>0. Len(links) \in Nat
  OBVIOUS
<1>1. \E h : Between(h, g, links, d, Len(links))
  BY <1>0, BetweenExists
<1>2. \E h : h = [n \in 0..Len(links) |->
                   IF n = 0 THEN g ELSE Discover(h[n - 1], links[n], d)]
  BY <1>1 DEF Between
<1>3. f = [n \in 0..Len(links) |->
                   IF n = 0 THEN g ELSE Discover(f[n - 1], links[n], d)]
  BY <1>2
<1>4. DiscoverLinks(g, links, d) = f[Len(links)]
  BY DEF DiscoverLinks
<1> HIDE DEF f
<1>5. QED BY <1>3, <1>4 DEF Between

LEMMA DiscoverLinksKeeps ==
    ASSUME NEW C, NEW g \in C, NEW links \in Seq(Url), NEW d,
           \A h \in C, i \in 1..Len(links) : Discover(h, links[i], d) \in C
    PROVE  DiscoverLinks(g, links, d) \in C
<1>1. PICK f : /\ Between(f, g, links, d, Len(links))
               /\ DiscoverLinks(g, links, d) = f[Len(links)]
  BY DiscoverLinksBetween
<1> DEFINE T == {n \in Nat : n <= Len(links) => f[n] \in C}
<1>2. f[0] = g
  BY <1>1 DEF Between
<1>3. ASSUME NEW n \in Nat, n + 1 <= Len(links)
      PROVE  f[n + 1] = Discover(f[n], links[n + 1], d)
  BY <1>1, <1>3 DEF Between
<1>4. 0 \in T
  BY <1>2
<1>5. ASSUME NEW n \in T PROVE n + 1 \in T
  <2>1. CASE n + 1 <= Len(links)
    <3>1. f[n] \in C /\ n + 1 \in 1..Len(links)
      BY <2>1
    <3>2. QED BY <1>3, <2>1, <3>1
  <2>2. QED BY <2>1
<1>6. T = Nat
  <2>1. T \in SUBSET Nat
    OBVIOUS
  <2> HIDE DEF T
  <2>2. QED BY <1>4, <1>5, <2>1, NatSteps
<1>7. Len(links) \in Nat
  OBVIOUS
<1>8. QED BY <1>1, <1>6, <1>7

\* Each link has its turn: what Discover makes true of the catalog at that
\* turn, and keeps later, is true after the list.
LEMMA DiscoverLinksReaches ==
    ASSUME NEW C, NEW g \in C, NEW links \in Seq(Url), NEW d, NEW D,
           \A h \in C, i \in 1..Len(links) : Discover(h, links[i], d) \in C,
           \A h \in C \cap D, i \in 1..Len(links) : Discover(h, links[i], d) \in D,
           NEW j \in 1..Len(links), \A h \in C : Discover(h, links[j], d) \in D
    PROVE  DiscoverLinks(g, links, d) \in D
<1>1. PICK f : /\ Between(f, g, links, d, Len(links))
               /\ DiscoverLinks(g, links, d) = f[Len(links)]
  BY DiscoverLinksBetween
<1> DEFINE T == {n \in Nat : n <= Len(links) =>
                                f[n] \in C /\ (j <= n => f[n] \in D)}
<1>2. f[0] = g
  BY <1>1 DEF Between
<1>3. ASSUME NEW n \in Nat, n + 1 <= Len(links)
      PROVE  f[n + 1] = Discover(f[n], links[n + 1], d)
  BY <1>1, <1>3 DEF Between
<1>4. 0 \in T
  BY <1>2
<1>5. ASSUME NEW n \in T PROVE n + 1 \in T
  <2>1. CASE n + 1 <= Len(links)
    <3>1. f[n] \in C /\ n + 1 \in 1..Len(links) /\ (j <= n => f[n] \in D)
      BY <2>1
    <3>2. f[n + 1] = Discover(f[n], links[n + 1], d)
      BY <1>3, <2>1
    <3>3. j <= n + 1 => j <= n \/ j = n + 1
      OBVIOUS
    <3>4. f[n + 1] \in C
      BY <3>1, <3>2
    <3>5. j <= n => f[n + 1] \in D
      BY <3>1, <3>2
    <3>6. j = n + 1 => f[n + 1] \in D
      BY <3>1, <3>2
    <3>7. QED BY <3>3, <3>4, <3>5, <3>6
  <2>2. QED BY <2>1
<1>6. T = Nat
  <2>1. T \in SUBSET Nat
    OBVIOUS
  <2> HIDE DEF T
  <2>2. QED BY <1>4, <1>5, <2>1, NatSteps
<1>7. Len(links) \in Nat
  OBVIOUS
<1>8. QED BY <1>1, <1>6, <1>7

(***************************************************************************)
(* Sorted enumerates a finite set of URLs.                                 *)
(***************************************************************************)
LEMMA RankBelow ==
    ASSUME NEW S \in SUBSET Url, NEW u \in S
    PROVE  Before(S, u) \in 0..(Cardinality(S) - 1)
<1>1. IsFiniteSet(S)
  BY EngineAssumption, FS_Subset
<1> DEFINE B == {v \in S : v < u}
<1>2. B \in SUBSET (S \ {u})
  BY EngineAssumption
<1>3. IsFiniteSet(S \ {u}) /\ Cardinality(S \ {u}) = Cardinality(S) - 1
  BY <1>1, FS_RemoveElement
<1>4. IsFiniteSet(B) /\ Cardinality(B) <= Cardinality(S \ {u})
  <2> HIDE DEF B
  <2> QED BY <1>2, <1>3, FS_Subset
<1>5. Cardinality(B) \in Nat /\ Cardinality(S) \in Nat
  BY <1>1, <1>4, FS_CardinalityType
<1>6. QED BY <1>3, <1>4, <1>5 DEF Before

LEMMA RankGrows ==
    ASSUME NEW S \in SUBSET Url, NEW u \in S, NEW w \in S, u < w
    PROVE  Before(S, u) < Before(S, w)
<1> DEFINE A == {v \in S : v < u}
           B == {v \in S : v < w}
<1>1. IsFiniteSet(S)
  BY EngineAssumption, FS_Subset
<1>2. B \in SUBSET S /\ A \in SUBSET B /\ u \in B /\ u \notin A
  <2>1. \A v \in S : v \in Nat
    BY EngineAssumption
  <2>2. \A v \in S : v < u => v < w
    BY <2>1
  <2>3. ~(u < u)
    BY <2>1
  <2>4. QED BY <2>2, <2>3
<1> HIDE DEF A, B
<1>3. IsFiniteSet(B)
  BY <1>1, <1>2, FS_Subset
<1>4. IsFiniteSet(A) /\ Cardinality(A) <= Cardinality(B) /\ Cardinality(A) # Cardinality(B)
  BY <1>2, <1>3, FS_Subset
<1>5. Cardinality(A) \in Nat /\ Cardinality(B) \in Nat
  BY <1>3, <1>4, FS_CardinalityType
<1>6. Cardinality(A) < Cardinality(B)
  BY <1>4, <1>5
<1>7. QED BY <1>6 DEF Before, A, B

\* Every rank below the size of the set is some element's.
LEMMA RankOnto ==
    ASSUME NEW S \in SUBSET Url, NEW i \in 0..(Cardinality(S) - 1)
    PROVE  \E u \in S : Before(S, u) = i
<1> DEFINE f == [u \in S |-> Before(S, u)]
           n == Cardinality(S)
<1>1. IsFiniteSet(S) /\ n \in Nat
  BY EngineAssumption, FS_Subset, FS_CardinalityType
<1>2. f \in [S -> 0..(n - 1)]
  BY RankBelow
<1>3. ASSUME NEW u \in S, NEW w \in S, f[u] = f[w] PROVE u = w
  <2>1. u \in Nat /\ w \in Nat
    BY EngineAssumption
  <2>2. u < w => f[u] < f[w]
    BY RankGrows
  <2>3. w < u => f[w] < f[u]
    BY RankGrows
  <2>4. f[u] \in Int /\ f[w] \in Int
    BY <1>1, <1>2
  <2> HIDE DEF f
  <2>5. QED BY <1>3, <2>1, <2>2, <2>3, <2>4
<1> HIDE DEF f
<1>4. f \in Injection(S, 0..(n - 1))
  BY <1>2, <1>3 DEF Injection, IsInjective
<1>5. IsFiniteSet(0..(n - 1)) /\ Cardinality(0..(n - 1)) = n
  BY <1>1, FS_Interval
<1>6. f \in Surjection(S, 0..(n - 1))
  BY <1>4, <1>5, FS_Injection
<1>7. \E u \in S : f[u] = i
  BY <1>6 DEF Surjection
<1>8. QED BY <1>7 DEF f

LEMMA SortedEnumerates ==
    ASSUME NEW S \in SUBSET Url
    PROVE  /\ Sorted(S) \in Seq(S)
           /\ \A u \in S : \E i \in 1..Len(Sorted(S)) : Sorted(S)[i] = u
<1>1. IsFiniteSet(S) /\ Cardinality(S) \in Nat
  BY EngineAssumption, FS_Subset, FS_CardinalityType
<1>2. ASSUME NEW i \in 1..Cardinality(S)
      PROVE  Sorted(S)[i] \in S /\ Before(S, Sorted(S)[i]) = i - 1
  <2>1. i - 1 \in 0..(Cardinality(S) - 1)
    BY <1>1
  <2>2. \E u \in S : Before(S, u) = i - 1
    BY <2>1, RankOnto
  <2>3. QED BY <2>2 DEF Sorted
<1>3. Sorted(S) = [i \in 1..Cardinality(S) |-> Sorted(S)[i]]
  BY DEF Sorted
<1>4. Sorted(S) \in Seq(S) /\ Len(Sorted(S)) = Cardinality(S)
  BY <1>1, <1>2, <1>3
<1>5. ASSUME NEW u \in S PROVE \E i \in 1..Len(Sorted(S)) : Sorted(S)[i] = u
  <2> DEFINE i == Before(S, u) + 1
  <2>1. i \in 1..Cardinality(S)
    BY <1>1, RankBelow
  <2>2. Sorted(S)[i] \in S /\ Before(S, Sorted(S)[i]) = Before(S, u)
    <3>1. Before(S, u) \in Int
      BY <1>1, RankBelow
    <3>2. QED BY <1>2, <2>1, <3>1
  <2>3. Sorted(S)[i] = u
    <3> DEFINE w == Sorted(S)[i]
    <3>1. u \in Nat /\ w \in Nat /\ w \in S
      BY <2>2, EngineAssumption
    <3>2. Before(S, u) \in Int
      BY <1>1, RankBelow
    <3>3. Before(S, w) = Before(S, u)
      BY <2>2
    <3> HIDE DEF w
    <3>4. u < w => Before(S, u) < Before(S, w)
      BY <3>1, RankGrows
    <3>5. w < u => Before(S, w) < Before(S, u)
      BY <3>1, RankGrows
    <3>6. u = w
      BY <3>1, <3>2, <3>3, <3>4, <3>5
    <3>7. QED BY <3>6 DEF w
  <2>4. QED BY <1>4, <2>1, <2>3
<1>6. QED BY <1>4, <1>5

(***************************************************************************)
(* The catalog, and what one discovered link does to it.                   *)
(***************************************************************************)
Catalogs ==
    [status : [Url -> Status], depth : [Url -> Nat], row : [Url -> Status],
     frontier : SUBSET Url, found : 0..MaxDiscoveries,
     artifactIds : SUBSET Content, cas : SUBSET Content,
     acquisitions : SUBSET (Url \X Content)]

DiscoverOutcome(g, u, d, h) ==
    /\ h \in Catalogs
    /\ \A v \in Url \ {u} : /\ h.status[v] = g.status[v]
                            /\ h.row[v] = g.row[v]
                            /\ h.depth[v] = g.depth[v]
                            /\ v \in h.frontier <=> v \in g.frontier
    /\ h.artifactIds = g.artifactIds /\ h.cas = g.cas
    /\ h.acquisitions = g.acquisitions
    /\ \/ g.found >= MaxDiscoveries /\ h = g
       \/ /\ Known(g, u) /\ g.found < MaxDiscoveries
          /\ h.found = g.found + 1
          /\ h.status[u] = g.status[u] /\ h.row[u] = g.status[u]
          /\ h.depth[u] = g.depth[u] /\ h.frontier = g.frontier
       \/ /\ ~Known(g, u) /\ g.found < MaxDiscoveries
          /\ h.found = g.found + 1
          /\ h.status[u] \in {"accepted", "rejected"}
          /\ h.status[u] = "accepted" => d <= MaxDepth
          /\ h.row[u] = h.status[u] /\ h.depth[u] = d
          /\ h.frontier = IF h.status[u] = "accepted"
                          THEN g.frontier \cup {u} ELSE g.frontier

LEMMA DiscoverEffect ==
    ASSUME NEW g \in Catalogs, NEW u \in Url, NEW d \in Nat,
           NEW h, h = Discover(g, u, d)
    PROVE  DiscoverOutcome(g, u, d, h)
<1> USE EngineAssumption DEF Catalogs, DiscoverOutcome
<1>0. MaxDiscoveries \in Nat /\ g.found \in 0..MaxDiscoveries
  OBVIOUS
<1>1. CASE g.found >= MaxDiscoveries
  <2>1. h = g
    BY <1>1 DEF Discover
  <2>2. QED BY <1>1, <2>1
<1>2. CASE g.found < MaxDiscoveries /\ Known(g, u)
  <2>1. h = [g EXCEPT !.found = @ + 1, !.row[u] = g.status[u]]
    BY <1>0, <1>2 DEF Discover
  <2>2. g.found + 1 \in 0..MaxDiscoveries
    BY <1>0, <1>2
  <2>3. h \in Catalogs
    <3> DEFINE r == [g.row EXCEPT ![u] = g.status[u]]
    <3>1. r \in [Url -> Status]
      OBVIOUS
    <3>2. h = [g EXCEPT !.found = g.found + 1, !.row = r]
      BY <2>1
    <3> HIDE DEF r
    <3>3. QED BY <2>2, <3>1, <3>2
  <2>4. QED BY <1>2, <2>1, <2>3
<1>3. CASE g.found < MaxDiscoveries /\ ~Known(g, u)
  <2> DEFINE ok == u \notin Denied /\ d <= MaxDepth
             s == IF ok THEN "accepted" ELSE "rejected"
  <2>1. h = [[g EXCEPT !.status[u] = s, !.row[u] = s]
               EXCEPT !.found = @ + 1, !.depth[u] = d,
                      !.frontier = IF ok THEN @ \cup {u} ELSE @]
    BY <1>0, <1>3 DEF Discover, Mark
  <2>2. g.found + 1 \in 0..MaxDiscoveries
    BY <1>0, <1>3
  <2>3. /\ s \in {"accepted", "rejected"} /\ s \in Status /\ (s = "accepted" <=> ok)
        /\ s = "accepted" => d <= MaxDepth
    BY DEF Status
  <2> HIDE DEF ok, s
  <2>4. h \in Catalogs
    <3> DEFINE t == [g.status EXCEPT ![u] = s]
               r == [g.row EXCEPT ![u] = s]
               e == [g.depth EXCEPT ![u] = d]
               f == IF ok THEN g.frontier \cup {u} ELSE g.frontier
    <3>1. /\ t \in [Url -> Status] /\ r \in [Url -> Status]
          /\ e \in [Url -> Nat] /\ f \in SUBSET Url
      BY <2>3
    <3>2. h = [[g EXCEPT !.status = t, !.row = r]
                 EXCEPT !.found = g.found + 1, !.depth = e, !.frontier = f]
      BY <2>1
    <3> HIDE DEF t, r, e, f
    <3>3. QED BY <2>2, <3>1, <3>2
  <2>5. QED BY <1>3, <2>1, <2>3, <2>4
<1>4. QED BY <1>0, <1>1, <1>2, <1>3

LEMMA DiscoverLinksType ==
    ASSUME NEW g \in Catalogs, NEW links \in Seq(Url), NEW d \in Nat
    PROVE  DiscoverLinks(g, links, d) \in Catalogs
<1>1. \A h \in Catalogs, i \in 1..Len(links) : Discover(h, links[i], d) \in Catalogs
  <2>1. \A i \in 1..Len(links) : links[i] \in Url
    OBVIOUS
  <2>2. QED BY <2>1, DiscoverEffect DEF DiscoverOutcome
<1>2. QED BY <1>1, DiscoverLinksKeeps

LEMMA SiteType ==
    ASSUME site \in Sites, NEW u \in Url
    PROVE  /\ site[u].content \in Content /\ site[u].links \in Seq(Url)
           /\ site[u].size \in Nat
           /\ site[u].kind \in {"page", "http_error", "fetch_error"}
BY EngineAssumption DEF Answer

LEMMA MarkEffect ==
    ASSUME NEW g \in Catalogs, NEW u \in Url, NEW s \in Status,
           NEW h, h = Mark(g, u, s)
    PROVE  /\ h \in Catalogs
           /\ h.status = [g.status EXCEPT ![u] = s]
           /\ h.row = [g.row EXCEPT ![u] = s]
           /\ h.depth = g.depth /\ h.frontier = g.frontier
           /\ h.found = g.found /\ h.artifactIds = g.artifactIds
           /\ h.cas = g.cas /\ h.acquisitions = g.acquisitions
<1> DEFINE t == [g.status EXCEPT ![u] = s]
           r == [g.row EXCEPT ![u] = s]
<1>1. t \in [Url -> Status] /\ r \in [Url -> Status]
  BY DEF Catalogs
<1>2. h = [g EXCEPT !.status = t, !.row = r]
  BY DEF Mark
<1>3. h \in Catalogs
  <2> HIDE DEF t, r
  <2> QED BY <1>1, <1>2 DEF Catalogs
<1>4. QED BY <1>2, <1>3 DEF Catalogs

LEMMA SealedEffect ==
    ASSUME NEW g \in Catalogs, site \in Sites, NEW u \in Url,
           NEW h, h = Sealed(g, u, site[u].content)
    PROVE  /\ h \in Catalogs
           /\ h.status = [g.status EXCEPT ![u] = "acquired"]
           /\ h.cas = g.cas \cup {site[u].content}
           /\ h.artifactIds = g.artifactIds \cup {site[u].content}
           /\ h.row = g.row /\ h.depth = g.depth /\ h.frontier = g.frontier
           /\ h.found = g.found /\ h.acquisitions = g.acquisitions
<1> DEFINE t == [g.status EXCEPT ![u] = "acquired"]
           a == g.artifactIds \cup {site[u].content}
           b == g.cas \cup {site[u].content}
<1>1. t \in [Url -> Status] /\ a \in SUBSET Content /\ b \in SUBSET Content
  BY SiteType DEF Catalogs, Status
<1>2. h = [g EXCEPT !.status = t, !.artifactIds = a, !.cas = b]
  BY DEF Sealed
<1>3. h \in Catalogs
  <2> HIDE DEF t, a, b
  <2> QED BY <1>1, <1>2 DEF Catalogs
<1>4. QED BY <1>2, <1>3 DEF Catalogs

LEMMA PublishedEffect ==
    ASSUME NEW g \in Catalogs, site \in Sites, NEW u \in Url,
           NEW h, h = Published(g, u, site[u].content)
    PROVE  /\ h \in Catalogs
           /\ h.row = [g.row EXCEPT ![u] = "acquired"]
           /\ h.acquisitions = g.acquisitions \cup {<<u, site[u].content>>}
           /\ h.status = g.status /\ h.depth = g.depth
           /\ h.frontier = g.frontier /\ h.found = g.found
           /\ h.artifactIds = g.artifactIds /\ h.cas = g.cas
<1> DEFINE r == [g.row EXCEPT ![u] = "acquired"]
           a == g.acquisitions \cup {<<u, site[u].content>>}
<1>1. r \in [Url -> Status] /\ a \in SUBSET (Url \X Content)
  BY SiteType DEF Catalogs, Status
<1>2. h = [g EXCEPT !.row = r, !.acquisitions = a]
  BY DEF Published
<1>3. h \in Catalogs
  <2> HIDE DEF r, a
  <2> QED BY <1>1, <1>2 DEF Catalogs
<1>4. QED BY <1>2, <1>3 DEF Catalogs

\* The three ways an item is settled, told apart.
LEMMA CommitCases ==
    ASSUME site \in Sites, NEW u \in Url, NEW g
    PROVE  \/ Commit(g, u, site[u]) = Mark(g, u, "failed")
           \/ Commit(g, u, site[u]) = Mark(g, u, "rejected")
           \/ /\ site[u].kind = "page"
              /\ ~OverArtifactLimit(g, site[u].content)
              /\ Commit(g, u, site[u]) = DiscoverLinks(Published(Sealed(g, u, site[u].content), u, site[u].content),
                                              site[u].links, g.depth[u] + 1)
BY DEF Commit

LEMMA CommitType ==
    ASSUME NEW g \in Catalogs, site \in Sites, NEW u \in Url
    PROVE  Commit(g, u, site[u]) \in Catalogs
<1>1. {"failed", "rejected"} \subseteq Status
  BY DEF Status
<1>2. Mark(g, u, "failed") \in Catalogs /\ Mark(g, u, "rejected") \in Catalogs
  BY <1>1, MarkEffect
<1>3. Published(Sealed(g, u, site[u].content), u, site[u].content) \in Catalogs
  BY SealedEffect, PublishedEffect
<1>4. g.depth[u] + 1 \in Nat /\ site[u].links \in Seq(Url)
  BY SiteType DEF Catalogs
<1>5. DiscoverLinks(Published(Sealed(g, u, site[u].content), u, site[u].content), site[u].links, g.depth[u] + 1)
        \in Catalogs
  BY <1>3, <1>4, DiscoverLinksType
<1>6. QED BY <1>2, <1>5, CommitCases

\* The publication of an item commits a result and marks a failure; it is what
\* the reference does when the site decided the failure.
LEMMA SettleCases ==
    ASSUME NEW g, NEW u \in Url
    PROVE  Settle(g, u) = Commit(g, u, site[u]) \/ Settle(g, u) = Mark(g, u, "failed")
BY DEF Settle

LEMMA SettleType ==
    ASSUME NEW g \in Catalogs, site \in Sites, NEW u \in Url
    PROVE  Settle(g, u) \in Catalogs
<1>1. Mark(g, u, "failed") \in Catalogs
  BY MarkEffect DEF Status
<1>2. QED BY <1>1, CommitType, SettleCases

LEMMA SettleIsCommit ==
    ASSUME NEW g, NEW u \in Url,
           task[u] = "result" \/ (task[u] = "error" /\ site[u].kind = "fetch_error")
    PROVE  Settle(g, u) = Commit(g, u, site[u])
BY DEF Settle, Commit

\* A job never starts more pages than MaxPages.
LEMMA FirstBound ==
    ASSUME NEW S \in SUBSET Url, fetchCount \in 0..MaxPages
    PROVE  /\ First(S, fetchCount) \in SUBSET S /\ IsFiniteSet(First(S, fetchCount))
           /\ fetchCount + Cardinality(First(S, fetchCount)) \in 0..MaxPages
<1> DEFINE k == MaxPages - fetchCount
           F == First(S, fetchCount)
           f == [u \in F |-> Before(S, u)]
<1>1. F \in SUBSET S
  BY DEF First
<1>2. k \in Nat /\ MaxPages \in Nat /\ fetchCount \in Nat
  BY EngineAssumption
<1>3. IsFiniteSet(S) /\ IsFiniteSet(F) /\ Cardinality(F) \in Nat
  <2>1. IsFiniteSet(S)
    BY EngineAssumption, FS_Subset
  <2> HIDE DEF F
  <2>2. IsFiniteSet(F)
    BY <1>1, <2>1, FS_Subset
  <2>3. QED BY <2>1, <2>2, FS_CardinalityType
<1>4. f \in [F -> 0..(k - 1)]
  <2> SUFFICES ASSUME NEW u \in F PROVE Before(S, u) \in 0..(k - 1)
    OBVIOUS
  <2>1. Before(S, u) < k
    BY DEF First
  <2>2. Before(S, u) \in 0..(Cardinality(S) - 1)
    BY <1>1, RankBelow
  <2>3. Cardinality(S) \in Nat
    BY <1>3, FS_CardinalityType
  <2>4. QED BY <1>2, <2>1, <2>2, <2>3
<1>5. ASSUME NEW u \in F, NEW w \in F, f[u] = f[w] PROVE u = w
  <2>1. u \in Nat /\ w \in Nat /\ u \in S /\ w \in S
    BY <1>1, EngineAssumption
  <2>2. Before(S, u) = Before(S, w) /\ Before(S, u) \in Int
    <3>1. f[u] \in 0..(k - 1)
      BY <1>4
    <3>2. QED BY <1>2, <1>5, <3>1
  <2>3. (u < w => Before(S, u) < Before(S, w)) /\ (w < u => Before(S, w) < Before(S, u))
    BY <2>1, RankGrows
  <2>4. QED BY <2>1, <2>2, <2>3
<1> HIDE DEF f, F, k
<1>6. f \in Injection(F, 0..(k - 1))
  BY <1>4, <1>5 DEF Injection, IsInjective
<1>7. IsFiniteSet(0..(k - 1)) /\ Cardinality(0..(k - 1)) = k
  BY <1>2, FS_Interval
<1>8. Cardinality(F) <= k
  BY <1>6, <1>7, FS_Injection
<1>9. fetchCount + Cardinality(F) \in 0..MaxPages
  BY <1>2, <1>3, <1>8 DEF k
<1>10. QED BY <1>1, <1>3, <1>9 DEF F

-----------------------------------------------------------------------------
(***************************************************************************)
(* Types.  The loop publishes while something is left to publish, and      *)
(* pops with nothing left, so that Least is always applied to URLs.        *)
(***************************************************************************)
Progress ==
    /\ run \in {"pop", "gather"} => todo = {}
    /\ run = "gather" => level # {}
    /\ run = "publish" => todo # {}

LEMMA CatalogType == TypeOK => Catalog \in Catalogs
BY DEF TypeOK, Catalog, Catalogs

\* What StartLevel does to the catalog: only the popped level changes.
LEMMA PoppedCatalog ==
    ASSUME NEW g \in Catalogs, NEW popped, NEW chosen,
           NEW h, h = Popped(g, popped, chosen)
    PROVE  /\ h \in Catalogs
           /\ h.status = [u \in Url |-> IF u \in popped \ chosen THEN "rejected"
                                        ELSE g.status[u]]
           /\ h.row = [u \in Url |-> IF u \in popped \ chosen THEN "rejected"
                                     ELSE g.row[u]]
           /\ h.frontier = g.frontier \ popped
           /\ h.depth = g.depth /\ h.found = g.found
           /\ h.artifactIds = g.artifactIds /\ h.cas = g.cas
           /\ h.acquisitions = g.acquisitions
<1> DEFINE t == [u \in Url |-> IF u \in popped \ chosen THEN "rejected"
                              ELSE g.status[u]]
           r == [u \in Url |-> IF u \in popped \ chosen THEN "rejected"
                              ELSE g.row[u]]
           f == g.frontier \ popped
<1>1. t \in [Url -> Status] /\ r \in [Url -> Status] /\ f \in SUBSET Url
  BY DEF Catalogs, Status
<1>2. h = [g EXCEPT !.status = t, !.row = r, !.frontier = f]
  BY DEF Popped
<1>3. h \in Catalogs
  <2> HIDE DEF t, r, f
  <2> QED BY <1>1, <1>2 DEF Catalogs
<1>4. QED BY <1>2, <1>3 DEF Catalogs

LEMMA StartLevelCatalog ==
    ASSUME TypeOK, StartLevel
    PROVE  LET popped == PopLevel(Catalog)
               out == popped \ First(popped, fetchCount)
           IN  /\ status' = [u \in Url |-> IF u \in out THEN "rejected" ELSE status[u]]
               /\ row' = [u \in Url |-> IF u \in out THEN "rejected" ELSE row[u]]
               /\ frontier' = frontier \ popped
               /\ UNCHANGED <<depth, found, artifactIds, cas, acquisitions>>
<1> DEFINE popped == PopLevel(Catalog)
           chosen == First(popped, fetchCount)
           h == Popped(Catalog, popped, chosen)
<1>1. SetCatalog(h)
  BY DEF StartLevel
<1>2. Catalog \in Catalogs
  BY CatalogType
<1> HIDE DEF popped, chosen, h
<1>3. /\ h.status = [u \in Url |-> IF u \in popped \ chosen THEN "rejected"
                                   ELSE Catalog.status[u]]
      /\ h.row = [u \in Url |-> IF u \in popped \ chosen THEN "rejected"
                                ELSE Catalog.row[u]]
      /\ h.frontier = Catalog.frontier \ popped
      /\ h.depth = Catalog.depth /\ h.found = Catalog.found
      /\ h.artifactIds = Catalog.artifactIds /\ h.cas = Catalog.cas
      /\ h.acquisitions = Catalog.acquisitions
  BY <1>2, PoppedCatalog DEF h
<1>4. /\ Catalog.status = status /\ Catalog.row = row
      /\ Catalog.frontier = frontier /\ Catalog.depth = depth
      /\ Catalog.found = found /\ Catalog.artifactIds = artifactIds
      /\ Catalog.cas = cas /\ Catalog.acquisitions = acquisitions
  BY DEF Catalog
<1>5. QED BY <1>1, <1>3, <1>4 DEF SetCatalog, popped, chosen

LEMMA InitCatalogType == InitCatalog \in Catalogs
<1>1. Sorted(Seeds) \in Seq(Url)
  <2>1. Seeds \in SUBSET Url
    BY EngineAssumption
  <2>2. Sorted(Seeds) \in Seq(Seeds)
    BY <2>1, SortedEnumerates
  <2>3. QED BY <2>1, <2>2
<1>2. [status |-> [u \in Url |-> "absent"], depth |-> [u \in Url |-> 0],
       row |-> [u \in Url |-> "absent"], frontier |-> {}, found |-> 0,
       artifactIds |-> {}, cas |-> {}, acquisitions |-> {}] \in Catalogs
  BY EngineAssumption DEF Catalogs, Status
<1>3. QED BY <1>1, <1>2, DiscoverLinksType DEF InitCatalog

LEMMA InitTypes == Init => TypeOK /\ Progress
<1> SUFFICES ASSUME Init PROVE TypeOK /\ Progress
  OBVIOUS
<1>1. InitCatalog \in Catalogs
  BY InitCatalogType
<1>2. /\ status \in [Url -> Status] /\ row \in [Url -> Status]
      /\ depth \in [Url -> Nat] /\ frontier \subseteq Url
      /\ found \in 0..MaxDiscoveries
  BY <1>1 DEF Init, Catalogs
<1>3. task \in [Url -> TaskState] /\ got \in [Url -> Nat] /\ cause \in Cause
  BY DEF Init, TaskState, Cause
<1>4. {0} \subseteq 0..MaxPages \cap 0..MaxTotalBytes \cap 0..MaxStops
  BY EngineAssumption
<1>5. QED BY <1>2, <1>3, <1>4 DEF Init, TypeOK, Progress

\* A catalog handler leaves a catalog of the right type.
LEMMA SetCatalogType ==
    ASSUME NEW g \in Catalogs, SetCatalog(g)
    PROVE  /\ status' \in [Url -> Status] /\ row' \in [Url -> Status]
           /\ depth' \in [Url -> Nat] /\ frontier' \subseteq Url
           /\ found' \in 0..MaxDiscoveries
           /\ artifactIds' \subseteq Content /\ cas' \subseteq Content
           /\ acquisitions' \subseteq Url \X Content
BY DEF SetCatalog, Catalogs

LEMMA TaskTypes ==
    ASSUME TypeOK, Progress, NEW u \in Url,
           StartFetch(u) \/ Receive(u) \/ FinishFetch(u) \/ CancelFetch(u)
    PROVE  TypeOK' /\ Progress'
<1> USE DEF TypeOK, TaskState, Status, Progress, control
<1>1. CASE StartFetch(u)
  BY <1>1 DEF StartFetch
<1>2. CASE Receive(u)
  <2>1. used' \in 0..MaxTotalBytes /\ got' \in [Url -> Nat]
    BY <1>2, EngineAssumption DEF Receive
  <2>2. /\ task' \in [Url -> TaskState] /\ pending' \subseteq Url
        /\ lost' \subseteq Url
    BY <1>2 DEF Receive, Overrun, Discarded
  <2>3. QED BY <1>2, <2>1, <2>2 DEF Receive, catalog
<1>3. CASE FinishFetch(u)
  BY <1>3 DEF FinishFetch, catalog, Discarded
<1>4. CASE CancelFetch(u)
  BY <1>4 DEF CancelFetch, catalog, Discarded
<1>5. QED BY <1>1, <1>2, <1>3, <1>4

LEMMA StepTypes == TypeOK /\ Progress /\ [Next]_vars => TypeOK' /\ Progress'
<1> SUFFICES ASSUME TypeOK, Progress, [Next]_vars PROVE TypeOK' /\ Progress'
  OBVIOUS
<1>c. Catalog \in Catalogs
  BY CatalogType
<1>s. site \in Sites
  BY DEF TypeOK
<1>u. Undone \subseteq Url
  BY DEF Undone
<1>1. CASE StartLevel
  <2> DEFINE popped == PopLevel(Catalog)
             chosen == First(popped, fetchCount)
  <2>1. popped \in SUBSET Url
    BY DEF PopLevel, Catalog, TypeOK
  <2>2. fetchCount \in 0..MaxPages
    BY DEF TypeOK
  <2>3. chosen \in SUBSET Url /\ fetchCount + Cardinality(chosen) \in 0..MaxPages
    BY <2>1, <2>2, FirstBound
  <2>4. status' = [u \in Url |-> IF u \in popped \ chosen THEN "rejected" ELSE status[u]]
        /\ row' = [u \in Url |-> IF u \in popped \ chosen THEN "rejected" ELSE row[u]]
        /\ frontier' = frontier \ popped
        /\ UNCHANGED <<depth, found, artifactIds, cas, acquisitions>>
    BY <1>1, StartLevelCatalog
  <2>5. status' \in [Url -> Status] /\ row' \in [Url -> Status] /\ frontier' \subseteq Url
    BY <2>4 DEF TypeOK, Status
  <2>6. CASE chosen = {}
    BY <1>1, <2>4, <2>5, <2>6, <1>u DEF StartLevel, EnterFinally, ToCancel, TypeOK, Progress, Cause
  <2>7. CASE chosen # {}
    <3>1. /\ run' = "gather" /\ level' = chosen
          /\ fetchCount' = fetchCount + Cardinality(chosen)
          /\ task' = [u \in Url |-> IF u \in chosen THEN "waiting" ELSE task[u]]
          /\ UNCHANGED <<cause, cancelReq>>
      BY <1>1, <2>7 DEF StartLevel
    <3>2. task' \in [Url -> TaskState]
      BY <3>1 DEF TypeOK, TaskState
    <3>3. run = "pop" /\ todo = {} /\ todo' = {}
      BY <1>1 DEF StartLevel, Progress
    <3> HIDE DEF chosen, popped
    <3>4. QED BY <1>1, <2>3, <2>4, <2>5, <2>7, <3>1, <3>2, <3>3 DEF StartLevel, TypeOK, Progress
  <2>8. QED BY <2>6, <2>7
<1>2. CASE GatherReturns
  BY <1>2 DEF GatherReturns, TypeOK, Progress, tasks, catalog
<1>3. CASE GatherRaises
  BY <1>3, <1>u DEF GatherRaises, EnterFinally, ToCancel, TypeOK, Progress, catalog, Cause
<1>4. CASE PublishItem
  <2> DEFINE u == Least(todo)
             g == Settle(Catalog, u)
  <2>1. todo # {} /\ todo \in SUBSET Url /\ level \in SUBSET Url
    BY <1>4 DEF PublishItem, Progress, TypeOK
  <2>2. u \in Url
    BY <2>1, LeastIsOne
  <2>3. g \in Catalogs
    BY <1>c, <1>s, <2>2, SettleType
  <2>4. SetCatalog(g) /\ todo' = todo \ {u} /\ pending' = pending \ {u}
        /\ (IF todo = {u} THEN run' = "pop" /\ results' = {} ELSE UNCHANGED <<run, results>>)
    BY <1>4 DEF PublishItem
  <2> HIDE DEF u, g
  <2>5. /\ status' \in [Url -> Status] /\ row' \in [Url -> Status]
        /\ depth' \in [Url -> Nat] /\ frontier' \subseteq Url
        /\ found' \in 0..MaxDiscoveries
        /\ artifactIds' \subseteq Content /\ cas' \subseteq Content
        /\ acquisitions' \subseteq Url \X Content
    BY <2>3, <2>4, SetCatalogType
  <2>6. run = "publish" /\ Progress'
    BY <1>4, <2>1, <2>4 DEF PublishItem, Progress
  <2>7. run' \in {"pop", "publish"} /\ results' \subseteq Url /\ pending' \subseteq Url
        /\ todo' \subseteq level
    BY <2>4, <2>6 DEF TypeOK
  <2>8. QED BY <1>4, <2>5, <2>6, <2>7 DEF PublishItem, TypeOK
<1>5. CASE PublishFaults
  <2> DEFINE u == Least(todo)
             g == Sealed(Catalog, u, site[u].content)
  <2>1. todo # {} /\ todo \in SUBSET Url
    BY <1>5 DEF PublishFaults, Progress, TypeOK
  <2>2. u \in Url
    BY <2>1, LeastIsOne
  <2>3. g \in Catalogs
    BY <1>c, <1>s, <2>2, SealedEffect
  <2>4. \/ UNCHANGED <<catalog, pending>>
        \/ SetCatalog(g) /\ pending' = pending \ {u}
    BY <1>5 DEF PublishFaults
  <2> HIDE DEF u, g
  <2>5. /\ status' \in [Url -> Status] /\ row' \in [Url -> Status]
        /\ depth' \in [Url -> Nat] /\ frontier' \subseteq Url
        /\ found' \in 0..MaxDiscoveries
        /\ artifactIds' \subseteq Content /\ cas' \subseteq Content
        /\ acquisitions' \subseteq Url \X Content /\ pending' \subseteq Url
    <3>1. CASE UNCHANGED <<catalog, pending>>
      BY <3>1 DEF catalog, TypeOK
    <3>2. CASE SetCatalog(g) /\ pending' = pending \ {u}
      BY <2>3, <3>2, SetCatalogType DEF TypeOK
    <3>3. QED BY <2>4, <3>1, <3>2
  <2>6. QED
    BY <1>5, <1>u, <2>5 DEF PublishFaults, EnterFinally, ToCancel, TypeOK, Progress, Cause
<1>6. CASE Unwind
  BY <1>6 DEF Unwind, TypeOK, Progress, Status
<1>7. CASE Stop
  <2>1. stops' \in 0..MaxStops
    BY <1>7, EngineAssumption DEF Stop, TypeOK
  <2>2. /\ run' \in {run, "unwind", "ended"} /\ (run' = "gather" => run = "gather")
        /\ cause' \in Cause
        /\ cancelReq' \subseteq Url /\ {stopHit', interrupted'} \subseteq BOOLEAN
    BY <1>7, <1>u DEF Stop, StopAtGather, StopAtPublish, StopAtUnwind, EnterFinally,
       ToCancel, TypeOK, Cause
  <2>3. QED BY <1>7, <2>1, <2>2 DEF Stop, catalog, TypeOK, Progress
<1>8. CASE Network
  BY <1>8, TaskTypes DEF Network
<1>9. CASE \E u \in Url : CancelFetch(u)
  BY <1>9, TaskTypes
<1>10. CASE UNCHANGED vars
  BY <1>10 DEF vars, catalog, tasks, control, TypeOK, Progress
<1>11. QED
  BY <1>1, <1>2, <1>3, <1>4, <1>5, <1>6, <1>7, <1>8, <1>9, <1>10
     DEF Next, RunStep, Ended

\* Types, for every site and policy: among them that a job counts no more
\* discoveries, pages and bytes than its limits allow.
THEOREM TypesHold == Spec => [](TypeOK /\ Progress)
BY InitTypes, StepTypes, PTL DEF Spec

\* The type invariant of the crawl job.
THEOREM TypeCorrect == Spec => []TypeOK
BY TypesHold, PTL

-----------------------------------------------------------------------------
(***************************************************************************)
(* The catalog in memory, the resource rows and the acquisitions table.    *)
(* While the level loop runs the three agree; a publish that raises leaves *)
(* one resource that only memory calls acquired, and the job then unwinds  *)
(* without publishing anything further.                                    *)
(***************************************************************************)
Backed(g) ==
    \A u \in Url : /\ g.row[u] = "acquired" <=> <<u, site[u].content>> \in g.acquisitions
                   /\ g.row[u] = "acquired" => site[u].content \in g.cas

Agreeing(g) ==
    /\ \A u \in Url : g.row[u] = g.status[u]
    /\ \A u \in g.frontier : g.status[u] = "accepted"

\* the URLs of S are under way: neither queued nor settled
UnderWay(g, S) == \A u \in S : g.status[u] \in Unsettled /\ u \notin g.frontier

\* The URLs that a task or the publication loop still holds.
Busy ==
    Undone \cup (IF run = "gather" THEN level ELSE {})
           \cup (IF run = "publish" THEN todo ELSE {})

Rows ==
    /\ Backed(Catalog)
    /\ run \in {"pop", "gather", "publish"} => Agreeing(Catalog)
    /\ UnderWay(Catalog, Busy)
    /\ \A u \in Url : row[u] # status[u] =>
          /\ status[u] = "acquired" /\ row[u] \in Unsettled
          /\ cause = "internal" \/ interrupted
    /\ run = "ended" /\ ~interrupted => \A u \in Url : status[u] \notin Unsettled

LEMMA DiscoverRows ==
    ASSUME NEW g \in Catalogs, Backed(g), Agreeing(g), NEW S \in SUBSET Url,
           UnderWay(g, S), NEW u \in Url, NEW d \in Nat, NEW h,
           h = Discover(g, u, d)
    PROVE  /\ h \in Catalogs /\ Backed(h) /\ Agreeing(h) /\ UnderWay(h, S)
           /\ \A v \in Url : g.status[v] = "acquired" => h.status[v] = "acquired"
<1>e. /\ h \in Catalogs
      /\ \A v \in Url \ {u} : /\ h.status[v] = g.status[v]
                              /\ h.row[v] = g.row[v]
                              /\ v \in h.frontier <=> v \in g.frontier
      /\ h.cas = g.cas /\ h.acquisitions = g.acquisitions
      /\ \/ h = g
         \/ /\ h.status[u] = g.status[u] /\ h.row[u] = g.status[u]
            /\ h.frontier = g.frontier
         \/ /\ ~Known(g, u)
            /\ h.status[u] \in {"accepted", "rejected"}
            /\ h.row[u] = h.status[u]
            /\ h.frontier = IF h.status[u] = "accepted"
                            THEN g.frontier \cup {u} ELSE g.frontier
  <2>1. DiscoverOutcome(g, u, d, h)
    BY DiscoverEffect
  <2>2. QED BY <2>1 DEF DiscoverOutcome
<1> USE DEF Backed, Agreeing, UnderWay, Unsettled
<1>1. CASE h = g
  BY <1>1
<1>2. CASE h.status[u] = g.status[u] /\ h.row[u] = g.status[u] /\ h.frontier = g.frontier
  <2>1. \A v \in Url : h.status[v] = g.status[v] /\ h.row[v] = g.row[v]
    BY <1>e, <1>2
  <2>2. h.frontier \subseteq Url
    BY <1>e DEF Catalogs
  <2>3. Backed(h)
    BY <1>e, <2>1
  <2>4. Agreeing(h)
    BY <1>2, <2>1, <2>2
  <2>5. UnderWay(h, S)
    BY <1>2, <2>1
  <2>6. QED BY <1>e, <2>1, <2>3, <2>4, <2>5
<1>3. CASE /\ ~Known(g, u) /\ h.status[u] \in {"accepted", "rejected"}
           /\ h.row[u] = h.status[u]
           /\ h.frontier = IF h.status[u] = "accepted"
                           THEN g.frontier \cup {u} ELSE g.frontier
  <2>1. g.status[u] = "absent" /\ g.row[u] = "absent" /\ u \notin S
    BY <1>3 DEF Known
  <2>2. ASSUME NEW v \in Url, v # u
        PROVE  h.status[v] = g.status[v] /\ h.row[v] = g.row[v]
               /\ (v \in h.frontier <=> v \in g.frontier)
    BY <1>e, <2>2
  <2>3. h.frontier \subseteq Url /\ S \subseteq Url
    BY <1>e DEF Catalogs
  <2>4. Backed(h)
    BY <1>e, <1>3, <2>1, <2>2
  <2>5. Agreeing(h)
    <3>1. \A v \in Url : h.row[v] = h.status[v]
      BY <1>3, <2>2
    <3>2. ASSUME NEW v \in h.frontier PROVE h.status[v] = "accepted"
      <4>1. CASE v = u
        BY <1>3, <2>1, <3>2, <4>1
      <4>2. CASE v # u
        BY <2>2, <2>3, <3>2, <4>2
      <4>3. QED BY <4>1, <4>2
    <3>3. QED BY <3>1, <3>2
  <2>6. UnderWay(h, S)
    BY <2>1, <2>2, <2>3
  <2>7. QED BY <1>e, <2>1, <2>2, <2>4, <2>5, <2>6
<1>4. QED BY <1>e, <1>1, <1>2, <1>3

LEMMA DiscoverLinksRows ==
    ASSUME NEW g \in Catalogs, Backed(g), Agreeing(g), NEW S \in SUBSET Url,
           UnderWay(g, S), NEW links \in Seq(Url), NEW d \in Nat
    PROVE  LET h == DiscoverLinks(g, links, d)
           IN  h \in Catalogs /\ Backed(h) /\ Agreeing(h) /\ UnderWay(h, S)
<1> DEFINE C == {h \in Catalogs : Backed(h) /\ Agreeing(h) /\ UnderWay(h, S)}
<1>1. g \in C
  OBVIOUS
<1>2. ASSUME NEW h \in C, NEW i \in 1..Len(links)
      PROVE  Discover(h, links[i], d) \in C
  <2>1. links[i] \in Url
    OBVIOUS
  <2>2. QED BY <2>1, DiscoverRows
<1>3. DiscoverLinks(g, links, d) \in C
  <2> HIDE DEF C
  <2> QED BY <1>1, <1>2, DiscoverLinksKeeps
<1>4. QED BY <1>3

\* One settled item leaves the rows in agreement, and the others under way.
LEMMA CommitRows ==
    ASSUME NEW g \in Catalogs, site \in Sites, Backed(g), Agreeing(g),
           NEW S \in SUBSET Url, UnderWay(g, S), NEW u \in S,
           NEW h, h = Commit(g, u, site[u]) \/ h = Mark(g, u, "failed")
    PROVE  h \in Catalogs /\ Backed(h) /\ Agreeing(h) /\ UnderWay(h, S \ {u})
<1>u. u \in Url /\ g.status[u] \in {"accepted", "fetching"} /\ u \notin g.frontier
      /\ g.row[u] = g.status[u]
  BY DEF UnderWay, Unsettled, Agreeing
<1>1. ASSUME NEW s \in {"failed", "rejected"}, h = Mark(g, u, s)
      PROVE  h \in Catalogs /\ Backed(h) /\ Agreeing(h) /\ UnderWay(h, S \ {u})
  <2>1. s \in Status
    BY DEF Status
  <2>2. /\ h \in Catalogs
        /\ h.status = [g.status EXCEPT ![u] = s]
        /\ h.row = [g.row EXCEPT ![u] = s]
        /\ h.frontier = g.frontier
        /\ h.cas = g.cas /\ h.acquisitions = g.acquisitions
    BY <1>u, <1>1, <2>1, MarkEffect
  <2>3. \A v \in Url : /\ h.status[v] = IF v = u THEN s ELSE g.status[v]
                       /\ h.row[v] = IF v = u THEN s ELSE g.row[v]
    BY <2>2 DEF Catalogs
  <2>4. Backed(h)
    BY <1>u, <2>2, <2>3 DEF Backed
  <2>5. Agreeing(h)
    <3>1. g.frontier \subseteq Url
      BY DEF Catalogs
    <3>2. QED BY <1>u, <2>2, <2>3, <3>1 DEF Agreeing
  <2>6. UnderWay(h, S \ {u})
    BY <2>2, <2>3 DEF UnderWay
  <2>7. QED BY <2>2, <2>4, <2>5, <2>6
<1>2. ASSUME h = DiscoverLinks(Published(Sealed(g, u, site[u].content), u, site[u].content), site[u].links, g.depth[u] + 1)
      PROVE  h \in Catalogs /\ Backed(h) /\ Agreeing(h) /\ UnderWay(h, S \ {u})
  <2> DEFINE s == Sealed(g, u, site[u].content)
             p == Published(s, u, site[u].content)
  <2>1. /\ s \in Catalogs
        /\ s.status = [g.status EXCEPT ![u] = "acquired"]
        /\ s.cas = g.cas \cup {site[u].content}
        /\ s.row = g.row /\ s.frontier = g.frontier
        /\ s.acquisitions = g.acquisitions
    BY <1>u, SealedEffect
  <2>p. p = Published(s, u, site[u].content)
    OBVIOUS
  <2> HIDE DEF s, p
  <2>2. /\ p \in Catalogs
        /\ p.row = [s.row EXCEPT ![u] = "acquired"]
        /\ p.acquisitions = s.acquisitions \cup {<<u, site[u].content>>}
        /\ p.status = s.status /\ p.frontier = s.frontier /\ p.cas = s.cas
    BY <1>u, <2>1, <2>p, PublishedEffect
  <2>3. \A v \in Url : /\ p.status[v] = IF v = u THEN "acquired" ELSE g.status[v]
                       /\ p.row[v] = IF v = u THEN "acquired" ELSE g.row[v]
    BY <2>1, <2>2 DEF Catalogs
  <2>4. Backed(p)
    <3> SUFFICES ASSUME NEW v \in Url
                 PROVE  /\ p.row[v] = "acquired" <=> <<v, site[v].content>> \in p.acquisitions
                        /\ p.row[v] = "acquired" => site[v].content \in p.cas
      BY DEF Backed
    <3>1. CASE v = u
      BY <2>1, <2>2, <2>3, <3>1
    <3>2. CASE v # u
      <4>1. /\ g.row[v] = "acquired" <=> <<v, site[v].content>> \in g.acquisitions
            /\ g.row[v] = "acquired" => site[v].content \in g.cas
        BY DEF Backed
      <4>2. <<v, site[v].content>> # <<u, site[u].content>>
        BY <3>2
      <4>3. QED BY <2>1, <2>2, <2>3, <3>2, <4>1, <4>2
    <3>3. QED BY <3>1, <3>2
  <2>5. Agreeing(p)
    <3>1. g.frontier \subseteq Url
      BY DEF Catalogs
    <3>2. QED BY <1>u, <2>1, <2>2, <2>3, <3>1 DEF Agreeing
  <2>6. UnderWay(p, S \ {u})
    BY <2>1, <2>2, <2>3 DEF UnderWay
  <2>7. g.depth[u] + 1 \in Nat /\ site[u].links \in Seq(Url) /\ S \ {u} \in SUBSET Url
    BY <1>u, SiteType DEF Catalogs
  <2>8. h = DiscoverLinks(p, site[u].links, g.depth[u] + 1)
    BY <1>2 DEF s, p
  <2>9. QED BY <2>2, <2>4, <2>5, <2>6, <2>7, <2>8, DiscoverLinksRows
<1>3. QED BY <1>u, <1>1, <1>2, CommitCases

\* Before the first level nothing is stored, and no row says acquired.
LEMMA InitCatalogRows ==
    /\ InitCatalog \in Catalogs /\ Backed(InitCatalog) /\ Agreeing(InitCatalog)
    /\ InitCatalog.artifactIds = {} /\ InitCatalog.cas = {}
    /\ InitCatalog.acquisitions = {}
<1> DEFINE g == [status |-> [u \in Url |-> "absent"], depth |-> [u \in Url |-> 0],
                 row |-> [u \in Url |-> "absent"], frontier |-> {}, found |-> 0,
                 artifactIds |-> {}, cas |-> {}, acquisitions |-> {}]
           C == {h \in Catalogs : /\ Backed(h) /\ Agreeing(h)
                                  /\ h.artifactIds = {} /\ h.cas = {}
                                  /\ h.acquisitions = {}}
<1>1. Sorted(Seeds) \in Seq(Url)
  <2>1. Seeds \in SUBSET Url
    BY EngineAssumption
  <2>2. Sorted(Seeds) \in Seq(Seeds)
    BY <2>1, SortedEnumerates
  <2>3. QED BY <2>1, <2>2
<1>2. g \in C
  BY EngineAssumption DEF Catalogs, Status, Backed, Agreeing
<1>3. ASSUME NEW h \in C, NEW i \in 1..Len(Sorted(Seeds))
      PROVE  Discover(h, Sorted(Seeds)[i], 0) \in C
  <2>1. Sorted(Seeds)[i] \in Url
    BY <1>1
  <2> DEFINE k == Discover(h, Sorted(Seeds)[i], 0)
  <2>2. DiscoverOutcome(h, Sorted(Seeds)[i], 0, k)
    BY <2>1, DiscoverEffect
  <2>3. k \in Catalogs /\ Backed(k) /\ Agreeing(k)
    <3>1. {} \in SUBSET Url /\ UnderWay(h, {})
      BY DEF UnderWay
    <3>2. QED BY <2>1, <3>1, DiscoverRows
  <2> HIDE DEF k
  <2>4. k.artifactIds = {} /\ k.cas = {} /\ k.acquisitions = {}
    BY <2>2 DEF DiscoverOutcome
  <2>5. k \in C
    BY <2>3, <2>4
  <2>6. QED BY <2>5 DEF k
<1>4. DiscoverLinks(g, Sorted(Seeds), 0) \in C
  <2> HIDE DEF C, g
  <2> QED BY <1>1, <1>2, <1>3, DiscoverLinksKeeps
<1>5. InitCatalog = DiscoverLinks(g, Sorted(Seeds), 0)
  BY DEF InitCatalog
<1>6. QED BY <1>4, <1>5

LEMMA InitIsInitCatalog == Init => Catalog = InitCatalog
<1> SUFFICES ASSUME Init PROVE Catalog = InitCatalog
  OBVIOUS
<1> DEFINE g == InitCatalog
<1>1. /\ g \in Catalogs /\ g.artifactIds = {} /\ g.cas = {} /\ g.acquisitions = {}
  BY InitCatalogRows
<1>2. Catalog = [status |-> g.status, depth |-> g.depth, row |-> g.row,
                 frontier |-> g.frontier, found |-> g.found,
                 artifactIds |-> {}, cas |-> {}, acquisitions |-> {}]
  BY DEF Init, Catalog
<1> HIDE DEF g
<1>3. Catalog = g
  BY <1>1, <1>2 DEF Catalogs
<1>4. QED BY <1>3 DEF g

LEMMA InitRows == Init => Rows
<1> SUFFICES ASSUME Init PROVE Rows
  OBVIOUS
<1>1. Backed(Catalog) /\ Agreeing(Catalog)
  BY InitCatalogRows, InitIsInitCatalog
<1>2. run = "pop" /\ Busy = {}
  BY DEF Init, Busy, Undone
<1>3. \A u \in Url : row[u] = status[u]
  BY <1>1 DEF Agreeing, Catalog
<1>4. QED BY <1>1, <1>2, <1>3 DEF Rows, UnderWay

\* SetCatalog makes the given catalog the next one.
LEMMA SetCatalogIs ==
    ASSUME NEW g \in Catalogs, SetCatalog(g)
    PROVE  Catalog' = g
BY DEF SetCatalog, Catalog, Catalogs

LEMMA SameCatalog == UNCHANGED catalog => Catalog' = Catalog
BY DEF catalog, Catalog

LEMMA TaskRows ==
    ASSUME Rows, TypeOK, Ownership, NEW u \in Url, site' = site,
           StartFetch(u) \/ Receive(u) \/ FinishFetch(u) \/ CancelFetch(u)
    PROVE  Rows'
<1>t. task \in [Url -> TaskState] /\ u \in Undone
  BY DEF TypeOK, Undone, StartFetch, Receive, FinishFetch, CancelFetch
<1>b. UNCHANGED <<run, cause, level, todo, interrupted>>
  BY DEF StartFetch, Receive, FinishFetch, CancelFetch, control
<1>c. u \in Busy
  BY <1>t DEF Busy
<1>1. CASE StartFetch(u)
  <2>1. Undone' = Undone
    BY <1>1, <1>t DEF StartFetch, Undone
  <2>2. Busy' = Busy
    BY <1>b, <2>1 DEF Busy
  <2>3. status[u] \in Unsettled /\ u \notin frontier
    BY <1>c DEF Rows, UnderWay, Catalog
  <2>4. /\ status' = [status EXCEPT ![u] = "fetching"]
        /\ row' = [row EXCEPT ![u] = "fetching"]
        /\ UNCHANGED <<frontier, cas, acquisitions>>
    BY <1>1 DEF StartFetch
  <2>5. \A v \in Url : /\ status'[v] = IF v = u THEN "fetching" ELSE status[v]
                       /\ row'[v] = IF v = u THEN "fetching" ELSE row[v]
    BY <2>4 DEF TypeOK
  <2>6. row[u] # "acquired"
    <3>1. row[u] = status[u] \/ row[u] \in Unsettled
      BY DEF Rows
    <3>2. QED BY <2>3, <3>1 DEF Unsettled
  <2>7. Backed(Catalog)'
    BY <2>4, <2>5, <2>6 DEF Rows, Backed, Catalog
  <2>8. run \in {"pop", "gather", "publish"} => Agreeing(Catalog)'
    BY <2>3, <2>4, <2>5 DEF Rows, Agreeing, Catalog, TypeOK
  <2>9. UnderWay(Catalog, Busy)'
    <3>1. Busy \subseteq Url
      BY DEF Busy, Undone, TypeOK
    <3>2. QED BY <2>2, <2>4, <2>5, <3>1 DEF Rows, UnderWay, Catalog, Unsettled
  <2>10. \A v \in Url : row'[v] # status'[v] =>
            /\ status'[v] = "acquired" /\ row'[v] \in Unsettled
            /\ cause = "internal" \/ interrupted
    BY <2>5 DEF Rows
  <2>11. run = "ended" /\ ~interrupted => FALSE
    BY <1>t DEF Ownership, Stages
  <2>12. QED BY <1>b, <2>7, <2>8, <2>9, <2>10, <2>11 DEF Rows
<1>2. CASE Receive(u) \/ FinishFetch(u) \/ CancelFetch(u)
  <2>1. UNCHANGED catalog
    BY <1>2 DEF Receive, FinishFetch, CancelFetch
  <2>2. Catalog' = Catalog /\ status' = status /\ row' = row
    BY <2>1, SameCatalog DEF catalog
  <2>3. Undone' \subseteq Undone
    <3>1. \E s \in TaskState \ {"waiting"} :
             task' = [task EXCEPT ![u] = s] \/ task' = task
      <4>1. CASE Receive(u)
        BY <4>1 DEF Receive, Overrun, TaskState
      <4>2. CASE FinishFetch(u) \/ CancelFetch(u)
        BY <4>2 DEF FinishFetch, CancelFetch, TaskState
      <4>3. QED BY <1>2, <4>1, <4>2
    <3>2. QED BY <1>t, <3>1 DEF Undone
  <2>4. Busy' \subseteq Busy
    BY <1>b, <2>3 DEF Busy
  <2>5. Backed(Catalog)' /\ (Agreeing(Catalog) => Agreeing(Catalog)')
    BY <2>2 DEF Rows, Backed, Agreeing
  <2>6. UnderWay(Catalog, Busy)'
    BY <2>2, <2>4 DEF Rows, UnderWay
  <2>7. QED BY <1>b, <2>2, <2>5, <2>6 DEF Rows
<1>3. QED BY <1>1, <1>2

LEMMA StepRows ==
    Rows /\ TypeOK /\ Progress /\ Ownership /\ [Next]_vars => Rows'
<1> SUFFICES ASSUME Rows, TypeOK, Progress, Ownership, [Next]_vars PROVE Rows'
  OBVIOUS
<1>c. Catalog \in Catalogs
  BY CatalogType
<1>s. site \in Sites /\ site' = site
  BY DEF TypeOK, Next, RunStep, StartLevel, GatherReturns, GatherRaises, PublishItem,
     PublishFaults, Unwind, Stop, Network, StartFetch, Receive, FinishFetch,
     CancelFetch, Ended, vars
<1>b. Busy \subseteq Url /\ Undone \subseteq Url
  BY DEF Busy, Undone, TypeOK
<1>1. CASE StartLevel
  <2> DEFINE popped == PopLevel(Catalog)
             chosen == First(popped, fetchCount)
             out == popped \ chosen
  <2>1. popped \subseteq frontier /\ chosen \subseteq popped /\ frontier \subseteq Url
    BY DEF PopLevel, Catalog, TypeOK, First
  <2>2. /\ status' = [u \in Url |-> IF u \in out THEN "rejected" ELSE status[u]]
        /\ row' = [u \in Url |-> IF u \in out THEN "rejected" ELSE row[u]]
        /\ frontier' = frontier \ popped
        /\ UNCHANGED <<cas, acquisitions, interrupted, todo>> /\ run = "pop"
    BY <1>1, StartLevelCatalog DEF StartLevel
  <2>3. Agreeing(Catalog) /\ Undone = {}
    BY <2>2 DEF Rows, Ownership, Stages
  <2>4. \A u \in popped : status[u] = "accepted" /\ row[u] = "accepted"
    BY <2>1, <2>3 DEF Agreeing, Catalog
  <2>5. \/ run' = "unwind" /\ task' = task
        \/ /\ run' = "gather" /\ level' = chosen
           /\ task' = [u \in Url |-> IF u \in chosen THEN "waiting" ELSE task[u]]
    BY <1>1 DEF StartLevel, EnterFinally
  <2>6. Busy' \subseteq chosen
    BY <2>3, <2>5 DEF Busy, Undone, TypeOK
  <2> HIDE DEF popped, chosen
  <2>7. Backed(Catalog)'
    BY <1>s, <2>1, <2>2, <2>4 DEF Rows, Backed, Catalog
  <2>8. \A u \in Url : row'[u] = status'[u]
    BY <2>2, <2>3 DEF Agreeing, Catalog
  <2>9. Agreeing(Catalog)'
    BY <2>1, <2>2, <2>3, <2>8 DEF Agreeing, Catalog
  <2>10. UnderWay(Catalog, Busy)'
    BY <2>1, <2>2, <2>4, <2>6 DEF UnderWay, Catalog, Unsettled
  <2>11. run' # "ended"
    BY <2>5
  <2>12. QED BY <2>7, <2>8, <2>9, <2>10, <2>11 DEF Rows
<1>2. CASE GatherReturns
  <2>1. UNCHANGED <<catalog, cause, interrupted, task>> /\ run = "gather"
        /\ run' = "publish" /\ todo' = level
    BY <1>2 DEF GatherReturns, tasks
  <2>2. Catalog' = Catalog /\ status' = status /\ row' = row
    BY <2>1, SameCatalog DEF catalog
  <2>3. Busy' = Busy
    BY <2>1 DEF Busy, Undone
  <2>4. QED BY <1>s, <2>1, <2>2, <2>3 DEF Rows, Backed, Agreeing, UnderWay
<1>3. CASE GatherRaises
  <2>1. UNCHANGED <<catalog, interrupted, task>> /\ run = "gather" /\ run' = "unwind"
    BY <1>3 DEF GatherRaises, EnterFinally
  <2>2. Catalog' = Catalog /\ status' = status /\ row' = row
    BY <2>1, SameCatalog DEF catalog
  <2>3. Busy' \subseteq Busy
    BY <2>1 DEF Busy, Undone
  <2>4. \A u \in Url : row[u] = status[u]
    BY <2>1 DEF Rows, Agreeing, Catalog
  <2>5. QED BY <1>s, <2>1, <2>2, <2>3, <2>4 DEF Rows, Backed, UnderWay
<1>4. CASE PublishItem
  <2> DEFINE u == Least(todo)
             g == Settle(Catalog, u)
  <2>1. /\ run = "publish" /\ SetCatalog(g) /\ todo' = todo \ {u}
        /\ UNCHANGED <<cause, interrupted, task>> /\ run' \in {"pop", "publish"}
    BY <1>4 DEF PublishItem
  <2>2. todo # {} /\ todo \in SUBSET Url /\ Undone = {}
    BY <2>1 DEF Progress, TypeOK, Ownership, Stages
  <2>3. u \in todo
    BY <2>2, LeastIsOne
  <2>4. Backed(Catalog) /\ Agreeing(Catalog) /\ UnderWay(Catalog, todo)
    BY <2>1 DEF Rows, UnderWay, Busy
  <2>5. g \in Catalogs /\ Backed(g) /\ Agreeing(g) /\ UnderWay(g, todo \ {u})
    BY <1>c, <1>s, <2>2, <2>3, <2>4, SettleCases, CommitRows
  <2>6. Catalog' = g
    BY <2>1, <2>5, SetCatalogIs
  <2>7. Busy' \subseteq todo \ {u}
    <3>1. Undone' = {}
      BY <2>1, <2>2 DEF Undone
    <3>2. QED BY <2>1, <3>1 DEF Busy
  <2> HIDE DEF u, g
  <2>8. Backed(Catalog)' /\ Agreeing(Catalog)'
    BY <1>s, <2>5, <2>6 DEF Backed, Agreeing
  <2>9. UnderWay(Catalog, Busy)'
    BY <2>5, <2>6, <2>7 DEF UnderWay
  <2>10. \A v \in Url : row'[v] = status'[v]
    BY <2>8 DEF Agreeing, Catalog
  <2>11. QED BY <2>1, <2>8, <2>9, <2>10 DEF Rows
<1>5. CASE PublishFaults
  <2> DEFINE u == Least(todo)
             g == Sealed(Catalog, u, site[u].content)
  <2>1. /\ run = "publish" /\ run' = "unwind" /\ cause' = "internal"
        /\ UNCHANGED <<interrupted, task>>
        /\ \/ UNCHANGED catalog
           \/ SetCatalog(g)
    BY <1>5 DEF PublishFaults, EnterFinally
  <2>2. todo # {} /\ todo \in SUBSET Url /\ Undone = {}
    BY <2>1 DEF Progress, TypeOK, Ownership, Stages
  <2>3. u \in todo
    BY <2>2, LeastIsOne
  <2>4. Backed(Catalog) /\ Agreeing(Catalog) /\ UnderWay(Catalog, todo)
    BY <2>1 DEF Rows, UnderWay, Busy
  <2>5. Busy' = {}
    BY <2>1, <2>2 DEF Busy, Undone
  <2>6. CASE UNCHANGED catalog
    <3>1. Catalog' = Catalog /\ status' = status /\ row' = row
      BY <2>6, SameCatalog DEF catalog
    <3>2. \A v \in Url : row[v] = status[v]
      BY <2>4 DEF Agreeing, Catalog
    <3>3. QED BY <1>s, <2>1, <2>4, <2>5, <3>1, <3>2 DEF Rows, Backed, UnderWay
  <2>7. CASE SetCatalog(g)
    <3>1. /\ g \in Catalogs
          /\ g.status = [Catalog.status EXCEPT ![u] = "acquired"]
          /\ g.cas = Catalog.cas \cup {site[u].content}
          /\ g.row = Catalog.row /\ g.acquisitions = Catalog.acquisitions
      BY <1>c, <1>s, <2>2, <2>3, SealedEffect
    <3>2. Catalog' = g
      BY <2>7, <3>1, SetCatalogIs
    <3>3. status[u] \in Unsettled /\ row[u] = status[u]
      BY <2>2, <2>3, <2>4 DEF UnderWay, Agreeing, Catalog
    <3> HIDE DEF u, g
    <3>4. status' = [status EXCEPT ![u] = "acquired"] /\ row' = row
      BY <3>1, <3>2 DEF Catalog
    <3>5. Backed(g)
      BY <2>4, <3>1 DEF Backed
    <3>6. Backed(Catalog)'
      BY <1>s, <3>2, <3>5 DEF Backed
    <3>7. \A v \in Url : row'[v] # status'[v] =>
             status'[v] = "acquired" /\ row'[v] \in Unsettled
      <4>1. \A v \in Url : row[v] = status[v]
        BY <2>4 DEF Agreeing, Catalog
      <4>2. QED BY <3>3, <3>4, <4>1 DEF TypeOK
    <3>8. QED BY <2>1, <2>5, <3>6, <3>7 DEF Rows, UnderWay
  <2>8. QED BY <2>1, <2>6, <2>7
<1>6. CASE Unwind
  <2> DEFINE stop == {u \in Url : status[u] \in Unsettled}
  <2>1. /\ status' = [u \in Url |-> IF u \in stop THEN "cancelled" ELSE status[u]]
        /\ row' = [u \in Url |-> IF u \in stop THEN "cancelled" ELSE row[u]]
        /\ run' = "ended"
        /\ UNCHANGED <<frontier, cas, acquisitions, cause, interrupted, task>>
        /\ Undone = {}
    BY <1>6 DEF Unwind
  <2>2. \A u \in stop : row[u] # "acquired"
    BY DEF Rows, Unsettled
  <2>3. Backed(Catalog)'
    BY <1>s, <2>1, <2>2 DEF Rows, Backed, Catalog
  <2>4. Busy' = {}
    BY <2>1 DEF Busy, Undone
  <2>5. \A u \in Url : row'[u] # status'[u] =>
          /\ status'[u] = "acquired" /\ row'[u] \in Unsettled
          /\ cause = "internal" \/ interrupted
    BY <2>1 DEF Rows
  <2>6. \A u \in Url : status'[u] \notin Unsettled
    BY <2>1 DEF Unsettled
  <2>7. QED BY <2>1, <2>3, <2>4, <2>5, <2>6 DEF Rows, UnderWay
<1>7. CASE Stop
  <2>1. UNCHANGED <<catalog, task, level, todo>>
    BY <1>7 DEF Stop
  <2>2. Catalog' = Catalog /\ status' = status /\ row' = row
    BY <2>1, SameCatalog DEF catalog
  <2>3. \/ UNCHANGED <<run, cause, interrupted>>
        \/ run = "publish" /\ run' = "unwind" /\ UNCHANGED interrupted
        \/ run = "unwind" /\ run' = "ended" /\ interrupted' = TRUE
    BY <1>7 DEF Stop, StopAtGather, StopAtPublish, StopAtUnwind, EnterFinally
  <2>4. Undone' = Undone
    BY <2>1 DEF Undone
  <2>5. Busy' \subseteq Busy
    BY <2>1, <2>3, <2>4 DEF Busy
  <2>6. \A u \in Url : run = "publish" => row[u] = status[u]
    BY DEF Rows, Agreeing, Catalog
  <2>7. QED BY <1>s, <2>2, <2>3, <2>5, <2>6 DEF Rows, Backed, Agreeing, UnderWay
<1>8. CASE Network
  BY <1>8, <1>s, TaskRows DEF Network
<1>9. CASE \E u \in Url : CancelFetch(u)
  BY <1>9, <1>s, TaskRows
<1>10. CASE UNCHANGED vars
  <2>1. /\ Catalog' = Catalog /\ status' = status /\ row' = row /\ site' = site
        /\ UNCHANGED <<task, run, level, todo, cause, interrupted>>
    BY <1>10 DEF vars, catalog, tasks, control, Catalog
  <2>2. Busy' = Busy
    BY <2>1 DEF Busy, Undone
  <2>3. QED BY <2>1, <2>2 DEF Rows, Backed, Agreeing, UnderWay
<1>11. QED
  BY <1>1, <1>2, <1>3, <1>4, <1>5, <1>6, <1>7, <1>8, <1>9, <1>10
     DEF Next, RunStep, Ended

\* The inductive invariant of the rows.
THEOREM RowsInvariant == Spec => []Rows
BY InitRows, StepRows, TypesHold, OwnershipInvariant, PTL DEF Spec

\* The acquired rows are those with an acquisitions entry, and the body they
\* name is in the store, after every step of every job (repository.py:124-139).
THEOREM MetadataBehindTheBlob == Spec => []AcquiredIsBacked
<1>1. Rows => AcquiredIsBacked
  BY DEF Rows, Backed, Catalog, AcquiredIsBacked
<1>2. QED BY <1>1, RowsInvariant, PTL

\* A finally block that ran to its end leaves no row accepted or fetching but
\* that of a publish that raised (engine.py:188-192, 246).
THEOREM RowsAreSettled == Spec => []RowsSettledAtEnd
<1>1. Rows => RowsSettledAtEnd
  <2> SUFFICES ASSUME Rows, run = "ended", ~interrupted, NEW u \in Url,
                      row[u] \in {"accepted", "fetching"}
               PROVE  cause = "internal" /\ status[u] = "acquired"
    BY DEF RowsSettledAtEnd
  <2>1. status[u] \notin Unsettled
    BY DEF Rows
  <2>2. row[u] # status[u]
    BY <2>1 DEF Unsettled
  <2>3. QED BY <2>2 DEF Rows
<1>2. QED BY <1>1, RowsInvariant, PTL

-----------------------------------------------------------------------------
(***************************************************************************)
(* Breadth first.  Whoever is known keeps the depth it was first given;    *)
(* while a level of depth n is published, every known URL has a depth of   *)
(* at most n + 1 and the frontier holds the URLs of depth n + 1, so the    *)
(* depth first given is the least.                                         *)
(***************************************************************************)
\* u has a depth of at most d, or was dropped and every later URL will be
Placed(g, u, d) ==
    IF Known(g, u) THEN g.depth[u] <= d ELSE g.found >= MaxDiscoveries

PlacedLinks(g, p) == \A u \in ToSet(site[p].links) : Placed(g, u, g.depth[p] + 1)

\* the URLs of Q as seeds, and the links of every acquired page not in P
Linked(g, Q, P) ==
    /\ \A u \in Q : Placed(g, u, 0)
    /\ \A p \in Url \ P : g.row[p] = "acquired" => PlacedLinks(g, p)

Shallow(g, d) ==
    /\ \A u \in Url : Known(g, u) => g.depth[u] <= d
    /\ \A u \in g.frontier : g.depth[u] = d

Kept(g, h) ==
    \A u \in Url : Known(g, u) => Known(h, u) /\ h.depth[u] = g.depth[u]

Levels ==
    /\ Linked(Catalog, Seeds, {})
    /\ run = "pop" => \A u \in frontier : \A v \in Url :
                         Known(Catalog, v) => depth[v] <= depth[u]
    /\ run = "gather" => /\ frontier = {}
                         /\ \A u \in level : \A v \in Url :
                               Known(Catalog, v) => depth[v] <= depth[u]
    /\ run = "publish" => \A u \in todo :
                             /\ \A w \in todo : depth[w] = depth[u]
                             /\ Shallow(Catalog, depth[u] + 1)

LEMMA DiscoverLevels ==
    ASSUME NEW g \in Catalogs, site \in Sites, Agreeing(g), NEW Q \in SUBSET Url, NEW P,
           Linked(g, Q, P),
           NEW d \in Nat, Shallow(g, d), NEW u \in Url, NEW h, h = Discover(g, u, d)
    PROVE  /\ h \in Catalogs /\ Agreeing(h)
           /\ Linked(h, Q, P) /\ Shallow(h, d) /\ Kept(g, h) /\ Placed(h, u, d)
           /\ \A v \in Url, e \in Nat : Placed(g, v, e) => Placed(h, v, e)
<1>o. DiscoverOutcome(g, u, d, h)
  BY DiscoverEffect
<1>h. h \in Catalogs
  BY <1>o DEF DiscoverOutcome
<1>a. Agreeing(h)
  <2> DEFINE S == {}
  <2>1. S \in SUBSET Url /\ UnderWay(g, S)
    BY DEF UnderWay
  <2>2. \A v \in Url \ {u} : /\ h.status[v] = g.status[v] /\ h.row[v] = g.row[v]
                             /\ v \in h.frontier <=> v \in g.frontier
    BY <1>o DEF DiscoverOutcome
  <2>3. h = g \/ h.row[u] = h.status[u]
    BY <1>o DEF DiscoverOutcome
  <2>4. \A v \in Url : h.row[v] = h.status[v]
    BY <2>2, <2>3 DEF Agreeing
  <2>5. ASSUME u \in h.frontier PROVE h.status[u] = "accepted"
    <3>1. CASE h = g
      BY <2>5, <3>1 DEF Agreeing
    <3>2. CASE h.status[u] = g.status[u] /\ h.frontier = g.frontier
      BY <2>5, <3>2 DEF Agreeing
    <3>3. CASE /\ ~Known(g, u)
               /\ h.frontier = IF h.status[u] = "accepted"
                               THEN g.frontier \cup {u} ELSE g.frontier
      <4>1. u \notin g.frontier
        BY <3>3 DEF Known, Agreeing
      <4>2. QED BY <2>5, <3>3, <4>1
    <3>4. QED BY <1>o, <3>1, <3>2, <3>3 DEF DiscoverOutcome
  <2>6. \A v \in h.frontier : v \in Url
    BY <1>h DEF Catalogs
  <2>7. QED BY <2>2, <2>4, <2>5, <2>6 DEF Agreeing
<1>n. g.found \in Nat /\ MaxDiscoveries \in Nat /\ \A v \in Url : g.depth[v] \in Nat
  BY EngineAssumption DEF Catalogs
<1>k. Kept(g, h)
  <2> SUFFICES ASSUME NEW v \in Url, Known(g, v)
               PROVE  Known(h, v) /\ h.depth[v] = g.depth[v]
    BY DEF Kept
  <2>1. CASE v = u
    BY <1>o, <2>1 DEF DiscoverOutcome, Known
  <2>2. CASE v # u
    BY <1>o, <2>2 DEF DiscoverOutcome, Known
  <2>3. QED BY <2>1, <2>2
<1>p. ASSUME NEW v \in Url, NEW e \in Nat, Placed(g, v, e) PROVE Placed(h, v, e)
  <2>1. CASE Known(g, v)
    BY <1>k, <1>p, <2>1 DEF Placed, Kept
  <2>2. CASE ~Known(g, v)
    <3>1. g.found >= MaxDiscoveries
      BY <1>p, <2>2 DEF Placed
    <3>2. h = g
      BY <1>n, <1>o, <3>1 DEF DiscoverOutcome
    <3>3. QED BY <1>p, <3>2
  <2>3. QED BY <2>1, <2>2
<1>u. Placed(h, u, d)
  <2>1. CASE h = g /\ g.found >= MaxDiscoveries
    BY <2>1 DEF Placed, Shallow
  <2>2. CASE Known(g, u)
    BY <1>k, <2>2 DEF Placed, Shallow, Kept
  <2>3. CASE ~Known(g, u) /\ g.found < MaxDiscoveries
    <3>1. h.status[u] \in {"accepted", "rejected"} /\ h.depth[u] = d
      BY <1>n, <1>o, <2>3 DEF DiscoverOutcome
    <3>2. QED BY <3>1 DEF Placed, Known
  <2>4. QED BY <1>o, <2>1, <2>2, <2>3 DEF DiscoverOutcome
<1>s. Shallow(h, d)
  <2>1. ASSUME NEW v \in Url, Known(h, v) PROVE h.depth[v] <= d
    <3>1. CASE v = u
      BY <1>u, <2>1, <3>1 DEF Placed
    <3>2. CASE v # u
      <4>1. h.status[v] = g.status[v] /\ h.depth[v] = g.depth[v]
        BY <1>o, <3>2 DEF DiscoverOutcome
      <4>2. QED BY <2>1, <4>1 DEF Known, Shallow
    <3>3. QED BY <3>1, <3>2
  <2>2. ASSUME NEW v \in h.frontier PROVE h.depth[v] = d
    <3>0. v \in Url
      BY <1>h DEF Catalogs
    <3>1. CASE v \in g.frontier
      <4>1. Known(g, v)
        BY <3>0, <3>1 DEF Agreeing, Known
      <4>2. QED BY <1>k, <3>0, <3>1, <4>1 DEF Kept, Shallow
    <3>2. CASE v \notin g.frontier
      <4>1. v = u
        BY <1>o, <3>0, <3>2, <2>2 DEF DiscoverOutcome
      <4>2. h.depth[u] = d
        BY <1>o, <3>2, <2>2, <4>1 DEF DiscoverOutcome
      <4>3. QED BY <4>1, <4>2
    <3>3. QED BY <3>1, <3>2
  <2>3. QED BY <2>1, <2>2 DEF Shallow
<1>l. Linked(h, Q, P)
  <2>1. \A v \in Q : Placed(h, v, 0)
    BY <1>p DEF Linked
  <2>2. ASSUME NEW p \in Url \ P, h.row[p] = "acquired",
               NEW v \in ToSet(site[p].links)
        PROVE  Placed(h, v, h.depth[p] + 1)
    <3>0. v \in Url
      <4>1. site[p].links \in Seq(Url)
        BY SiteType
      <4>2. QED BY <4>1 DEF ToSet
    <3>1. g.row[p] = "acquired" /\ Known(g, p)
      <4>1. h.status[p] = "acquired"
        BY <1>a, <2>2 DEF Agreeing
      <4>2. g.status[p] = "acquired"
        BY <1>o, <4>1 DEF DiscoverOutcome
      <4>3. QED BY <4>2 DEF Agreeing, Known
    <3>2. h.depth[p] = g.depth[p] /\ g.depth[p] + 1 \in Nat
      BY <1>k, <1>n, <3>1 DEF Kept
    <3>3. Placed(g, v, g.depth[p] + 1)
      BY <2>2, <3>1 DEF Linked, PlacedLinks
    <3>4. QED BY <1>p, <3>0, <3>2, <3>3
  <2>3. QED BY <2>1, <2>2 DEF Linked, PlacedLinks
<1>q. QED BY <1>h, <1>a, <1>k, <1>p, <1>u, <1>s, <1>l

LEMMA DiscoverLinksLevels ==
    ASSUME NEW g \in Catalogs, site \in Sites, Agreeing(g), NEW Q \in SUBSET Url, NEW P,
           Linked(g, Q, P),
           NEW d \in Nat, Shallow(g, d), NEW links \in Seq(Url),
           NEW h, h = DiscoverLinks(g, links, d)
    PROVE  /\ h \in Catalogs /\ Linked(h, Q, P) /\ Shallow(h, d) /\ Kept(g, h)
           /\ \A i \in 1..Len(links) : Placed(h, links[i], d)
           /\ \A p \in Url : h.row[p] = "acquired" => g.row[p] = "acquired"
<1> DEFINE C == {k \in Catalogs : /\ Agreeing(k) /\ Linked(k, Q, P) /\ Shallow(k, d)
                                  /\ Kept(g, k)
                                  /\ \A p \in Url : k.row[p] = "acquired"
                                                       => g.row[p] = "acquired"}
<1>1. g \in C
  BY DEF Kept
<1>l. \A i \in 1..Len(links) : links[i] \in Url
  OBVIOUS
<1>2. ASSUME NEW k \in C, NEW i \in 1..Len(links)
      PROVE  /\ Discover(k, links[i], d) \in C
             /\ Placed(Discover(k, links[i], d), links[i], d)
             /\ \A v \in Url : Placed(k, v, d)
                                 => Placed(Discover(k, links[i], d), v, d)
  <2> DEFINE u == links[i]
             m == Discover(k, u, d)
  <2>1. u \in Url
    BY <1>l
  <2>2. /\ m \in Catalogs /\ Agreeing(m)
        /\ Linked(m, Q, P) /\ Shallow(m, d) /\ Kept(k, m) /\ Placed(m, u, d)
        /\ \A v \in Url, e \in Nat : Placed(k, v, e) => Placed(m, v, e)
    <3>1. k \in Catalogs /\ Agreeing(k) /\ Linked(k, Q, P) /\ Shallow(k, d)
      OBVIOUS
    <3>2. m = Discover(k, u, d)
      OBVIOUS
    <3> HIDE DEF m, u, C
    <3>3. QED BY <2>1, <3>1, <3>2, DiscoverLevels
  <2>3. DiscoverOutcome(k, u, d, m)
    BY <2>1, DiscoverEffect
  <2> HIDE DEF m, u
  <2>4. Kept(g, m)
    BY <2>2 DEF Kept
  <2>5. ASSUME NEW p \in Url, m.row[p] = "acquired" PROVE g.row[p] = "acquired"
    <3>1. k.row[p] = "acquired"
      <4>1. m.status[p] = "acquired"
        BY <2>2, <2>5 DEF Agreeing
      <4>2. k.status[p] = "acquired"
        BY <2>3, <4>1 DEF DiscoverOutcome
      <4>3. QED BY <4>2 DEF Agreeing
    <3>2. QED BY <3>1
  <2>6. m \in C
    BY <2>2, <2>4, <2>5
  <2>7. QED BY <2>2, <2>6 DEF m, u
<1>3. h \in C
  <2>1. \A k \in C, i \in 1..Len(links) : Discover(k, links[i], d) \in C
    BY <1>2
  <2> HIDE DEF C
  <2>2. QED BY <1>1, <2>1, DiscoverLinksKeeps
<1>4. ASSUME NEW i \in 1..Len(links) PROVE Placed(h, links[i], d)
  <2> DEFINE D == {k \in Catalogs : Placed(k, links[i], d)}
  <2>1. \A k \in C, j \in 1..Len(links) : Discover(k, links[j], d) \in C
    BY <1>2
  <2>2. \A k \in C \cap D, j \in 1..Len(links) : Discover(k, links[j], d) \in D
    BY <1>2, <1>l
  <2>3. \A k \in C : Discover(k, links[i], d) \in D
    BY <1>2
  <2> HIDE DEF C, D
  <2>4. h \in D
    BY <1>1, <2>1, <2>2, <2>3, DiscoverLinksReaches
  <2>5. QED BY <2>4 DEF D
<1>5. QED BY <1>3, <1>4

LEMMA CommitLevels ==
    ASSUME NEW g \in Catalogs, site \in Sites, Agreeing(g), Linked(g, Seeds, {}),
           NEW u \in Url, g.status[u] \in Unsettled, u \notin g.frontier,
           Shallow(g, g.depth[u] + 1),
           NEW h, h = Commit(g, u, site[u]) \/ h = Mark(g, u, "failed")
    PROVE  Linked(h, Seeds, {}) /\ Shallow(h, g.depth[u] + 1) /\ Kept(g, h)
<1> DEFINE d == g.depth[u] + 1
<1>u. Known(g, u) /\ g.row[u] # "acquired" /\ d \in Nat
  BY DEF Agreeing, Unsettled, Known, Catalogs
<1>1. ASSUME NEW s \in {"failed", "rejected"}, h = Mark(g, u, s)
      PROVE  Linked(h, Seeds, {}) /\ Shallow(h, d) /\ Kept(g, h)
  <2>1. s \in Status
    BY DEF Status
  <2>2. /\ h.status = [g.status EXCEPT ![u] = s]
        /\ h.row = [g.row EXCEPT ![u] = s]
        /\ h.depth = g.depth /\ h.frontier = g.frontier /\ h.found = g.found
    BY <1>1, <2>1, MarkEffect
  <2>3. \A v \in Url : /\ Known(h, v) <=> Known(g, v)
                       /\ h.row[v] = "acquired" => g.row[v] = "acquired"
    BY <1>u, <2>2 DEF Known, Catalogs
  <2>4. \A v \in Url, e \in Nat : Placed(g, v, e) <=> Placed(h, v, e)
    BY <2>2, <2>3 DEF Placed
  <2>5. Linked(h, Seeds, {})
    <3>1. \A v \in Seeds : Placed(h, v, 0)
      BY <2>4, EngineAssumption DEF Linked
    <3>2. ASSUME NEW p \in Url, h.row[p] = "acquired", NEW v \in ToSet(site[p].links)
          PROVE  Placed(h, v, h.depth[p] + 1)
      <4>1. v \in Url /\ g.depth[p] + 1 \in Nat
        <5>1. site[p].links \in Seq(Url)
          BY SiteType
        <5>2. QED BY <5>1 DEF ToSet, Catalogs
      <4>2. Placed(g, v, g.depth[p] + 1)
        BY <2>3, <3>2 DEF Linked, PlacedLinks
      <4>3. QED BY <2>2, <2>4, <4>1, <4>2
    <3>3. QED BY <3>1, <3>2 DEF Linked, PlacedLinks
  <2>6. QED BY <2>2, <2>3, <2>5 DEF Shallow, Kept
<1>2. ASSUME h = DiscoverLinks(Published(Sealed(g, u, site[u].content), u, site[u].content), site[u].links, d)
      PROVE  Linked(h, Seeds, {}) /\ Shallow(h, d) /\ Kept(g, h)
  <2> DEFINE s == Sealed(g, u, site[u].content)
             p == Published(s, u, site[u].content)
  <2>1. /\ s \in Catalogs
        /\ s.status = [g.status EXCEPT ![u] = "acquired"]
        /\ s.row = g.row /\ s.frontier = g.frontier
        /\ s.depth = g.depth /\ s.found = g.found
    BY SealedEffect
  <2>2. /\ p \in Catalogs
        /\ p.row = [s.row EXCEPT ![u] = "acquired"]
        /\ p.status = s.status /\ p.frontier = s.frontier
        /\ p.depth = s.depth /\ p.found = s.found
    <3> HIDE DEF s, d
    <3>1. s \in Catalogs /\ p = Published(s, u, site[u].content)
      BY <2>1
    <3> HIDE DEF p
    <3>2. QED BY ONLY <3>1, PublishedEffect, u \in Url, site \in Sites
  <2>8. h = DiscoverLinks(p, site[u].links, d)
    BY <1>2
  <2> HIDE DEF s, p
  <2>3. \A v \in Url : /\ p.status[v] = IF v = u THEN "acquired" ELSE g.status[v]
                       /\ p.row[v] = IF v = u THEN "acquired" ELSE g.row[v]
    BY <2>1, <2>2 DEF Catalogs
  <2>4. \A v \in Url : Known(p, v) <=> Known(g, v)
    BY <1>u, <2>3 DEF Known
  <2>5. \A v \in Url, e \in Nat : Placed(g, v, e) <=> Placed(p, v, e)
    BY <2>1, <2>2, <2>4 DEF Placed
  <2>6. Agreeing(p)
    <3>1. g.frontier \subseteq Url
      BY DEF Catalogs
    <3>2. QED BY <2>1, <2>2, <2>3, <3>1 DEF Agreeing
  <2>7. Linked(p, Seeds, {u})
    <3>1. \A v \in Seeds : Placed(p, v, 0)
      BY <2>5, EngineAssumption DEF Linked
    <3>2. ASSUME NEW q \in Url \ {u}, p.row[q] = "acquired", NEW v \in ToSet(site[q].links)
          PROVE  Placed(p, v, p.depth[q] + 1)
      <4>1. v \in Url /\ g.depth[q] + 1 \in Nat
        <5>1. site[q].links \in Seq(Url)
          BY SiteType
        <5>2. QED BY <5>1 DEF ToSet, Catalogs
      <4>2. Placed(g, v, g.depth[q] + 1)
        BY <2>3, <3>2 DEF Linked, PlacedLinks
      <4>3. QED BY <2>1, <2>2, <2>5, <4>1, <4>2
    <3>3. QED BY <3>1, <3>2 DEF Linked, PlacedLinks
  <2>9. Shallow(p, d) /\ Kept(g, p)
    BY <2>1, <2>2, <2>4 DEF Shallow, Kept
  <2>10. site[u].links \in Seq(Url)
    BY SiteType
  <2>e. Seeds \in SUBSET Url
    BY EngineAssumption
  <2>11. /\ h \in Catalogs /\ Linked(h, Seeds, {u}) /\ Shallow(h, d) /\ Kept(p, h)
         /\ \A i \in 1..Len(site[u].links) : Placed(h, site[u].links[i], d)
    <3> DEFINE P == {u}
               Q == Seeds
               links == site[u].links
    <3>1. /\ Linked(p, Q, P) /\ Q \in SUBSET Url /\ d \in Nat
          /\ links \in Seq(Url) /\ h = DiscoverLinks(p, links, d)
      BY <1>u, <2>7, <2>8, <2>10, <2>e
    <3> HIDE DEF d, P, Q, links
    <3>2. /\ h \in Catalogs /\ Linked(h, Q, P) /\ Shallow(h, d) /\ Kept(p, h)
          /\ \A i \in 1..Len(links) : Placed(h, links[i], d)
      BY <2>2, <2>6, <2>9, <3>1, DiscoverLinksLevels
    <3>3. QED BY <3>2 DEF P, Q, links
  <2>12. Kept(g, h)
    BY <2>9, <2>11 DEF Kept
  <2>13. PlacedLinks(h, u)
    <3>1. h.depth[u] + 1 = d
      BY <1>u, <2>12 DEF Kept
    <3>2. \A v \in ToSet(site[u].links) : Placed(h, v, d)
      BY <2>10, <2>11 DEF ToSet
    <3>3. QED BY <3>1, <3>2 DEF PlacedLinks
  <2>14. Linked(h, Seeds, {})
    BY <2>11, <2>13 DEF Linked
  <2>15. QED BY <2>11, <2>12, <2>14
<1>3. QED BY <1>1, <1>2, CommitCases

LEMMA InitShallow == Init => Linked(Catalog, Seeds, {}) /\ Shallow(Catalog, 0)
<1> SUFFICES ASSUME Init PROVE Linked(Catalog, Seeds, {}) /\ Shallow(Catalog, 0)
  OBVIOUS
<1> DEFINE g == [status |-> [u \in Url |-> "absent"], depth |-> [u \in Url |-> 0],
                 row |-> [u \in Url |-> "absent"], frontier |-> {}, found |-> 0,
                 artifactIds |-> {}, cas |-> {}, acquisitions |-> {}]
           h == InitCatalog
           Q == {}
           P == {}
<1>0. site \in Sites /\ Seeds \in SUBSET Url
  BY EngineAssumption DEF Init
<1>1. /\ Sorted(Seeds) \in Seq(Url)
      /\ \A u \in Seeds : \E i \in 1..Len(Sorted(Seeds)) : Sorted(Seeds)[i] = u
  <2>1. /\ Sorted(Seeds) \in Seq(Seeds)
        /\ \A u \in Seeds : \E i \in 1..Len(Sorted(Seeds)) : Sorted(Seeds)[i] = u
    BY <1>0, SortedEnumerates
  <2>2. QED BY <1>0, <2>1
<1>2. /\ g \in Catalogs /\ Agreeing(g) /\ Linked(g, Q, P)
      /\ Shallow(g, 0) /\ Q \in SUBSET Url
  BY EngineAssumption DEF Catalogs, Status, Agreeing, Linked, Shallow, Known
<1>3. h = DiscoverLinks(g, Sorted(Seeds), 0)
  BY DEF InitCatalog
<1> HIDE DEF g, h, Q
<1>4. /\ h \in Catalogs /\ Linked(h, Q, P) /\ Shallow(h, 0)
      /\ \A i \in 1..Len(Sorted(Seeds)) : Placed(h, Sorted(Seeds)[i], 0)
  BY <1>0, <1>1, <1>2, <1>3, DiscoverLinksLevels
<1>5. \A u \in Seeds : Placed(h, u, 0)
  BY <1>1, <1>4
<1>6. Linked(h, Seeds, {})
  BY <1>4, <1>5 DEF Linked
<1>7. Catalog = h
  BY InitIsInitCatalog DEF h
<1>8. QED BY <1>4, <1>6, <1>7

LEMMA InitLevels == Init => Levels
<1> SUFFICES ASSUME Init PROVE Levels
  OBVIOUS
<1>1. Linked(Catalog, Seeds, {}) /\ Shallow(Catalog, 0)
  BY InitShallow
<1>2. Catalog.depth = depth /\ Catalog.frontier = frontier
  BY DEF Catalog
<1>3. depth \in [Url -> Nat] /\ frontier \subseteq Url
  BY InitTypes DEF TypeOK
<1>4. \A u \in frontier : depth[u] = 0
  BY <1>1, <1>2 DEF Shallow
<1>5. \A v \in Url : Known(Catalog, v) => depth[v] <= 0
  BY <1>1, <1>2 DEF Shallow
<1>6. \A u \in frontier : \A v \in Url : Known(Catalog, v) => depth[v] <= depth[u]
  BY <1>4, <1>5
<1>7. run = "pop"
  BY DEF Init
<1>8. QED BY <1>1, <1>6, <1>7 DEF Levels

\* A step that changes no depth, makes nothing known or unknown, and
\* publishes nothing keeps the links of the acquired pages placed.
LEMMA LinkedStays ==
    ASSUME Levels, TypeOK, site' = site, depth' = depth, found' = found,
           \A u \in Url : /\ status'[u] = "absent" <=> status[u] = "absent"
                          /\ row'[u] = "acquired" => row[u] = "acquired"
    PROVE  Linked(Catalog, Seeds, {})'
<1>1. /\ Catalog.depth = depth /\ Catalog.status = status
      /\ Catalog.found = found /\ Catalog.row = row
      /\ Catalog'.depth = depth' /\ Catalog'.status = status'
      /\ Catalog'.found = found' /\ Catalog'.row = row'
  BY DEF Catalog
<1>2. \A u \in Url, e \in Nat : Placed(Catalog, u, e) => Placed(Catalog', u, e)
  BY <1>1 DEF Placed, Known
<1>3. Linked(Catalog, Seeds, {})
  BY DEF Levels
<1>4. \A u \in Seeds : Placed(Catalog', u, 0)
  BY <1>2, <1>3, EngineAssumption DEF Linked
<1>5. ASSUME NEW p \in Url, Catalog'.row[p] = "acquired", NEW u \in ToSet(site[p].links)
      PROVE  Placed(Catalog', u, Catalog'.depth[p] + 1)
  <2>1. u \in Url /\ Catalog.depth[p] + 1 \in Nat
    <3>1. site[p].links \in Seq(Url)
      BY SiteType DEF TypeOK
    <3>2. QED BY <1>1, <3>1 DEF ToSet, TypeOK
  <2>2. Placed(Catalog, u, Catalog.depth[p] + 1)
    BY <1>1, <1>3, <1>5 DEF Linked, PlacedLinks
  <2>3. QED BY <1>1, <1>2, <2>1, <2>2
<1>6. QED BY <1>4, <1>5 DEF Linked, PlacedLinks

\* The same for the conditions that depend on where the coroutine stands.
LEMMA LevelsStay ==
    ASSUME Levels, TypeOK, site' = site, depth' = depth, found' = found,
           \A u \in Url : /\ status'[u] = "absent" <=> status[u] = "absent"
                          /\ row'[u] = "acquired" => row[u] = "acquired",
           frontier' = frontier, level' = level, todo' = todo,
           run' = run \/ run' \in {"unwind", "ended"}
    PROVE  Levels'
<1>1. Linked(Catalog, Seeds, {})'
  BY LinkedStays
<1>2. \A u \in Url : Known(Catalog', u) <=> Known(Catalog, u)
  BY DEF Known, Catalog
<1>3. CASE run' = run
  <2>1. Catalog'.depth = Catalog.depth /\ Catalog'.frontier = Catalog.frontier
    BY DEF Catalog
  <2>2. \A e : Shallow(Catalog, e) => Shallow(Catalog', e)
    BY <1>2, <2>1 DEF Shallow
  <2>3. QED BY <1>1, <1>2, <1>3, <2>2 DEF Levels
<1>4. CASE run' \in {"unwind", "ended"}
  BY <1>1, <1>4 DEF Levels
<1>5. QED BY <1>3, <1>4

LEMMA StepLevels ==
    Levels /\ Rows /\ TypeOK /\ Progress /\ Ownership /\ [Next]_vars => Levels'
<1> SUFFICES ASSUME Levels, Rows, TypeOK, Progress, Ownership, [Next]_vars
             PROVE  Levels'
  OBVIOUS
<1>c. Catalog \in Catalogs
  BY CatalogType
<1>s. site \in Sites /\ site' = site
  BY DEF TypeOK, Next, RunStep, StartLevel, GatherReturns, GatherRaises, PublishItem,
     PublishFaults, Unwind, Stop, Network, StartFetch, Receive, FinishFetch,
     CancelFetch, Ended, vars
<1>f. /\ Catalog.depth = depth /\ Catalog.frontier = frontier
      /\ Catalog.status = status /\ Catalog.row = row
  BY DEF Catalog
<1>n. \A u \in Url : depth[u] \in Nat
  BY DEF TypeOK
<1>1. CASE StartLevel
  <2> DEFINE popped == PopLevel(Catalog)
             chosen == First(popped, fetchCount)
             out == popped \ chosen
  <2>1. /\ popped = {u \in frontier : \A v \in frontier : depth[u] <= depth[v]}
        /\ chosen \subseteq popped /\ frontier \subseteq Url
    BY <1>f DEF PopLevel, TypeOK, First
  <2>2. /\ status' = [u \in Url |-> IF u \in out THEN "rejected" ELSE status[u]]
        /\ row' = [u \in Url |-> IF u \in out THEN "rejected" ELSE row[u]]
        /\ frontier' = frontier \ popped
        /\ UNCHANGED <<depth, found>> /\ run = "pop"
    BY <1>1, StartLevelCatalog DEF StartLevel
  <2>3. \/ run' = "unwind"
        \/ run' = "gather" /\ level' = chosen
    BY <1>1 DEF StartLevel, EnterFinally
  <2>4. \A u \in frontier : status[u] = "accepted"
    BY <1>f, <2>2 DEF Rows, Agreeing
  <2>5. \A u \in frontier : \A v \in Url : status[v] # "absent" => depth[v] <= depth[u]
    BY <1>f, <2>2 DEF Levels, Known
  <2>6. popped = frontier
    <3>1. \A u, v \in frontier : depth[u] <= depth[v]
      BY <2>1, <2>4, <2>5
    <3>2. QED BY <2>1, <3>1
  <2> HIDE DEF popped, chosen
  <2>7. \A u \in Url : /\ status'[u] = "absent" <=> status[u] = "absent"
                       /\ row'[u] = "acquired" => row[u] = "acquired"
    BY <2>2, <2>4, <2>6
  <2>8. Linked(Catalog, Seeds, {})'
    BY <1>s, <2>2, <2>7, LinkedStays
  <2>9. \A u \in Url : Known(Catalog', u) <=> status[u] # "absent"
    BY <2>7 DEF Known, Catalog
  <2>10. run' = "gather" => /\ frontier' = {}
                            /\ \A u \in level' : \A v \in Url :
                                  Known(Catalog', v) => depth'[v] <= depth'[u]
    BY <2>1, <2>2, <2>3, <2>5, <2>6, <2>9
  <2>11. QED BY <2>3, <2>8, <2>10 DEF Levels
<1>2. CASE GatherReturns
  <2>1. UNCHANGED catalog /\ run = "gather" /\ run' = "publish" /\ todo' = level
    BY <1>2 DEF GatherReturns
  <2>2. Catalog' = Catalog /\ UNCHANGED <<status, row, depth, found, frontier>>
    BY <2>1, SameCatalog DEF catalog
  <2>3. Linked(Catalog, Seeds, {})'
    BY <1>s, <2>2, LinkedStays
  <2>4. /\ frontier = {}
        /\ \A u \in level : \A v \in Url : Known(Catalog, v) => depth[v] <= depth[u]
    BY <2>1 DEF Levels
  <2>5. level \subseteq Url /\ \A u \in level : Known(Catalog, u)
    BY <2>1 DEF Rows, UnderWay, Busy, Known, Unsettled, TypeOK
  <2>6. \A u, w \in level : depth[w] = depth[u]
    <3>1. \A u, w \in level : depth[w] <= depth[u] /\ depth[u] \in Nat /\ depth[w] \in Nat
      BY <1>n, <2>4, <2>5
    <3>2. QED BY <3>1
  <2>7. \A u \in level : Shallow(Catalog, depth[u] + 1)
    <3> SUFFICES ASSUME NEW u \in level PROVE Shallow(Catalog, depth[u] + 1)
      OBVIOUS
    <3>1. \A v \in Url : Known(Catalog, v) => depth[v] <= depth[u] + 1
      BY <1>n, <2>4, <2>5
    <3>2. QED BY <1>f, <2>4, <3>1 DEF Shallow
  <2>8. QED BY <2>1, <2>2, <2>3, <2>6, <2>7 DEF Levels
<1>3. CASE GatherRaises
  BY <1>3, <1>s, LevelsStay DEF GatherRaises, EnterFinally, catalog
<1>4. CASE PublishItem
  <2> DEFINE u == Least(todo)
             g == Settle(Catalog, u)
  <2>1. /\ run = "publish" /\ SetCatalog(g) /\ todo' = todo \ {u}
        /\ IF todo = {u} THEN run' = "pop" ELSE run' = run
    BY <1>4 DEF PublishItem
  <2>2. todo # {} /\ todo \in SUBSET Url
    BY <2>1 DEF Progress, TypeOK
  <2>3. u \in todo /\ u \in Url
    BY <2>2, LeastIsOne
  <2>4. /\ Agreeing(Catalog) /\ UnderWay(Catalog, todo)
        /\ Linked(Catalog, Seeds, {})
        /\ Shallow(Catalog, depth[u] + 1) /\ \A w \in todo : depth[w] = depth[u]
    BY <2>1, <2>3 DEF Rows, UnderWay, Busy, Levels
  <2>5. g \in Catalogs
    BY <1>c, <1>s, <2>3, SettleType
  <2>6. Catalog.status[u] \in Unsettled /\ u \notin Catalog.frontier
    BY <2>3, <2>4 DEF UnderWay
  <2>7. Linked(g, Seeds, {}) /\ Shallow(g, depth[u] + 1) /\ Kept(Catalog, g)
    BY <1>c, <1>f, <1>s, <2>3, <2>4, <2>6, SettleCases, CommitLevels
  <2>8. Catalog' = g
    BY <2>1, <2>5, SetCatalogIs
  <2> HIDE DEF u, g
  <2>9. depth' = g.depth /\ frontier' = g.frontier
    BY <2>8 DEF Catalog
  <2>10. \A w \in todo : depth'[w] = depth[u]
    <3>1. \A w \in todo : Known(Catalog, w)
      BY <2>4 DEF UnderWay, Known, Unsettled
    <3>2. \A w \in todo : g.depth[w] = Catalog.depth[w]
      BY <2>2, <2>7, <3>1 DEF Kept
    <3>3. QED BY <1>f, <2>4, <2>9, <3>2
  <2>11. Linked(Catalog, Seeds, {})'
    BY <1>s, <2>7, <2>8 DEF Linked, PlacedLinks
  <2>12. run' = "pop" => \A w \in frontier' : \A v \in Url :
                             Known(Catalog', v) => depth'[v] <= depth'[w]
    BY <2>7, <2>8, <2>9 DEF Shallow
  <2>13. \A w \in todo' : /\ \A v \in todo' : depth'[v] = depth'[w]
                          /\ Shallow(Catalog', depth'[w] + 1)
    BY <2>1, <2>7, <2>8, <2>10
  <2>14. run' # "gather"
    BY <2>1
  <2>15. QED BY <2>11, <2>12, <2>13, <2>14 DEF Levels
<1>5. CASE PublishFaults
  <2> DEFINE u == Least(todo)
             g == Sealed(Catalog, u, site[u].content)
  <2>1. /\ run = "publish" /\ run' = "unwind"
        /\ UNCHANGED catalog \/ SetCatalog(g)
    BY <1>5 DEF PublishFaults, EnterFinally
  <2>2. todo # {} /\ todo \in SUBSET Url
    BY <2>1 DEF Progress, TypeOK
  <2>3. u \in todo /\ u \in Url
    BY <2>2, LeastIsOne
  <2>4. status[u] # "absent"
    BY <1>f, <2>1, <2>3 DEF Rows, UnderWay, Busy, Unsettled
  <2>5. /\ UNCHANGED <<depth, found>>
        /\ \A v \in Url : /\ status'[v] = "absent" <=> status[v] = "absent"
                          /\ row'[v] = "acquired" => row[v] = "acquired"
    <3>1. CASE UNCHANGED catalog
      BY <3>1 DEF catalog
    <3>2. CASE SetCatalog(g)
      <4>1. /\ g.status = [status EXCEPT ![u] = "acquired"]
            /\ g.row = row /\ g.depth = depth /\ g.found = Catalog.found
        BY <1>c, <1>f, <1>s, <2>3, SealedEffect
      <4>2. Catalog.found = found
        BY DEF Catalog
      <4> HIDE DEF g, u
      <4>3. QED BY <2>4, <3>2, <4>1, <4>2 DEF SetCatalog, TypeOK
    <3>3. QED BY <2>1, <3>1, <3>2
  <2>6. Linked(Catalog, Seeds, {})'
    BY <1>s, <2>5, LinkedStays
  <2>7. QED BY <2>1, <2>6 DEF Levels
<1>6. CASE Unwind
  <2> DEFINE stop == {u \in Url : status[u] \in Unsettled}
  <2>1. /\ status' = [u \in Url |-> IF u \in stop THEN "cancelled" ELSE status[u]]
        /\ row' = [u \in Url |-> IF u \in stop THEN "cancelled" ELSE row[u]]
        /\ run' = "ended" /\ UNCHANGED <<depth, found>>
    BY <1>6 DEF Unwind
  <2>2. \A u \in Url : /\ status'[u] = "absent" <=> status[u] = "absent"
                       /\ row'[u] = "acquired" => row[u] = "acquired"
    BY <2>1 DEF Unsettled
  <2>3. Linked(Catalog, Seeds, {})'
    BY <1>s, <2>1, <2>2, LinkedStays
  <2>4. QED BY <2>1, <2>3 DEF Levels
<1>7. CASE Stop
  <2>1. /\ UNCHANGED <<catalog, level, todo>>
        /\ run' = run \/ run' \in {"unwind", "ended"}
    BY <1>7 DEF Stop, StopAtGather, StopAtPublish, StopAtUnwind, EnterFinally
  <2>2. QED BY <1>s, <2>1, LevelsStay DEF catalog
<1>8. CASE \E u \in Url : Receive(u) \/ FinishFetch(u) \/ CancelFetch(u)
  BY <1>8, <1>s, LevelsStay DEF Receive, FinishFetch, CancelFetch, catalog, control
<1>9. CASE \E u \in Url : StartFetch(u)
  <2>1. PICK u \in Url : StartFetch(u)
    BY <1>9
  <2>2. /\ status' = [status EXCEPT ![u] = "fetching"]
        /\ row' = [row EXCEPT ![u] = "fetching"]
        /\ UNCHANGED <<depth, found, frontier, level, todo, run>>
    BY <2>1 DEF StartFetch, control
  <2>3. status[u] # "absent"
    <3>1. u \in Busy
      BY <2>1 DEF StartFetch, Busy, Undone
    <3>2. QED BY <1>f, <3>1 DEF Rows, UnderWay, Unsettled
  <2>4. \A v \in Url : /\ status'[v] = "absent" <=> status[v] = "absent"
                       /\ row'[v] = "acquired" => row[v] = "acquired"
    BY <2>2, <2>3 DEF TypeOK
  <2>5. QED BY <1>s, <2>2, <2>4, LevelsStay
<1>10. CASE UNCHANGED vars
  BY <1>10, LevelsStay DEF vars, catalog, control
<1>11. QED
  BY <1>1, <1>2, <1>3, <1>4, <1>5, <1>6, <1>7, <1>8, <1>9, <1>10
     DEF Next, RunStep, Network, Ended

\* The inductive invariant of the depths.
THEOREM LevelsInvariant == Spec => []Levels
BY InitLevels, StepLevels, RowsInvariant, TypesHold, OwnershipInvariant, PTL DEF Spec

\* Breadth first: whatever the timing and the stop requests, the depth of a
\* URL is at most one more than that of any acquired page that links to it,
\* and a seed's is zero (frontier.py:1).
THEOREM DepthIsShortest == Spec => []ShortestDepth
<1>1. Levels /\ TypeOK => ShortestDepth
  <2> SUFFICES ASSUME Levels, TypeOK, NEW u \in Url, status[u] # "absent"
               PROVE  /\ u \in Seeds => depth[u] = 0
                      /\ \A p \in Url : row[p] = "acquired" /\ u \in ToSet(site[p].links)
                              => depth[u] <= depth[p] + 1
    BY DEF ShortestDepth
  <2>1. Known(Catalog, u) /\ Catalog.depth = depth /\ Catalog.row = row
    BY DEF Known, Catalog
  <2>2. Linked(Catalog, Seeds, {})
    BY DEF Levels
  <2>3. u \in Seeds => depth[u] <= 0
    BY <2>1, <2>2 DEF Linked, Placed
  <2>4. depth[u] \in Nat
    BY DEF TypeOK
  <2>5. QED BY <2>1, <2>2, <2>3, <2>4 DEF Linked, PlacedLinks, Placed
<1>2. QED BY <1>1, LevelsInvariant, TypesHold, PTL

-----------------------------------------------------------------------------
(***************************************************************************)
(* Recursive functions over 0..N exist, and what each step keeps holds of  *)
(* every value.                                                            *)
(***************************************************************************)
Steps(X, x, N, step) == x \in X /\ N \in Nat /\ step \in [X \X (1..N) -> X]

Iteration(X, x, N, step, f) ==
    /\ f \in [0..N -> X] /\ f[0] = x
    /\ \A n \in 1..N : f[n] = step[<<f[n - 1], n>>]

LEMMA Iterates ==
    ASSUME NEW X, NEW x, NEW N, NEW step, Steps(X, x, N, step)
    PROVE  \E f : Iteration(X, x, N, step, f)
<1> USE DEF Steps
<1> DEFINE Good(f, m) == /\ f \in [0..m -> X] /\ f[0] = x
                         /\ \A n \in 1..m : f[n] = step[<<f[n - 1], n>>]
           T == {m \in Nat : m <= N => \E f : Good(f, m)}
<1>1. 0 \in T
  <2>1. Good([n \in 0..0 |-> x], 0)
    OBVIOUS
  <2>2. \E f : Good(f, 0)
    BY <2>1
  <2>3. QED BY <2>2
<1>2. ASSUME NEW m \in Nat, m + 1 <= N, NEW f, Good(f, m)
      PROVE  \E h : Good(h, m + 1)
  <2> DEFINE h == [n \in 0..(m + 1) |-> IF n <= m THEN f[n] ELSE step[<<f[m], m + 1>>]]
  <2>1. f \in [0..m -> X] /\ f[0] = x /\ \A n \in 1..m : f[n] = step[<<f[n - 1], n>>]
    BY <1>2
  <2> HIDE DEF Good
  <2>2. m \in 0..m /\ m + 1 \in 1..N
    BY <1>2
  <2>3. <<f[m], m + 1>> \in X \X (1..N)
    BY <2>1, <2>2
  <2>4. step[<<f[m], m + 1>>] \in X
    BY <2>3
  <2>5. /\ \A n \in 0..(m + 1) : h[n] = IF n <= m THEN f[n] ELSE step[<<f[m], m + 1>>]
        /\ h = [n \in 0..(m + 1) |-> h[n]]
    OBVIOUS
  <2> HIDE DEF h
  <2>6. \A n \in 0..(m + 1) : h[n] \in X
    <3> SUFFICES ASSUME NEW n \in 0..(m + 1) PROVE h[n] \in X
      OBVIOUS
    <3>1. n <= m => n \in 0..m
      OBVIOUS
    <3>2. n <= m => f[n] \in X
      BY <2>1, <3>1
    <3>3. QED BY <2>4, <2>5, <3>2
  <2>7. h \in [0..(m + 1) -> X]
    BY <2>5, <2>6
  <2>8. h[0] = x
    <3>1. 0 \in 0..(m + 1) /\ 0 <= m
      OBVIOUS
    <3>2. QED BY <2>1, <2>5, <3>1
  <2>9. ASSUME NEW n \in 1..(m + 1) PROVE h[n] = step[<<h[n - 1], n>>]
    <3>1. n \in 0..(m + 1) /\ n - 1 \in 0..(m + 1) /\ n - 1 <= m
      OBVIOUS
    <3>2. h[n - 1] = f[n - 1]
      BY <2>5, <3>1
    <3>3. CASE n <= m
      <4>1. n \in 1..m
        BY <3>3
      <4>2. h[n] = f[n]
        BY <2>5, <3>1, <3>3
      <4>3. QED BY <2>1, <3>2, <4>1, <4>2
    <3>4. CASE n = m + 1
      <4>1. ~(n <= m) /\ n - 1 = m
        BY <3>4
      <4>2. h[n] = step[<<f[m], m + 1>>]
        BY <2>5, <3>1, <4>1
      <4>3. h[n - 1] = f[m]
        BY <3>2, <4>1
      <4>4. QED BY <3>4, <4>2, <4>3
    <3>5. n <= m \/ n = m + 1
      OBVIOUS
    <3>6. QED BY <3>3, <3>4, <3>5
  <2>10. Good(h, m + 1)
    BY <2>7, <2>8, <2>9 DEF Good
  <2>11. QED BY <2>10
<1>3. T = Nat
  <2>1. \A m \in T : m + 1 \in T
    <3> SUFFICES ASSUME NEW m \in T PROVE m + 1 \in T
      OBVIOUS
    <3>1. m \in Nat /\ (m <= N => \E f : Good(f, m))
      OBVIOUS
    <3> HIDE DEF Good
    <3>2. m + 1 <= N => \E h : Good(h, m + 1)
      BY <1>2, <3>1
    <3>3. QED BY <3>1, <3>2
  <2>2. T \in SUBSET Nat
    OBVIOUS
  <2> HIDE DEF T
  <2>3. QED BY <1>1, <2>1, <2>2, NatSteps
<1>4. \E f : Good(f, N)
  <2>1. N \in T
    BY <1>3
  <2> HIDE DEF Good
  <2>2. QED BY <2>1
<1>5. QED BY <1>4 DEF Iteration

LEMMA UpTo ==
    ASSUME NEW N \in Nat, NEW T, 0 \in T,
           \A n \in 1..N : n - 1 \in T => n \in T
    PROVE  \A n \in 0..N : n \in T
<1> DEFINE U == {n \in Nat : n <= N => n \in T}
<1>1. 0 \in U
  OBVIOUS
<1>2. ASSUME NEW n \in U PROVE n + 1 \in U
  <2> SUFFICES ASSUME n + 1 <= N PROVE n + 1 \in T
    OBVIOUS
  <2>1. n \in T /\ n + 1 \in 1..N /\ (n + 1) - 1 = n
    OBVIOUS
  <2>2. QED BY <2>1
<1>3. U = Nat
  <2> HIDE DEF U
  <2>1. U \in SUBSET Nat
    BY DEF U
  <2>2. QED BY <1>1, <1>2, <2>1, NatSteps
<1>4. QED BY <1>3

(***************************************************************************)
(* Sums over the URLs.                                                     *)
(***************************************************************************)
Places == Cardinality(Url)
Place(u) == Before(Url, u) + 1
At(n) == Sorted(Url)[n]

\* Each URL of S stands in Sorted(S) right after those before it.
LEMMA SortedRank ==
    ASSUME NEW S \in SUBSET Url
    PROVE  /\ Cardinality(S) \in Nat
           /\ \A n \in 1..Cardinality(S) : Sorted(S)[n] \in S /\ Before(S, Sorted(S)[n]) = n - 1
           /\ \A u \in S : /\ Before(S, u) + 1 \in 1..Cardinality(S)
                           /\ Sorted(S)[Before(S, u) + 1] = u
<1>1. IsFiniteSet(S) /\ Cardinality(S) \in Nat
  BY EngineAssumption, FS_Subset, FS_CardinalityType
<1>2. ASSUME NEW n \in 1..Cardinality(S)
      PROVE  Sorted(S)[n] \in S /\ Before(S, Sorted(S)[n]) = n - 1
  <2>1. n - 1 \in 0..(Cardinality(S) - 1)
    BY <1>1
  <2>2. \E u \in S : Before(S, u) = n - 1
    BY <2>1, RankOnto
  <2>3. Sorted(S)[n] = CHOOSE u \in S : Before(S, u) = n - 1
    BY DEF Sorted
  <2>4. QED BY <2>2, <2>3
<1>3. ASSUME NEW u \in S
      PROVE  Before(S, u) + 1 \in 1..Cardinality(S) /\ Sorted(S)[Before(S, u) + 1] = u
  <2>1. Before(S, u) \in 0..(Cardinality(S) - 1)
    BY RankBelow
  <2> DEFINE n == Before(S, u) + 1
             w == Sorted(S)[n]
  <2>2. n \in 1..Cardinality(S) /\ n - 1 = Before(S, u)
    BY <1>1, <2>1
  <2>3. w \in S /\ Before(S, w) = Before(S, u)
    BY <1>2, <2>2
  <2>4. u \in Nat /\ w \in Nat
    BY <2>3, EngineAssumption
  <2> HIDE DEF w
  <2>5. u < w => Before(S, u) < Before(S, w)
    BY <2>3, RankGrows
  <2>6. w < u => Before(S, w) < Before(S, u)
    BY <2>3, RankGrows
  <2>7. u = w
    BY <2>1, <2>3, <2>4, <2>5, <2>6
  <2>8. QED BY <2>2, <2>7 DEF w
<1>4. QED BY <1>1, <1>2, <1>3

LEMMA PlacesType ==
    /\ Places \in Nat
    /\ \A n \in 1..Places : At(n) \in Url /\ Place(At(n)) = n
    /\ \A u \in Url : Place(u) \in 1..Places /\ At(Place(u)) = u
<1> DEFINE S == Url
<1>1. S \in SUBSET Url
  OBVIOUS
<1> HIDE DEF S
<1>2. Cardinality(S) \in Nat
  BY <1>1, SortedRank
<1>3. \A n \in 1..Cardinality(S) : Sorted(S)[n] \in S /\ Before(S, Sorted(S)[n]) = n - 1
  BY <1>1, SortedRank
<1>4. \A u \in S : Before(S, u) + 1 \in 1..Cardinality(S) /\ Sorted(S)[Before(S, u) + 1] = u
  BY <1>1, SortedRank
<1>5. QED BY <1>2, <1>3, <1>4 DEF S, Places, Place, At

Summing(f, sum) ==
    /\ sum \in [0..Places -> Nat] /\ sum[0] = 0
    /\ \A n \in 1..Places : sum[n] = sum[n - 1] + f[At(n)]

LEMMA TotalIs ==
    ASSUME NEW f \in [Url -> Nat]
    PROVE  \E sum : Summing(f, sum) /\ Total(f) = sum[Places]
<1> DEFINE step == [p \in Nat \X (1..Places) |-> p[1] + f[At(p[2])]]
           sum == CHOOSE sum : sum = [n \in 0..Places |->
                     IF n = 0 THEN 0 ELSE sum[n - 1] + f[At(n)]]
<1>1. step \in [Nat \X (1..Places) -> Nat]
  BY PlacesType
<1>2. \E h : /\ h \in [0..Places -> Nat] /\ h[0] = 0
             /\ \A n \in 1..Places : h[n] = step[<<h[n - 1], n>>]
  <2> DEFINE X == Nat
             x == 0
             N == Places
  <2>1. x \in X /\ N \in Nat
    BY PlacesType
  <2>2. step \in [X \X (1..N) -> X]
    BY <1>1
  <2> HIDE DEF step, X, x, N
  <2>3. Steps(X, x, N, step)
    BY <2>1, <2>2 DEF Steps
  <2>4. \E h : Iteration(X, x, N, step, h)
    BY <2>3, Iterates
  <2>5. QED BY <2>4 DEF X, x, N, Iteration
<1>3. PICK h : /\ h \in [0..Places -> Nat] /\ h[0] = 0
               /\ \A n \in 1..Places : h[n] = step[<<h[n - 1], n>>]
  <2> HIDE DEF step
  <2>1. QED BY <1>2
<1>4. ASSUME NEW n \in 1..Places PROVE h[n] = h[n - 1] + f[At(n)]
  <2>1. n - 1 \in 0..Places
    BY PlacesType
  <2>2. h[n - 1] \in Nat
    BY <1>3, <2>1
  <2>3. <<h[n - 1], n>> \in Nat \X (1..Places)
    BY <2>2
  <2>4. step[<<h[n - 1], n>>] = h[n - 1] + f[At(n)]
    BY <2>3
  <2> HIDE DEF step
  <2>5. QED BY <1>3, <2>4
<1>5. h = [n \in 0..Places |-> IF n = 0 THEN 0 ELSE h[n - 1] + f[At(n)]]
  <2>1. \A n \in 0..Places : n = 0 \/ n \in 1..Places
    BY PlacesType
  <2>2. \A n \in 0..Places : h[n] = IF n = 0 THEN 0 ELSE h[n - 1] + f[At(n)]
    BY <1>3, <1>4, <2>1
  <2>3. QED BY <1>3, <2>2
<1>6. sum = [n \in 0..Places |-> IF n = 0 THEN 0 ELSE sum[n - 1] + f[At(n)]]
  BY <1>5
<1>7. Total(f) = sum[Places]
  BY DEF Total, Places, At
<1> HIDE DEF sum
<1>8. sum[0] = 0 /\ \A n \in 1..Places : sum[n] = sum[n - 1] + f[At(n)]
  BY <1>6, PlacesType
<1>9. \A n \in 0..Places : sum[n] \in Nat
  <2> DEFINE T == {n \in Nat : sum[n] \in Nat}
  <2>1. 0 \in T
    BY <1>8
  <2>2. ASSUME NEW n \in 1..Places, n - 1 \in T PROVE n \in T
    BY <1>8, <2>2, PlacesType
  <2> HIDE DEF T
  <2>3. \A n \in 0..Places : n \in T
    BY <2>1, <2>2, PlacesType, UpTo
  <2>4. QED BY <2>3 DEF T
<1>10. sum \in [0..Places -> Nat]
  BY <1>6, <1>9
<1>11. QED BY <1>7, <1>8, <1>10 DEF Summing

LEMMA TotalZero ==
    ASSUME NEW f, f = [u \in Url |-> 0]
    PROVE  Total(f) = 0
<1>1. f \in [Url -> Nat]
  OBVIOUS
<1>2. PICK a : Summing(f, a) /\ Total(f) = a[Places]
  BY <1>1, TotalIs
<1> DEFINE T == {n \in 0..Places : a[n] = 0}
<1>3. 0 \in T
  BY <1>2, PlacesType DEF Summing
<1>4. ASSUME NEW n \in 1..Places, n - 1 \in T PROVE n \in T
  <2>1. a[n] = a[n - 1] + f[At(n)] /\ f[At(n)] = 0 /\ a[n - 1] = 0
    BY <1>2, <1>4, PlacesType DEF Summing
  <2>2. QED BY <2>1
<1> HIDE DEF T
<1>5. Places \in T
  BY <1>3, <1>4, PlacesType, UpTo
<1>6. QED BY <1>2, <1>5 DEF T

LEMMA TotalLess ==
    ASSUME NEW f \in [Url -> Nat], NEW h \in [Url -> Nat], \A u \in Url : f[u] <= h[u]
    PROVE  Total(f) \in Nat /\ Total(h) \in Nat /\ Total(f) <= Total(h)
<1>1. PICK a : Summing(f, a) /\ Total(f) = a[Places]
  BY TotalIs
<1>2. PICK b : Summing(h, b) /\ Total(h) = b[Places]
  BY TotalIs
<1> DEFINE T == {n \in 0..Places : a[n] <= b[n]}
<1>3. 0 \in T
  BY <1>1, <1>2, PlacesType DEF Summing
<1>4. ASSUME NEW n \in 1..Places, n - 1 \in T PROVE n \in T
  <2>1. a[n] = a[n - 1] + f[At(n)] /\ b[n] = b[n - 1] + h[At(n)]
    BY <1>1, <1>2 DEF Summing
  <2>2. n - 1 \in 0..Places /\ n \in 0..Places
    BY PlacesType
  <2>3. a[n - 1] \in Nat /\ b[n - 1] \in Nat
    BY <1>1, <1>2, <2>2 DEF Summing
  <2>4. f[At(n)] \in Nat /\ h[At(n)] \in Nat /\ f[At(n)] <= h[At(n)]
    BY PlacesType
  <2>5. QED BY <1>4, <2>1, <2>2, <2>3, <2>4
<1> HIDE DEF T
<1>5. Places \in T
  BY <1>3, <1>4, PlacesType, UpTo
<1>6. Places \in 0..Places
  BY PlacesType
<1>7. QED BY <1>1, <1>2, <1>5, <1>6 DEF T, Summing

LEMMA TotalPlus ==
    ASSUME NEW f \in [Url -> Nat], NEW w \in Url, NEW h, h = [f EXCEPT ![w] = @ + 1]
    PROVE  h \in [Url -> Nat] /\ Total(h) = Total(f) + 1
<1>0. /\ h \in [Url -> Nat] /\ h[w] = f[w] + 1
      /\ \A u \in Url \ {w} : h[u] = f[u]
  OBVIOUS
<1>1. PICK a : Summing(f, a) /\ Total(f) = a[Places]
  BY TotalIs
<1>2. PICK b : Summing(h, b) /\ Total(h) = b[Places]
  BY <1>0, TotalIs
<1>3. Place(w) \in 1..Places /\ At(Place(w)) = w
  BY PlacesType
<1> DEFINE T == {n \in 0..Places : b[n] = IF n < Place(w) THEN a[n] ELSE a[n] + 1}
<1>4. 0 \in T
  BY <1>1, <1>2, <1>3, PlacesType DEF Summing
<1>5. ASSUME NEW n \in 1..Places, n - 1 \in T PROVE n \in T
  <2>1. a[n] = a[n - 1] + f[At(n)] /\ b[n] = b[n - 1] + h[At(n)]
    BY <1>1, <1>2 DEF Summing
  <2>2. n - 1 \in 0..Places /\ n \in 0..Places
    BY PlacesType
  <2>3. a[n - 1] \in Nat /\ b[n - 1] \in Nat
    BY <1>1, <1>2, <2>2 DEF Summing
  <2>4. At(n) \in Url /\ Place(At(n)) = n
    BY PlacesType
  <2>5. h[At(n)] = IF n = Place(w) THEN f[At(n)] + 1 ELSE f[At(n)]
    BY <1>0, <1>3, <2>4
  <2>6. f[At(n)] \in Nat
    BY <2>4
  <2>7. b[n - 1] = IF n - 1 < Place(w) THEN a[n - 1] ELSE a[n - 1] + 1
    BY <1>5
  <2>8. b[n] = IF n < Place(w) THEN a[n] ELSE a[n] + 1
    BY <1>3, <2>1, <2>3, <2>5, <2>6, <2>7
  <2>9. QED BY <2>2, <2>8
<1> HIDE DEF T
<1>6. Places \in T
  BY <1>4, <1>5, PlacesType, UpTo
<1>7. b[Places] = a[Places] + 1
  BY <1>3, <1>6, PlacesType DEF T
<1>8. QED BY <1>0, <1>1, <1>2, <1>7

(***************************************************************************)
(* The byte budget.  What a job has used is what its fetches have          *)
(* received, so a fetch that overran shows that the pages of its level do  *)
(* not fit the budget, however they were interleaved.  All of this is said *)
(* of a job that has lost no overrun.                                      *)
(***************************************************************************)
Fetched == {u \in Url : task[u] # "idle"}

Counts ==
    /\ used = Total(got)
    /\ \A u \in Url :
         /\ got[u] <= site[u].size
         /\ task[u] = "idle" => got[u] = 0
         /\ task[u] \in {"result", "error"} => got[u] = site[u].size
         /\ task[u] = "error" => site[u].kind = "fetch_error"
         /\ task[u] = "budget" => got[u] < site[u].size /\ used = MaxTotalBytes

Counted == lost = {} => Counts

LEMMA InitCounted == Init => Counted
<1> SUFFICES ASSUME Init PROVE Counts
  BY DEF Counted
<1>1. got = [u \in Url |-> 0] /\ used = 0 /\ task = [u \in Url |-> "idle"]
  BY DEF Init
<1>2. \A u \in Url : site[u].size \in Nat
  BY SiteType DEF Init
<1>3. Total(got) = 0
  BY <1>1, TotalZero
<1>4. QED BY <1>1, <1>2, <1>3 DEF Counts

LEMMA TaskCounted ==
    ASSUME TypeOK, Counts, NEW u \in Url, lost' = {},
           StartFetch(u) \/ Receive(u) \/ FinishFetch(u) \/ CancelFetch(u)
    PROVE  Counts'
<1>0. /\ task \in [Url -> TaskState] /\ got \in [Url -> Nat] /\ used \in 0..MaxTotalBytes
      /\ MaxTotalBytes \in Nat /\ \A v \in Url : site[v].size \in Nat
  BY SiteType, EngineAssumption DEF TypeOK
<1>1. CASE StartFetch(u)
  BY <1>0, <1>1 DEF StartFetch, Counts, control
<1>2. CASE Receive(u)
  <2>1. CASE used + 1 > MaxTotalBytes
    <3>1. /\ task' = [task EXCEPT ![u] = "budget"] /\ got' = got /\ used' = used
          /\ site' = site /\ got[u] < site[u].size
      <4>1. PICK outcome \in Overrun :
              /\ task' = [task EXCEPT ![u] = outcome]
              /\ got' = IF outcome = "fetching" THEN [got EXCEPT ![u] = 0] ELSE got
              /\ lost' = IF outcome = "budget" THEN lost ELSE lost \cup {u}
        BY <1>2, <2>1 DEF Receive
      <4>2. outcome = "budget"
        BY <4>1
      <4>3. QED BY <1>2, <2>1, <4>1, <4>2 DEF Receive
    <3>2. used = MaxTotalBytes
      BY <1>0, <2>1
    <3>3. QED BY <1>0, <3>1, <3>2 DEF Counts
  <2>2. CASE ~(used + 1 > MaxTotalBytes)
    <3>1. /\ used' = used + 1 /\ got' = [got EXCEPT ![u] = @ + 1] /\ task' = task
          /\ site' = site /\ got[u] < site[u].size /\ task[u] = "fetching"
      BY <1>2, <2>2 DEF Receive
    <3>2. Total(got') = Total(got) + 1
      BY <1>0, <3>1, TotalPlus
    <3>3. used' = Total(got')
      BY <3>1, <3>2 DEF Counts
    <3>4. used # MaxTotalBytes
      BY <1>0, <2>2
    <3>5. ASSUME NEW v \in Url
          PROVE  /\ got'[v] <= site[v].size
                 /\ task[v] = "idle" => got'[v] = 0
                 /\ task[v] \in {"result", "error"} => got'[v] = site[v].size
                 /\ task[v] = "error" => site[v].kind = "fetch_error"
                 /\ task[v] # "budget"
      <4>1. CASE v = u
        <5>1. got'[v] = got[u] + 1
          BY <1>0, <3>1, <4>1
        <5>2. QED BY <1>0, <3>1, <4>1, <5>1
      <4>2. CASE v # u
        <5>1. got'[v] = got[v]
          BY <1>0, <3>1, <4>2
        <5>2. QED BY <1>0, <3>4, <4>2, <5>1 DEF Counts
      <4>3. QED BY <4>1, <4>2
    <3>6. QED BY <3>1, <3>3, <3>5 DEF Counts
  <2>3. QED BY <2>1, <2>2
<1>3. CASE FinishFetch(u)
  BY <1>0, <1>3 DEF FinishFetch, Counts
<1>4. CASE CancelFetch(u)
  BY <1>0, <1>4 DEF CancelFetch, Counts
<1>5. QED BY <1>1, <1>2, <1>3, <1>4

\* A lost overrun is not forgotten.
LEMMA LostStays == [Next]_vars => lost \subseteq lost'
<1> SUFFICES ASSUME [Next]_vars PROVE lost \subseteq lost'
  OBVIOUS
<1>1. ASSUME NEW u \in Url, Receive(u) PROVE lost \subseteq lost'
  BY <1>1 DEF Receive
<1>2. ASSUME NEW u \in Url, StartFetch(u) \/ FinishFetch(u) \/ CancelFetch(u)
      PROVE  lost' = lost
  BY <1>2 DEF StartFetch, FinishFetch, CancelFetch
<1>3. CASE RunStep
  BY <1>3 DEF RunStep, StartLevel, GatherReturns, GatherRaises, PublishItem,
     PublishFaults, Unwind, tasks
<1>4. CASE Stop \/ UNCHANGED vars
  BY <1>4 DEF Stop, vars, tasks
<1>5. QED BY <1>1, <1>2, <1>3, <1>4 DEF Next, Network, Ended

LEMMA StepCounted ==
    Counted /\ TypeOK /\ [Next]_vars => Counted'
<1> SUFFICES ASSUME Counts, TypeOK, [Next]_vars, lost' = {} PROVE Counts'
  BY LostStays DEF Counted
<1>0. task \in [Url -> TaskState] /\ got \in [Url -> Nat] /\ \A v \in Url : site[v].size \in Nat
  BY SiteType DEF TypeOK
<1>1. CASE UNCHANGED <<site, task, got, used>>
  BY <1>1 DEF Counts
<1>2. CASE StartLevel
  BY <1>0, <1>2 DEF StartLevel, Counts, EnterFinally
<1>3. CASE \E u \in Url : StartFetch(u) \/ Receive(u) \/ FinishFetch(u) \/ CancelFetch(u)
  BY <1>3, TaskCounted
<1>4. CASE GatherReturns \/ GatherRaises \/ PublishItem \/ PublishFaults \/ Unwind \/ Stop
  BY <1>1, <1>4 DEF GatherReturns, GatherRaises, PublishItem, PublishFaults, Unwind, Stop, tasks
<1>5. CASE UNCHANGED vars
  BY <1>1, <1>5 DEF vars, tasks
<1>6. QED BY <1>2, <1>3, <1>4, <1>5 DEF Next, RunStep, Network, Ended

(***************************************************************************)
(* The reference, step by step.                                            *)
(***************************************************************************)
\* the pages the reference starts after r, and its catalog once they started
NextLevel(r) == First(PopLevel(r.catalog), Cardinality(r.fetched))
Begun(r) == Popped(r.catalog, PopLevel(r.catalog), NextLevel(r))

Jobs == [catalog : Catalogs, fetched : SUBSET Url, cause : {"none", "budget"}]

LEMMA CommitRunSteps ==
    ASSUME site \in Sites, NEW g \in Catalogs, NEW S \in SUBSET Url, NEW c,
           c = CommitRun(site, g, S)
    PROVE  /\ c[0] = g
           /\ \A n \in 0..Cardinality(S) : c[n] \in Catalogs
           /\ \A n \in 1..Cardinality(S) :
                  c[n] = Commit(c[n - 1], Sorted(S)[n], site[Sorted(S)[n]])
<1> DEFINE N == Cardinality(S)
           step == [p \in Catalogs \X (1..N) |->
                        Commit(p[1], Sorted(S)[p[2]], site[Sorted(S)[p[2]]])]
           run_ == CHOOSE after : after = [n \in 0..N |->
                     IF n = 0 THEN g
                     ELSE Commit(after[n - 1], Sorted(S)[n], site[Sorted(S)[n]])]
<1>0. N \in Nat /\ \A n \in 1..N : Sorted(S)[n] \in Url
  BY SortedRank
<1>1. step \in [Catalogs \X (1..N) -> Catalogs]
  <2>1. \A h \in Catalogs, n \in 1..N :
            Commit(h, Sorted(S)[n], site[Sorted(S)[n]]) \in Catalogs
    <3> HIDE DEF N
    <3>1. SUFFICES ASSUME NEW h \in Catalogs, NEW n \in 1..N
                   PROVE Commit(h, Sorted(S)[n], site[Sorted(S)[n]]) \in Catalogs
      OBVIOUS
    <3> DEFINE u == Sorted(S)[n]
    <3>2. u \in Url
      BY <1>0
    <3> HIDE DEF u
    <3>3. Commit(h, u, site[u]) \in Catalogs
      BY <3>2, CommitType
    <3>4. QED BY <3>3 DEF u
  <2>2. QED BY <2>1
<1>2. \E h : /\ h \in [0..N -> Catalogs] /\ h[0] = g
             /\ \A n \in 1..N : h[n] = step[<<h[n - 1], n>>]
  <2> DEFINE X == Catalogs
  <2>1. g \in X /\ step \in [X \X (1..N) -> X]
    BY <1>1
  <2> HIDE DEF step, X, N
  <2>2. Steps(X, g, N, step)
    BY <1>0, <2>1 DEF Steps
  <2>3. \E h : Iteration(X, g, N, step, h)
    BY <2>2, Iterates
  <2>4. QED BY <2>3 DEF X, Iteration
<1>3. PICK h : /\ h \in [0..N -> Catalogs] /\ h[0] = g
               /\ \A n \in 1..N : h[n] = step[<<h[n - 1], n>>]
  <2> HIDE DEF step, N
  <2>1. QED BY <1>2
<1>4. ASSUME NEW n \in 1..N
      PROVE  h[n] = Commit(h[n - 1], Sorted(S)[n], site[Sorted(S)[n]])
  <2> HIDE DEF N
  <2>1. n - 1 \in 0..N
    BY <1>0
  <2>2. h[n - 1] \in Catalogs
    BY <1>3, <2>1
  <2>3. <<h[n - 1], n>> \in Catalogs \X (1..N)
    BY <2>2
  <2>4. step[<<h[n - 1], n>>] = Commit(h[n - 1], Sorted(S)[n], site[Sorted(S)[n]])
    BY <2>3
  <2> HIDE DEF step
  <2>5. QED BY <1>3, <2>4
<1>5. h = [n \in 0..N |-> IF n = 0 THEN g
                          ELSE Commit(h[n - 1], Sorted(S)[n], site[Sorted(S)[n]])]
  <2> HIDE DEF N, step
  <2>1. \A n \in 0..N : n = 0 \/ n \in 1..N
    BY <1>0
  <2>2. \A n \in 0..N : h[n] = IF n = 0 THEN g
                               ELSE Commit(h[n - 1], Sorted(S)[n], site[Sorted(S)[n]])
    BY <1>3, <1>4, <2>1
  <2>3. QED BY <1>3, <2>2
<1>6. run_ = [n \in 0..N |-> IF n = 0 THEN g
                             ELSE Commit(run_[n - 1], Sorted(S)[n], site[Sorted(S)[n]])]
  <2> HIDE DEF N, step
  <2>1. QED BY <1>5
<1>7. c = run_
  BY DEF CommitRun
<1> HIDE DEF run_, step, N
<1>8. c[0] = g /\ \A n \in 1..N : c[n] = Commit(c[n - 1], Sorted(S)[n], site[Sorted(S)[n]])
  <2>1. 0 \in 0..N /\ \A n \in 1..N : n \in 0..N /\ n # 0
    BY <1>0
  <2>2. QED BY <1>6, <1>7, <2>1
<1>9. \A n \in 0..N : c[n] \in Catalogs
  <2> DEFINE T == {n \in 0..N : c[n] \in Catalogs}
  <2>1. 0 \in T
    BY <1>0, <1>8
  <2>2. ASSUME NEW n \in 1..N, n - 1 \in T PROVE n \in T
    <3> DEFINE u == Sorted(S)[n]
               k == c[n - 1]
    <3>1. u \in Url /\ k \in Catalogs /\ n \in 0..N
      BY <1>0, <2>2
    <3> HIDE DEF u, k
    <3>2. Commit(k, u, site[u]) \in Catalogs
      BY <3>1, CommitType
    <3>3. c[n] = Commit(k, u, site[u])
      BY <1>8 DEF u, k
    <3>4. QED BY <3>1, <3>2, <3>3
  <2> HIDE DEF T
  <2>3. \A n \in 0..N : n \in T
    BY <1>0, <2>1, <2>2, UpTo
  <2>4. QED BY <2>3 DEF T
<1>10. QED BY <1>8, <1>9 DEF N

LEMMA LevelType ==
    ASSUME site \in Sites, NEW r \in Jobs
    PROVE  /\ NextLevel(r) \in SUBSET Url /\ Begun(r) \in Catalogs
           /\ CommitAll(site, Begun(r), NextLevel(r)) \in Catalogs
           /\ ReferenceLevel(site, r) \in Jobs
<1> DEFINE g == r.catalog
           S == NextLevel(r)
           b == Begun(r)
<1>1. g \in Catalogs /\ r.fetched \in SUBSET Url /\ r.cause \in {"none", "budget"}
  BY DEF Jobs
<1>2. S \in SUBSET Url
  BY <1>1 DEF NextLevel, First, PopLevel, Catalogs
<1>3. b \in Catalogs
  BY <1>1, PoppedCatalog DEF Begun
<1> HIDE DEF g, S, b
<1>4. Cardinality(S) \in Nat
  BY <1>2, SortedRank
<1> DEFINE c == CommitRun(site, b, S)
<1>5. \A n \in 0..Cardinality(S) : c[n] \in Catalogs
  <2> HIDE DEF c
  <2>1. QED BY <1>2, <1>3, CommitRunSteps DEF c
<1>6. CommitAll(site, b, S) \in Catalogs
  <2>1. Cardinality(S) \in 0..Cardinality(S)
    BY <1>4
  <2>2. QED BY <1>5, <2>1 DEF CommitAll
<1>7. ReferenceLevel(site, r) \in Jobs
  <2>1. ReferenceLevel(site, r) =
          IF r.cause = "budget" THEN r
          ELSE IF Bytes(site, r.fetched \cup S) > MaxTotalBytes
               THEN [r EXCEPT !.cause = "budget"]
          ELSE [catalog |-> CommitAll(site, b, S), fetched |-> r.fetched \cup S,
                cause |-> "none"]
    BY DEF ReferenceLevel, NextLevel, Begun, S, b
  <2>2. [r EXCEPT !.cause = "budget"] \in Jobs
    BY DEF Jobs
  <2>3. [catalog |-> CommitAll(site, b, S), fetched |-> r.fetched \cup S,
         cause |-> "none"] \in Jobs
    BY <1>1, <1>2, <1>6 DEF Jobs
  <2>4. QED BY <2>1, <2>2, <2>3
<1>8. QED BY <1>2, <1>3, <1>6, <1>7 DEF S, b

LEMMA ReferenceSteps ==
    ASSUME site \in Sites, NEW f, f = ReferenceRun(site)
    PROVE  /\ f[0] = [catalog |-> InitCatalog, fetched |-> {}, cause |-> "none"]
           /\ \A n \in 0..(MaxDepth + 1) : f[n] \in Jobs
           /\ \A n \in 1..(MaxDepth + 1) : f[n] = ReferenceLevel(site, f[n - 1])
<1> DEFINE N == MaxDepth + 1
           x == [catalog |-> InitCatalog, fetched |-> {}, cause |-> "none"]
           step == [p \in Jobs \X (1..N) |-> ReferenceLevel(site, p[1])]
           run_ == CHOOSE after : after = [n \in 0..N |->
                     IF n = 0 THEN x ELSE ReferenceLevel(site, after[n - 1])]
<1>0. N \in Nat
  BY EngineAssumption
<1>x. x \in Jobs
  BY InitCatalogType DEF Jobs
<1>1. step \in [Jobs \X (1..N) -> Jobs]
  <2>1. \A r \in Jobs : ReferenceLevel(site, r) \in Jobs
    BY LevelType
  <2> HIDE DEF N
  <2>2. QED BY <2>1
<1>2. \E h : /\ h \in [0..N -> Jobs] /\ h[0] = x
             /\ \A n \in 1..N : h[n] = step[<<h[n - 1], n>>]
  <2> DEFINE X == Jobs
  <2>1. x \in X /\ step \in [X \X (1..N) -> X]
    BY <1>1, <1>x
  <2> HIDE DEF step, X, N, x
  <2>2. Steps(X, x, N, step)
    BY <1>0, <2>1 DEF Steps
  <2>3. \E h : Iteration(X, x, N, step, h)
    BY <2>2, Iterates
  <2>4. QED BY <2>3 DEF X, Iteration
<1>3. PICK h : /\ h \in [0..N -> Jobs] /\ h[0] = x
               /\ \A n \in 1..N : h[n] = step[<<h[n - 1], n>>]
  <2> HIDE DEF step, N, x
  <2>1. QED BY <1>2
<1> HIDE DEF x
<1>4. ASSUME NEW n \in 1..N PROVE h[n] = ReferenceLevel(site, h[n - 1])
  <2> HIDE DEF N
  <2>1. n - 1 \in 0..N
    BY <1>0
  <2>2. h[n - 1] \in Jobs
    BY <1>3, <2>1
  <2>3. <<h[n - 1], n>> \in Jobs \X (1..N)
    BY <2>2
  <2>4. step[<<h[n - 1], n>>] = ReferenceLevel(site, h[n - 1])
    BY <2>3
  <2> HIDE DEF step
  <2>5. QED BY <1>3, <2>4
<1>5. h = [n \in 0..N |-> IF n = 0 THEN x ELSE ReferenceLevel(site, h[n - 1])]
  <2> HIDE DEF N, step
  <2>1. \A n \in 0..N : n = 0 \/ n \in 1..N
    BY <1>0
  <2>2. \A n \in 0..N : h[n] = IF n = 0 THEN x ELSE ReferenceLevel(site, h[n - 1])
    BY <1>3, <1>4, <2>1
  <2>3. QED BY <1>3, <2>2
<1>6. run_ = [n \in 0..N |-> IF n = 0 THEN x ELSE ReferenceLevel(site, run_[n - 1])]
  <2> HIDE DEF N, step
  <2>1. QED BY <1>5
<1>7. f = run_
  BY DEF ReferenceRun, x
<1> HIDE DEF run_, step, N
<1>8. f[0] = x /\ \A n \in 1..N : f[n] = ReferenceLevel(site, f[n - 1])
  <2>1. 0 \in 0..N /\ \A n \in 1..N : n \in 0..N /\ n # 0
    BY <1>0
  <2>2. QED BY <1>6, <1>7, <2>1
<1>9. \A n \in 0..N : f[n] \in Jobs
  <2> DEFINE T == {n \in 0..N : f[n] \in Jobs}
  <2>1. 0 \in T
    BY <1>0, <1>8, <1>x
  <2>2. ASSUME NEW n \in 1..N, n - 1 \in T PROVE n \in T
    <3> DEFINE k == f[n - 1]
    <3>1. k \in Jobs /\ n \in 0..N
      BY <1>0, <2>2
    <3> HIDE DEF k
    <3>2. ReferenceLevel(site, k) \in Jobs
      BY <3>1, LevelType
    <3>3. QED BY <1>8, <3>1, <3>2 DEF k
  <2> HIDE DEF T
  <2>3. \A n \in 0..N : n \in T
    BY <1>0, <2>1, <2>2, UpTo
  <2>4. QED BY <2>3 DEF T
<1>10. QED BY <1>8, <1>9 DEF N, x

\* A job that ReferenceLevel no longer changes is the one the reference ends with.
LEMMA ReferenceEnds ==
    ASSUME site \in Sites, NEW m \in 0..(MaxDepth + 1), NEW r,
           r = ReferenceRun(site)[m], ReferenceLevel(site, r) = r
    PROVE  Reference(site) = r
<1> DEFINE f == ReferenceRun(site)
           N == MaxDepth + 1
           T == {n \in 0..N : n >= m => f[n] = r}
<1>0. N \in Nat
  BY EngineAssumption
<1> HIDE DEF f
<1>1. \A n \in 1..N : f[n] = ReferenceLevel(site, f[n - 1])
  BY ReferenceSteps DEF f
<1>r. f[m] = r
  BY DEF f
<1> HIDE DEF N
<1>2. 0 \in T
  <2>1. 0 >= m => m = 0
    BY DEF N
  <2>2. 0 \in 0..N
    BY <1>0
  <2>3. QED BY <1>r, <2>1, <2>2
<1>3. ASSUME NEW n \in 1..N, n - 1 \in T PROVE n \in T
  <2>0. m \in Nat
    BY <1>0 DEF N
  <2>1. CASE n = m
    BY <1>0, <1>r, <2>1
  <2>2. CASE n > m
    <3>1. n - 1 >= m /\ n \in 0..N
      BY <1>0, <2>0, <2>2
    <3>2. f[n - 1] = r
      BY <1>3, <3>1
    <3>3. f[n] = r
      BY <1>1, <3>2
    <3>4. QED BY <3>1, <3>3
  <2>3. CASE n < m
    BY <1>0, <2>0, <2>3
  <2>4. QED BY <1>0, <2>0, <2>1, <2>2, <2>3
<1> HIDE DEF T
<1>4. \A n \in 0..N : n \in T
  BY <1>0, <1>2, <1>3, UpTo
<1>5. N \in 0..N /\ N >= m
  BY <1>0 DEF N
<1>6. f[N] = r
  BY <1>4, <1>5 DEF T
<1>7. QED BY <1>6 DEF Reference, f, N

LEMMA SameRecord ==
    ASSUME NEW g \in Catalogs, NEW h \in Catalogs,
           g.status = h.status, g.depth = h.depth, g.row = h.row,
           g.frontier = h.frontier, g.found = h.found,
           g.artifactIds = h.artifactIds, g.cas = h.cas,
           g.acquisitions = h.acquisitions
    PROVE  g = h
BY DEF Catalogs

\* A level with no page to start ends the crawl: what is left of the frontier
\* is rejected, and later levels find it empty.
LEMMA NoMorePages ==
    ASSUME site \in Sites, NEW r \in Jobs, r.cause = "none", NextLevel(r) = {},
           ~(Bytes(site, r.fetched) > MaxTotalBytes)
    PROVE  ReferenceLevel(site, r) =
              [catalog |-> Begun(r), fetched |-> r.fetched, cause |-> "none"]
<1> DEFINE b == Begun(r)
           S == {}
<1>1. b \in Catalogs
  BY LevelType
<1>2. CommitAll(site, b, S) = b
  <2> HIDE DEF b
  <2> DEFINE c == CommitRun(site, b, S)
  <2>1. S \in SUBSET Url /\ Cardinality(S) = 0
    BY FS_EmptySet
  <2> HIDE DEF c, S
  <2>2. c[0] = b
    BY <1>1, <2>1, CommitRunSteps DEF c
  <2>3. QED BY <2>1, <2>2 DEF CommitAll, c
<1>3. r.fetched \cup S = r.fetched
  OBVIOUS
<1>4. QED BY <1>2, <1>3 DEF ReferenceLevel, NextLevel, Begun

LEMMA EmptyFrontier ==
    ASSUME NEW r \in Jobs, r.catalog.frontier = {}
    PROVE  NextLevel(r) = {} /\ Begun(r) = r.catalog
<1> DEFINE g == r.catalog
           b == Begun(r)
           P == PopLevel(g)
           S == NextLevel(r)
<1>1. g \in Catalogs
  BY DEF Jobs
<1>2. P = {} /\ S = {}
  BY DEF PopLevel, NextLevel, First
<1> HIDE DEF P, S
<1>3. b = Popped(g, P, S)
  BY DEF Begun, P, S
<1> HIDE DEF g, b
<1>4. /\ b \in Catalogs
      /\ b.status = [u \in Url |-> IF u \in P \ S THEN "rejected" ELSE g.status[u]]
      /\ b.row = [u \in Url |-> IF u \in P \ S THEN "rejected" ELSE g.row[u]]
      /\ b.frontier = g.frontier \ P
      /\ b.depth = g.depth /\ b.found = g.found
      /\ b.artifactIds = g.artifactIds /\ b.cas = g.cas
      /\ b.acquisitions = g.acquisitions
  BY <1>1, <1>3, PoppedCatalog
<1>5. g.status \in [Url -> Status] /\ g.row \in [Url -> Status]
  BY <1>1 DEF Catalogs
<1>6. b.status = g.status /\ b.row = g.row /\ b.frontier = g.frontier
  BY <1>2, <1>4, <1>5
<1>7. b = g
  BY <1>1, <1>4, <1>6, SameRecord
<1>8. QED BY <1>2, <1>7 DEF S, b, g

LEMMA LastLevel ==
    ASSUME site \in Sites, NEW m \in 0..(MaxDepth + 1), NEW r,
           r = ReferenceRun(site)[m], r.cause = "none", NextLevel(r) = {},
           PopLevel(r.catalog) = r.catalog.frontier,
           m = MaxDepth + 1 => r.catalog.frontier = {},
           ~(Bytes(site, r.fetched) > MaxTotalBytes)
    PROVE  Reference(site) =
              [catalog |-> Begun(r), fetched |-> r.fetched, cause |-> "none"]
<1> DEFINE f == ReferenceRun(site)
           q == [catalog |-> Begun(r), fetched |-> r.fetched, cause |-> "none"]
<1> HIDE DEF f
<1>1. /\ \A n \in 0..(MaxDepth + 1) : f[n] \in Jobs
      /\ \A n \in 1..(MaxDepth + 1) : f[n] = ReferenceLevel(site, f[n - 1])
  BY ReferenceSteps DEF f
<1>2. r \in Jobs
  BY <1>1 DEF f
<1>3. ReferenceLevel(site, r) = q
  BY <1>2, NoMorePages
<1>4. q \in Jobs
  BY <1>2, <1>3, LevelType
<1>5. Begun(r).frontier = {}
  <2> DEFINE g == r.catalog
             P == PopLevel(g)
             S == NextLevel(r)
             b == Begun(r)
  <2>1. g \in Catalogs
    BY <1>2 DEF Jobs
  <2>2. b = Popped(g, P, S) /\ P = g.frontier
    BY DEF Begun
  <2> HIDE DEF g, P, S, b
  <2>3. /\ b \in Catalogs
        /\ b.status = [u \in Url |-> IF u \in P \ S THEN "rejected" ELSE g.status[u]]
        /\ b.row = [u \in Url |-> IF u \in P \ S THEN "rejected" ELSE g.row[u]]
        /\ b.frontier = g.frontier \ P
        /\ b.depth = g.depth /\ b.found = g.found
        /\ b.artifactIds = g.artifactIds /\ b.cas = g.cas
        /\ b.acquisitions = g.acquisitions
    BY <2>1, <2>2, PoppedCatalog
  <2>4. QED BY <2>2, <2>3 DEF b
<1>6. ReferenceLevel(site, q) = q
  <2>1. q.catalog.frontier = {} /\ q.cause = "none" /\ q.fetched = r.fetched
        /\ q.catalog = Begun(r)
    BY <1>5
  <2> HIDE DEF q
  <2>2. NextLevel(q) = {} /\ Begun(q) = q.catalog
    BY <1>4, <2>1, EmptyFrontier
  <2>3. ReferenceLevel(site, q) =
          [catalog |-> Begun(q), fetched |-> q.fetched, cause |-> "none"]
    BY <1>4, <2>1, <2>2, NoMorePages
  <2>4. QED BY <2>1, <2>2, <2>3 DEF q
<1>7. CASE m <= MaxDepth
  <2>1. m + 1 \in 1..(MaxDepth + 1) /\ m + 1 \in 0..(MaxDepth + 1) /\ (m + 1) - 1 = m
    BY <1>7, EngineAssumption
  <2>2. f[m + 1] = q
    BY <1>1, <1>3, <2>1 DEF f
  <2> DEFINE k == m + 1
  <2> HIDE DEF q, k
  <2>3. Reference(site) = q
    BY <1>6, <2>1, <2>2, ReferenceEnds DEF f, k
  <2>4. QED BY <2>3 DEF q
<1>8. CASE m = MaxDepth + 1
  <2>1. r.catalog.frontier = {}
    BY <1>8
  <2>2. Begun(r) = r.catalog
    BY <1>2, <2>1, EmptyFrontier
  <2>3. q = r
    BY <1>2, <2>2 DEF Jobs
  <2> HIDE DEF q
  <2>4. ReferenceLevel(site, r) = r
    BY <1>3, <2>3
  <2>5. Reference(site) = r
    BY <2>4, ReferenceEnds
  <2>6. QED BY <2>3, <2>5 DEF q
<1>9. QED BY <1>7, <1>8, EngineAssumption

\* The first level that does not fit the byte budget fails the job.
LEMMA OverBudget ==
    ASSUME site \in Sites, NEW m \in 0..MaxDepth, NEW r,
           r = ReferenceRun(site)[m], r.cause = "none",
           Bytes(site, r.fetched \cup NextLevel(r)) > MaxTotalBytes
    PROVE  /\ Reference(site).cause = "budget"
           /\ Reference(site).catalog = r.catalog
<1> DEFINE f == ReferenceRun(site)
           q == [r EXCEPT !.cause = "budget"]
           k == m + 1
<1> HIDE DEF f
<1>1. /\ \A n \in 0..(MaxDepth + 1) : f[n] \in Jobs
      /\ \A n \in 1..(MaxDepth + 1) : f[n] = ReferenceLevel(site, f[n - 1])
  BY ReferenceSteps DEF f
<1>2. k \in 1..(MaxDepth + 1) /\ k \in 0..(MaxDepth + 1) /\ k - 1 = m /\ m \in 0..(MaxDepth + 1)
  BY EngineAssumption
<1>3. r \in Jobs
  BY <1>1, <1>2 DEF f
<1>4. q.cause = "budget" /\ q.catalog = r.catalog
  BY <1>3 DEF Jobs
<1>5. ReferenceLevel(site, r) = q
  BY DEF ReferenceLevel, NextLevel
<1> HIDE DEF q, k
<1>6. ReferenceLevel(site, q) = q
  BY <1>4 DEF ReferenceLevel
<1>7. f[k] = q
  BY <1>1, <1>2, <1>5 DEF f
<1>8. Reference(site) = q
  BY <1>2, <1>6, <1>7, ReferenceEnds DEF f
<1>9. QED BY <1>4, <1>8

-----------------------------------------------------------------------------
(***************************************************************************)
(* What a level's publication makes of the catalog does not depend on how  *)
(* far the fetches of the items still to be published have come: Masked    *)
(* hides that, and commutes with the publication of an item.               *)
(***************************************************************************)
Masked(g, S) ==
    LET mask(f) == [u \in Url |-> IF u \in S THEN "accepted" ELSE f[u]]
    IN  [g EXCEPT !.status = mask(@), !.row = mask(@)]

Alike(g, h) ==
    /\ g \in Catalogs /\ h \in Catalogs
    /\ \A u \in Url : g.status[u] = h.status[u] /\ g.row[u] = h.row[u]
    /\ g.depth = h.depth /\ g.frontier = h.frontier /\ g.found = h.found
    /\ g.artifactIds = h.artifactIds /\ g.cas = h.cas
    /\ g.acquisitions = h.acquisitions

LEMMA SameCatalogs ==
    ASSUME NEW g, NEW h, Alike(g, h)
    PROVE  g = h
<1>1. /\ g.status \in [Url -> Status] /\ g.row \in [Url -> Status]
      /\ h.status \in [Url -> Status] /\ h.row \in [Url -> Status]
  BY DEF Alike, Catalogs
<1>2. g.status = h.status /\ g.row = h.row
  BY <1>1 DEF Alike
<1>3. QED BY <1>2, SameRecord DEF Alike

Masking(g, S, m) ==
    /\ m \in Catalogs
    /\ \A u \in Url : m.status[u] = IF u \in S THEN "accepted" ELSE g.status[u]
    /\ \A u \in Url : m.row[u] = IF u \in S THEN "accepted" ELSE g.row[u]
    /\ m.depth = g.depth /\ m.frontier = g.frontier
    /\ m.found = g.found /\ m.artifactIds = g.artifactIds
    /\ m.cas = g.cas /\ m.acquisitions = g.acquisitions

LEMMA MaskedEffect ==
    ASSUME NEW g \in Catalogs, NEW S, NEW m, m = Masked(g, S)
    PROVE  Masking(g, S, m)
<1> DEFINE st == [u \in Url |-> IF u \in S THEN "accepted" ELSE g.status[u]]
           ro == [u \in Url |-> IF u \in S THEN "accepted" ELSE g.row[u]]
<1>1. st \in [Url -> Status] /\ ro \in [Url -> Status]
  BY DEF Catalogs, Status
<1>2. m = [g EXCEPT !.status = st, !.row = ro]
  BY DEF Masked
<1>3. /\ \A u \in Url : st[u] = IF u \in S THEN "accepted" ELSE g.status[u]
      /\ \A u \in Url : ro[u] = IF u \in S THEN "accepted" ELSE g.row[u]
  OBVIOUS
<1> HIDE DEF st, ro
<1>4. /\ m \in Catalogs /\ m.status = st /\ m.row = ro
      /\ m.depth = g.depth /\ m.frontier = g.frontier
      /\ m.found = g.found /\ m.artifactIds = g.artifactIds
      /\ m.cas = g.cas /\ m.acquisitions = g.acquisitions
  BY <1>1, <1>2 DEF Catalogs
<1>5. QED BY <1>3, <1>4 DEF Masking

\* Catalogs that differ in the statuses of S alone look the same once masked.
LEMMA MaskedSame ==
    ASSUME NEW g \in Catalogs, NEW h \in Catalogs, NEW S,
           \A u \in Url \ S : g.status[u] = h.status[u] /\ g.row[u] = h.row[u],
           g.depth = h.depth, g.frontier = h.frontier, g.found = h.found,
           g.artifactIds = h.artifactIds, g.cas = h.cas,
           g.acquisitions = h.acquisitions
    PROVE  Masked(g, S) = Masked(h, S)
<1> DEFINE m == Masked(g, S)
           k == Masked(h, S)
<1>1. Masking(g, S, m)
  BY MaskedEffect
<1>2. Masking(h, S, k)
  BY MaskedEffect
<1> HIDE DEF m, k
<1>3. \A u \in Url : m.status[u] = k.status[u] /\ m.row[u] = k.row[u]
  BY <1>1, <1>2 DEF Masking
<1>4. m = k
  <2>1. Alike(m, k)
    BY <1>1, <1>2, <1>3 DEF Alike, Masking
  <2>2. QED BY <2>1, SameCatalogs
<1>5. QED BY <1>4 DEF m, k

\* The items of S are known.
Hidden(g, S) == \A u \in S : Known(g, u)

LEMMA DiscoverMasked ==
    ASSUME NEW g \in Catalogs, NEW S \in SUBSET Url, Hidden(g, S),
           NEW u \in Url, NEW d \in Nat,
           NEW h, h = Discover(g, u, d), NEW m, m = Masked(g, S)
    PROVE  /\ h \in Catalogs /\ Hidden(h, S)
           /\ Discover(m, u, d) = Masked(h, S)
<1>g. /\ g.status \in [Url -> Status] /\ g.row \in [Url -> Status]
      /\ g.depth \in [Url -> Nat] /\ g.found \in 0..MaxDiscoveries
  BY DEF Catalogs
<1>o. DiscoverOutcome(g, u, d, h)
  BY DiscoverEffect
<1>h. h \in Catalogs
  BY <1>o DEF DiscoverOutcome
<1>k. Hidden(h, S)
  BY <1>o DEF Hidden, Known, DiscoverOutcome
<1>m. Masking(g, S, m)
  BY MaskedEffect
<1>mm. m \in Catalogs /\ m.status \in [Url -> Status] /\ m.row \in [Url -> Status]
  BY <1>m DEF Masking, Catalogs
<1> DEFINE e == Discover(m, u, d)
           w == Masked(h, S)
<1>w. Masking(h, S, w)
  BY <1>h, MaskedEffect
<1> HIDE DEF w
<1>s. Known(m, u) <=> Known(g, u)
  BY <1>m DEF Known, Hidden, Masking
<1>e. e \in Catalogs
  <2> HIDE DEF e
  <2>1. DiscoverOutcome(m, u, d, e)
    BY <1>mm, DiscoverEffect DEF e
  <2>2. QED BY <2>1 DEF DiscoverOutcome
<1>1. CASE g.found >= MaxDiscoveries
  <2>1. h = g /\ e = m
    BY <1>1, <1>m DEF Discover, Masking
  <2>2. QED BY <1>h, <1>k, <2>1
<1>2. CASE ~(g.found >= MaxDiscoveries) /\ Known(g, u)
  <2>1. h = [g EXCEPT !.found = @ + 1, !.row[u] = g.status[u]]
    BY <1>2 DEF Discover
  <2>2. e = [m EXCEPT !.found = @ + 1, !.row[u] = m.status[u]]
    BY <1>2, <1>m, <1>s DEF Discover, Masking
  <2>3. /\ h.found = g.found + 1 /\ h.row = [g.row EXCEPT ![u] = g.status[u]]
        /\ h.status = g.status /\ h.depth = g.depth /\ h.frontier = g.frontier
        /\ h.artifactIds = g.artifactIds /\ h.cas = g.cas
        /\ h.acquisitions = g.acquisitions
    BY <2>1 DEF Catalogs
  <2>4. /\ e.found = m.found + 1 /\ e.row = [m.row EXCEPT ![u] = m.status[u]]
        /\ e.status = m.status /\ e.depth = m.depth /\ e.frontier = m.frontier
        /\ e.artifactIds = m.artifactIds /\ e.cas = m.cas
        /\ e.acquisitions = m.acquisitions
    BY <2>2, <1>mm DEF Catalogs
  <2> HIDE DEF e
  <2>5. \A v \in Url : e.status[v] = w.status[v]
    BY <1>m, <1>w, <2>3, <2>4 DEF Masking
  <2>6. \A v \in Url : e.row[v] = w.row[v]
    <3>1. \A v \in Url : e.row[v] = IF v = u THEN m.status[u] ELSE m.row[v]
      BY <1>mm, <2>4
    <3>2. \A v \in Url : h.row[v] = IF v = u THEN g.status[u] ELSE g.row[v]
      BY <1>g, <2>3
    <3>3. QED BY <1>m, <1>w, <3>1, <3>2 DEF Masking
  <2>7. e = w
    <3>1. Alike(e, w)
      BY <1>e, <1>m, <1>w, <2>3, <2>4, <2>5, <2>6 DEF Alike, Masking
    <3>2. QED BY <3>1, SameCatalogs
  <2>8. QED BY <1>h, <1>k, <2>7 DEF e, w
<1>3. CASE ~(g.found >= MaxDiscoveries) /\ ~Known(g, u)
  <2> DEFINE ok == u \notin Denied /\ d <= MaxDepth
             s == IF ok THEN "accepted" ELSE "rejected"
  <2>0. u \notin S
    BY <1>3 DEF Hidden
  <2>1. h = [Mark(g, u, s) EXCEPT !.found = @ + 1, !.depth[u] = d,
                                  !.frontier = IF ok THEN @ \cup {u} ELSE @]
    BY <1>3 DEF Discover
  <2>2. e = [Mark(m, u, s) EXCEPT !.found = @ + 1, !.depth[u] = d,
                                  !.frontier = IF ok THEN @ \cup {u} ELSE @]
    BY <1>3, <1>m, <1>s DEF Discover, Masking
  <2> HIDE DEF ok, s
  <2>3. /\ h.found = g.found + 1 /\ h.row = [g.row EXCEPT ![u] = s]
        /\ h.status = [g.status EXCEPT ![u] = s] /\ h.depth = [g.depth EXCEPT ![u] = d]
        /\ h.frontier = IF ok THEN g.frontier \cup {u} ELSE g.frontier
        /\ h.artifactIds = g.artifactIds /\ h.cas = g.cas
        /\ h.acquisitions = g.acquisitions
    BY <2>1 DEF Catalogs, Mark
  <2>4. /\ e.found = m.found + 1 /\ e.row = [m.row EXCEPT ![u] = s]
        /\ e.status = [m.status EXCEPT ![u] = s] /\ e.depth = [m.depth EXCEPT ![u] = d]
        /\ e.frontier = IF ok THEN m.frontier \cup {u} ELSE m.frontier
        /\ e.artifactIds = m.artifactIds /\ e.cas = m.cas
        /\ e.acquisitions = m.acquisitions
    BY <2>2, <1>mm DEF Catalogs, Mark
  <2> HIDE DEF e
  <2>5. \A v \in Url : e.status[v] = w.status[v]
    <3>1. \A v \in Url : e.status[v] = IF v = u THEN s ELSE m.status[v]
      BY <1>mm, <2>4
    <3>2. \A v \in Url : h.status[v] = IF v = u THEN s ELSE g.status[v]
      BY <1>g, <2>3
    <3>3. QED BY <1>m, <1>w, <2>0, <3>1, <3>2 DEF Masking
  <2>6. \A v \in Url : e.row[v] = w.row[v]
    <3>1. \A v \in Url : e.row[v] = IF v = u THEN s ELSE m.row[v]
      BY <1>mm, <2>4
    <3>2. \A v \in Url : h.row[v] = IF v = u THEN s ELSE g.row[v]
      BY <1>g, <2>3
    <3>3. QED BY <1>m, <1>w, <2>0, <3>1, <3>2 DEF Masking
  <2>7. e.depth = w.depth /\ e.found = w.found /\ e.frontier = w.frontier
    BY <1>m, <1>w, <2>3, <2>4 DEF Masking
  <2>8. e = w
    <3>1. Alike(e, w)
      BY <1>e, <1>m, <1>w, <2>3, <2>4, <2>5, <2>6, <2>7 DEF Alike, Masking
    <3>2. QED BY <3>1, SameCatalogs
  <2>9. QED BY <1>h, <1>k, <2>8 DEF e, w
<1>4. QED BY <1>1, <1>2, <1>3

\* A whole list of links.
LEMMA DiscoverLinksMasked ==
    ASSUME NEW g \in Catalogs, NEW S \in SUBSET Url, Hidden(g, S),
           NEW links \in Seq(Url), NEW d \in Nat, NEW h, h = DiscoverLinks(g, links, d),
           NEW m, m = Masked(g, S)
    PROVE  DiscoverLinks(m, links, d) = Masked(h, S)
<1> DEFINE n == Len(links)
           e == DiscoverLinks(m, links, d)
<1>0. n \in Nat /\ \A i \in 1..n : links[i] \in Url
  OBVIOUS
<1> HIDE DEF e
<1>1. PICK f : Between(f, g, links, d, n) /\ h = f[n]
  BY DiscoverLinksBetween
<1>2. PICK k : Between(k, m, links, d, n) /\ e = k[n]
  BY DiscoverLinksBetween DEF e
<1> HIDE DEF n
<1> DEFINE T == {i \in 0..n : f[i] \in Catalogs /\ Hidden(f[i], S) /\ k[i] = Masked(f[i], S)}
<1>3. 0 \in T
  <2>1. 0 \in 0..n
    BY <1>0
  <2>2. f[0] = g /\ k[0] = m
    BY <1>1, <1>2, <2>1 DEF Between
  <2>3. QED BY <2>1, <2>2
<1>4. ASSUME NEW i \in 1..n, i - 1 \in T PROVE i \in T
  <2> DEFINE a == f[i - 1]
             b == k[i - 1]
             u == links[i]
  <2>1. a \in Catalogs /\ Hidden(a, S) /\ b = Masked(a, S) /\ u \in Url
    BY <1>0, <1>4
  <2>2. i \in 0..n /\ i # 0
    BY <1>0
  <2>3. f[i] = Discover(a, u, d) /\ k[i] = Discover(b, u, d)
    BY <1>1, <1>2, <2>2 DEF Between
  <2> HIDE DEF a, b, u
  <2> DEFINE x == f[i]
  <2> HIDE DEF x
  <2>4. x \in Catalogs /\ Hidden(x, S) /\ Discover(b, u, d) = Masked(x, S)
    BY <2>1, <2>3, DiscoverMasked DEF x
  <2>5. QED BY <2>2, <2>3, <2>4 DEF x
<1> HIDE DEF T
<1>5. \A i \in 0..n : i \in T
  BY <1>0, <1>3, <1>4, UpTo
<1>6. n \in T
  BY <1>0, <1>5
<1>7. QED BY <1>1, <1>2, <1>6 DEF T, e

\* An acquired page, before its links are discovered.
Acquiring(g, u, y) ==
    /\ y \in Catalogs
    /\ \A v \in Url : y.status[v] = IF v = u THEN "acquired" ELSE g.status[v]
    /\ \A v \in Url : y.row[v] = IF v = u THEN "acquired" ELSE g.row[v]
    /\ y.depth = g.depth /\ y.frontier = g.frontier /\ y.found = g.found
    /\ y.artifactIds = g.artifactIds \cup {site[u].content}
    /\ y.cas = g.cas \cup {site[u].content}
    /\ y.acquisitions = g.acquisitions \cup {<<u, site[u].content>>}

LEMMA AcquiredEffect ==
    ASSUME NEW g \in Catalogs, site \in Sites, NEW u \in Url, NEW y,
           y = Published(Sealed(g, u, site[u].content), u, site[u].content)
    PROVE  Acquiring(g, u, y)
<1> DEFINE x == Sealed(g, u, site[u].content)
<1>1. /\ x \in Catalogs
      /\ x.status = [g.status EXCEPT ![u] = "acquired"]
      /\ x.cas = g.cas \cup {site[u].content}
      /\ x.artifactIds = g.artifactIds \cup {site[u].content}
      /\ x.row = g.row /\ x.depth = g.depth /\ x.frontier = g.frontier
      /\ x.found = g.found /\ x.acquisitions = g.acquisitions
  BY SealedEffect
<1>2. y = Published(x, u, site[u].content)
  OBVIOUS
<1> HIDE DEF x
<1>3. /\ y \in Catalogs
      /\ y.row = [x.row EXCEPT ![u] = "acquired"]
      /\ y.acquisitions = x.acquisitions \cup {<<u, site[u].content>>}
      /\ y.status = x.status /\ y.depth = x.depth
      /\ y.frontier = x.frontier /\ y.found = x.found
      /\ y.artifactIds = x.artifactIds /\ y.cas = x.cas
  BY <1>1, <1>2, PublishedEffect
<1>4. g.status \in [Url -> Status] /\ g.row \in [Url -> Status]
  BY DEF Catalogs
<1>5. /\ \A v \in Url : y.status[v] = IF v = u THEN "acquired" ELSE g.status[v]
      /\ \A v \in Url : y.row[v] = IF v = u THEN "acquired" ELSE g.row[v]
  BY <1>1, <1>3, <1>4
<1>6. QED BY <1>1, <1>3, <1>5 DEF Acquiring

\* A marked or acquired item u, seen through a mask that no longer hides u.
Settling(g, m, S, u, s, h, e) ==
    /\ g \in Catalogs /\ m = Masked(g, S) /\ h \in Catalogs /\ e \in Catalogs
    /\ \A v \in Url : /\ h.status[v] = IF v = u THEN s ELSE g.status[v]
                      /\ h.row[v] = IF v = u THEN s ELSE g.row[v]
                      /\ e.status[v] = IF v = u THEN s ELSE m.status[v]
                      /\ e.row[v] = IF v = u THEN s ELSE m.row[v]
    /\ e.depth = h.depth /\ e.frontier = h.frontier /\ e.found = h.found
    /\ e.artifactIds = h.artifactIds /\ e.cas = h.cas
    /\ e.acquisitions = h.acquisitions

LEMMA SettledMasked ==
    ASSUME NEW g, NEW m, NEW S, NEW u, NEW s, NEW h, NEW e, Settling(g, m, S, u, s, h, e),
           NEW Q, Q = S \ {u}
    PROVE  e = Masked(h, Q)
<1> USE DEF Settling
<1>1. Masking(g, S, m)
  BY MaskedEffect
<1>2. \A v \in Url : v \in Q <=> v \in S /\ v # u
  OBVIOUS
<1> DEFINE w == Masked(h, Q)
<1>3. Masking(h, Q, w)
  BY MaskedEffect
<1> HIDE DEF w
<1>4. \A v \in Url : e.status[v] = w.status[v] /\ e.row[v] = w.row[v]
  BY <1>1, <1>2, <1>3 DEF Masking
<1>5. Alike(e, w)
  BY <1>3, <1>4 DEF Alike, Masking
<1>6. e = w
  BY <1>5, SameCatalogs
<1>7. QED BY <1>6 DEF w

LEMMA MarkMasked ==
    ASSUME NEW g \in Catalogs, NEW S, NEW u \in Url, NEW m, m = Masked(g, S),
           NEW s \in Status, NEW h, h = Mark(g, u, s), NEW e, e = Mark(m, u, s),
           NEW Q, Q = S \ {u}
    PROVE  e = Masked(h, Q)
<1>m. /\ m \in Catalogs /\ m.depth = g.depth /\ m.frontier = g.frontier
      /\ m.found = g.found /\ m.artifactIds = g.artifactIds
      /\ m.cas = g.cas /\ m.acquisitions = g.acquisitions
  BY MaskedEffect DEF Masking
<1>1. /\ h \in Catalogs
      /\ h.status = [g.status EXCEPT ![u] = s]
      /\ h.row = [g.row EXCEPT ![u] = s]
      /\ h.depth = g.depth /\ h.frontier = g.frontier
      /\ h.found = g.found /\ h.artifactIds = g.artifactIds
      /\ h.cas = g.cas /\ h.acquisitions = g.acquisitions
  BY MarkEffect
<1>2. /\ e \in Catalogs
      /\ e.status = [m.status EXCEPT ![u] = s]
      /\ e.row = [m.row EXCEPT ![u] = s]
      /\ e.depth = m.depth /\ e.frontier = m.frontier
      /\ e.found = m.found /\ e.artifactIds = m.artifactIds
      /\ e.cas = m.cas /\ e.acquisitions = m.acquisitions
  BY <1>m, MarkEffect
<1>3. \A v \in Url : /\ h.status[v] = IF v = u THEN s ELSE g.status[v]
                     /\ h.row[v] = IF v = u THEN s ELSE g.row[v]
  BY <1>1 DEF Catalogs
<1>4. \A v \in Url : /\ e.status[v] = IF v = u THEN s ELSE m.status[v]
                     /\ e.row[v] = IF v = u THEN s ELSE m.row[v]
  BY <1>m, <1>2 DEF Catalogs
<1>5. Settling(g, m, S, u, s, h, e)
  BY <1>m, <1>1, <1>2, <1>3, <1>4 DEF Settling
<1>6. QED BY <1>5, SettledMasked

LEMMA AcquiredMasked ==
    ASSUME NEW g \in Catalogs, site \in Sites, NEW S, NEW u \in Url, NEW m, m = Masked(g, S),
           NEW h, h = Published(Sealed(g, u, site[u].content), u, site[u].content),
           NEW e, e = Published(Sealed(m, u, site[u].content), u, site[u].content),
           NEW Q, Q = S \ {u}
    PROVE  e = Masked(h, Q)
<1>m. /\ m \in Catalogs /\ m.depth = g.depth /\ m.frontier = g.frontier
      /\ m.found = g.found /\ m.artifactIds = g.artifactIds
      /\ m.cas = g.cas /\ m.acquisitions = g.acquisitions
  BY MaskedEffect DEF Masking
<1> DEFINE s == "acquired"
<1>1. Acquiring(g, u, h) /\ Acquiring(m, u, e)
  BY <1>m, AcquiredEffect
<1>2. /\ h \in Catalogs /\ e \in Catalogs
      /\ \A v \in Url : /\ h.status[v] = IF v = u THEN s ELSE g.status[v]
                        /\ h.row[v] = IF v = u THEN s ELSE g.row[v]
                        /\ e.status[v] = IF v = u THEN s ELSE m.status[v]
                        /\ e.row[v] = IF v = u THEN s ELSE m.row[v]
  BY <1>1 DEF Acquiring
<1> HIDE DEF s
<1>3. /\ e.depth = h.depth /\ e.frontier = h.frontier /\ e.found = h.found
      /\ e.artifactIds = h.artifactIds /\ e.cas = h.cas
      /\ e.acquisitions = h.acquisitions
  BY <1>m, <1>1 DEF Acquiring
<1>4. Settling(g, m, S, u, s, h, e)
  BY <1>m, <1>2, <1>3 DEF Settling
<1>5. QED BY <1>4, SettledMasked

\* The publication of an item, and what it leaves hidden.
LEMMA CommitMasked ==
    ASSUME NEW g \in Catalogs, site \in Sites, NEW S \in SUBSET Url, Hidden(g, S),
           NEW u \in S, NEW h, h = Commit(g, u, site[u]), NEW m, m = Masked(g, S),
           NEW Q, Q = S \ {u}
    PROVE  Commit(m, u, site[u]) = Masked(h, Q)
<1> DEFINE c == site[u].content
           links == site[u].links
           d == g.depth[u] + 1
<1>0. u \in Url
  OBVIOUS
<1>l. Q \in SUBSET Url /\ links \in Seq(Url)
  BY <1>0, SiteType
<1>d. d \in Nat
  BY <1>0 DEF Catalogs
<1>m. m \in Catalogs /\ m.depth = g.depth /\ m.artifactIds = g.artifactIds
  BY MaskedEffect DEF Masking
<1>1. ASSUME NEW s \in Status, h = Mark(g, u, s), Commit(m, u, site[u]) = Mark(m, u, s)
      PROVE  Commit(m, u, site[u]) = Masked(h, Q)
  BY <1>0, <1>1, MarkMasked
<1>2. CASE site[u].kind # "page"
  <2>1. h = Mark(g, u, "failed") /\ Commit(m, u, site[u]) = Mark(m, u, "failed")
    BY <1>2 DEF Commit
  <2>2. QED BY <1>1, <2>1 DEF Status
<1>3. CASE site[u].kind = "page" /\ OverArtifactLimit(g, c)
  <2>1. OverArtifactLimit(m, c)
    BY <1>3, <1>m DEF OverArtifactLimit
  <2>2. h = Mark(g, u, "rejected") /\ Commit(m, u, site[u]) = Mark(m, u, "rejected")
    BY <1>3, <2>1 DEF Commit
  <2>3. QED BY <1>1, <2>2 DEF Status
<1>4. CASE site[u].kind = "page" /\ ~OverArtifactLimit(g, c)
  <2> DEFINE y == Published(Sealed(g, u, c), u, c)
             y2 == Published(Sealed(m, u, c), u, c)
  <2>1. h = DiscoverLinks(y, links, d)
    BY <1>4 DEF Commit
  <2>2. ~OverArtifactLimit(m, c)
    BY <1>4, <1>m DEF OverArtifactLimit
  <2>3. Commit(m, u, site[u]) = DiscoverLinks(y2, links, d)
    BY <1>4, <1>m, <2>2 DEF Commit
  <2>4. y2 = Masked(y, Q)
    <3>1. y = Published(Sealed(g, u, site[u].content), u, site[u].content)
          /\ y2 = Published(Sealed(m, u, site[u].content), u, site[u].content)
      OBVIOUS
    <3> HIDE DEF y, y2, c, links, d
    <3>2. QED BY <1>0, <3>1, AcquiredMasked
  <2>5. /\ y \in Catalogs
        /\ \A v \in Url : y.status[v] = IF v = u THEN "acquired" ELSE g.status[v]
    BY <1>0, AcquiredEffect DEF Acquiring
  <2> HIDE DEF y, y2, links, d, c
  <2>6. Hidden(y, Q)
    BY <2>5 DEF Hidden, Known
  <2>7. DiscoverLinks(y2, links, d) = Masked(h, Q)
    BY <1>l, <1>d, <2>1, <2>4, <2>5, <2>6, DiscoverLinksMasked
  <2>8. QED BY <2>3, <2>7
<1>5. QED BY <1>2, <1>3, <1>4

-----------------------------------------------------------------------------
(***************************************************************************)
(* The job follows the reference.  F are the pages started so far and T    *)
(* those of the level that are still to be published: what was started is  *)
(* known and never queued again, what is queued lies within MaxDepth, and  *)
(* nothing else is unsettled.                                              *)
(***************************************************************************)
Closed(g, F, T) ==
    /\ \A u \in F : Known(g, u) /\ u \notin g.frontier
    /\ \A u \in g.frontier : Known(g, u) /\ g.depth[u] <= MaxDepth
    /\ \A u \in Url : g.status[u] \in Unsettled => u \in g.frontier \/ u \in T

LEMMA DiscoverClosed ==
    ASSUME NEW g \in Catalogs, NEW F \in SUBSET Url, NEW T, Closed(g, F, T),
           NEW u \in Url, NEW d \in Nat, NEW h, h = Discover(g, u, d)
    PROVE  h \in Catalogs /\ Closed(h, F, T)
<1>o. DiscoverOutcome(g, u, d, h)
  BY DiscoverEffect
<1>1. CASE h = g
  BY <1>1
<1>2. CASE Known(g, u) /\ h.status[u] = g.status[u] /\ h.depth[u] = g.depth[u]
           /\ h.frontier = g.frontier
  <2>1. \A v \in Url : h.status[v] = g.status[v] /\ h.depth[v] = g.depth[v]
    BY <1>o, <1>2 DEF DiscoverOutcome
  <2>2. h \in Catalogs /\ g.frontier \in SUBSET Url
    BY <1>o DEF DiscoverOutcome, Catalogs
  <2>3. QED BY <1>2, <2>1, <2>2 DEF Closed, Known
<1>3. CASE /\ ~Known(g, u)
           /\ h.status[u] \in {"accepted", "rejected"}
           /\ h.status[u] = "accepted" => d <= MaxDepth
           /\ h.depth[u] = d
           /\ h.frontier = IF h.status[u] = "accepted"
                           THEN g.frontier \cup {u} ELSE g.frontier
  <2>1. u \notin F
    BY <1>3 DEF Closed
  <2>2. \A v \in Url \ {u} : h.status[v] = g.status[v] /\ h.depth[v] = g.depth[v]
    BY <1>o DEF DiscoverOutcome
  <2>3. h \in Catalogs /\ g.frontier \in SUBSET Url
    BY <1>o DEF DiscoverOutcome, Catalogs
  <2>4. \A v \in F : Known(h, v) /\ v \notin h.frontier
    BY <1>3, <2>1, <2>2 DEF Closed, Known
  <2>5. \A v \in h.frontier : Known(h, v) /\ h.depth[v] <= MaxDepth
    <3> SUFFICES ASSUME NEW v \in h.frontier PROVE Known(h, v) /\ h.depth[v] <= MaxDepth
      OBVIOUS
    <3>1. u \notin g.frontier
      BY <1>3 DEF Closed
    <3>2. CASE v = u /\ h.status[u] = "accepted"
      BY <1>3, <3>2 DEF Known
    <3>3. CASE v \in g.frontier /\ v # u
      BY <2>2, <2>3, <3>3 DEF Closed, Known
    <3>4. QED BY <1>3, <3>1, <3>2, <3>3
  <2>6. \A v \in Url : h.status[v] \in Unsettled => v \in h.frontier \/ v \in T
    BY <1>3, <2>2 DEF Closed, Unsettled
  <2>7. QED BY <2>3, <2>4, <2>5, <2>6 DEF Closed
<1>4. QED BY <1>o, <1>1, <1>2, <1>3 DEF DiscoverOutcome

LEMMA DiscoverLinksClosed ==
    ASSUME NEW g \in Catalogs, NEW F \in SUBSET Url, NEW T, Closed(g, F, T),
           NEW links \in Seq(Url), NEW d \in Nat, NEW h, h = DiscoverLinks(g, links, d)
    PROVE  h \in Catalogs /\ Closed(h, F, T)
<1> DEFINE C == {k \in Catalogs : Closed(k, F, T)}
<1>1. g \in C
  OBVIOUS
<1>2. ASSUME NEW k \in C, NEW i \in 1..Len(links) PROVE Discover(k, links[i], d) \in C
  <2> DEFINE u == links[i]
             e == Discover(k, u, d)
  <2>1. u \in Url /\ k \in Catalogs /\ Closed(k, F, T)
    OBVIOUS
  <2> HIDE DEF u
  <2>2. e \in Catalogs /\ Closed(e, F, T)
    BY <2>1, DiscoverClosed
  <2>3. QED BY <2>2 DEF u
<1> HIDE DEF C
<1>3. h \in C
  BY <1>1, <1>2, DiscoverLinksKeeps
<1>4. QED BY <1>3 DEF C

Marking(g, u, s, h) ==
    /\ h \in Catalogs
    /\ \A v \in Url : h.status[v] = IF v = u THEN s ELSE g.status[v]
    /\ h.depth = g.depth /\ h.frontier = g.frontier

LEMMA MarkedEffect ==
    ASSUME NEW g \in Catalogs, NEW u \in Url, NEW s \in Status,
           NEW h, h = Mark(g, u, s)
    PROVE  Marking(g, u, s, h)
<1>1. /\ h \in Catalogs
      /\ h.status = [g.status EXCEPT ![u] = s]
      /\ h.row = [g.row EXCEPT ![u] = s]
      /\ h.depth = g.depth /\ h.frontier = g.frontier
      /\ h.found = g.found /\ h.artifactIds = g.artifactIds
      /\ h.cas = g.cas /\ h.acquisitions = g.acquisitions
  BY MarkEffect
<1>2. g.status \in [Url -> Status]
  BY DEF Catalogs
<1>3. QED BY <1>1, <1>2 DEF Marking

Popping(g, P, S, h) ==
    /\ h \in Catalogs /\ h.frontier = g.frontier \ P
    /\ \A u \in Url : /\ h.status[u] = IF u \in P \ S THEN "rejected" ELSE g.status[u]
                      /\ h.row[u] = IF u \in P \ S THEN "rejected" ELSE g.row[u]
    /\ h.depth = g.depth /\ h.found = g.found
    /\ h.artifactIds = g.artifactIds /\ h.cas = g.cas
    /\ h.acquisitions = g.acquisitions

LEMMA PoppedEffect ==
    ASSUME NEW g \in Catalogs, NEW P, NEW S, NEW h, h = Popped(g, P, S)
    PROVE  Popping(g, P, S, h)
<1>1. /\ h \in Catalogs
      /\ h.status = [u \in Url |-> IF u \in P \ S THEN "rejected" ELSE g.status[u]]
      /\ h.row = [u \in Url |-> IF u \in P \ S THEN "rejected" ELSE g.row[u]]
      /\ h.frontier = g.frontier \ P
      /\ h.depth = g.depth /\ h.found = g.found
      /\ h.artifactIds = g.artifactIds /\ h.cas = g.cas
      /\ h.acquisitions = g.acquisitions
  BY PoppedCatalog
<1>2. QED BY <1>1 DEF Popping

\* An item that was published is settled.
LEMMA CommitClosed ==
    ASSUME NEW g \in Catalogs, site \in Sites, NEW F \in SUBSET Url, NEW T,
           Closed(g, F, T), NEW u \in F, NEW h, h = Commit(g, u, site[u]),
           NEW Q, Q = T \ {u}
    PROVE  Closed(h, F, Q)
<1>u. u \in Url
  OBVIOUS
<1>f. g.frontier \in SUBSET Url /\ u \notin g.frontier
  BY DEF Catalogs, Closed
<1>1. ASSUME NEW s \in {"failed", "rejected", "acquired"}, NEW k \in Catalogs,
             \A v \in Url : k.status[v] = IF v = u THEN s ELSE g.status[v],
             k.depth = g.depth, k.frontier = g.frontier
      PROVE  Closed(k, F, Q)
  <2>1. \A v \in F : Known(k, v) /\ v \notin k.frontier
    BY <1>1 DEF Closed, Known
  <2>2. \A v \in k.frontier : Known(k, v) /\ k.depth[v] <= MaxDepth
    BY <1>1, <1>f DEF Closed, Known
  <2>3. \A v \in Url : k.status[v] \in Unsettled => v \in k.frontier \/ v \in Q
    BY <1>1 DEF Closed, Unsettled
  <2>4. QED BY <2>1, <2>2, <2>3 DEF Closed
<1>2. ASSUME NEW s \in {"failed", "rejected"}, h = Mark(g, u, s) PROVE Closed(h, F, Q)
  <2>1. s \in Status
    BY DEF Status
  <2>2. Marking(g, u, s, h)
    BY <1>u, <1>2, <2>1, MarkedEffect
  <2>3. QED BY <1>1, <2>2 DEF Marking
<1>3. ASSUME h = DiscoverLinks(Published(Sealed(g, u, site[u].content), u, site[u].content),
                               site[u].links, g.depth[u] + 1)
      PROVE  Closed(h, F, Q)
  <2> DEFINE y == Published(Sealed(g, u, site[u].content), u, site[u].content)
             links == site[u].links
             d == g.depth[u] + 1
  <2>1. Acquiring(g, u, y)
    BY <1>u, AcquiredEffect
  <2>2. links \in Seq(Url) /\ d \in Nat
    BY <1>u, SiteType DEF Catalogs
  <2> HIDE DEF y, links, d
  <2>3. y \in Catalogs /\ Closed(y, F, Q)
    BY <1>1, <2>1 DEF Acquiring
  <2>4. h = DiscoverLinks(y, links, d)
    BY <1>3 DEF y, links, d
  <2>5. QED BY <2>2, <2>3, <2>4, DiscoverLinksClosed
<1>4. QED BY <1>u, <1>2, <1>3, CommitCases

\* The popped level: its first pages are started, the others are rejected.
LEMMA PoppedClosed ==
    ASSUME NEW g \in Catalogs, NEW F \in SUBSET Url, Closed(g, F, {}), Agreeing(g),
           NEW P, P = g.frontier, NEW S \in SUBSET P, NEW h, h = Popped(g, P, S)
    PROVE  Closed(h, F \cup S, S)
<1>1. Popping(g, P, S, h)
  BY PoppedEffect
<1>2. h.frontier = {} /\ P \in SUBSET Url
  BY <1>1 DEF Catalogs, Popping
<1>3. \A u \in Url : h.status[u] = IF u \in P \ S THEN "rejected" ELSE g.status[u]
  BY <1>1 DEF Popping
<1>4. \A u \in F \cup S : Known(h, u)
  BY <1>2, <1>3 DEF Closed, Known
<1>5. \A u \in Url : h.status[u] \in Unsettled => u \in S
  BY <1>3 DEF Closed, Unsettled
<1>6. QED BY <1>2, <1>4, <1>5 DEF Closed

LEMMA InitClosed == Closed(InitCatalog, {}, {})
<1> DEFINE g == [status |-> [u \in Url |-> "absent"], depth |-> [u \in Url |-> 0],
                 row |-> [u \in Url |-> "absent"], frontier |-> {}, found |-> 0,
                 artifactIds |-> {}, cas |-> {}, acquisitions |-> {}]
           F == {}
           links == Sorted(Seeds)
           h == InitCatalog
           d == 0
<1>1. links \in Seq(Url)
  <2>1. Seeds \in SUBSET Url
    BY EngineAssumption
  <2>2. Sorted(Seeds) \in Seq(Seeds)
    BY <2>1, SortedEnumerates
  <2>3. QED BY <2>1, <2>2
<1>2. g \in Catalogs /\ Closed(g, F, F) /\ F \in SUBSET Url /\ d \in Nat
  BY EngineAssumption DEF Catalogs, Status, Closed, Unsettled
<1>3. h = DiscoverLinks(g, links, d)
  BY DEF InitCatalog
<1> HIDE DEF g, F, links, h, d
<1>4. Closed(h, F, F)
  BY <1>1, <1>2, <1>3, DiscoverLinksClosed
<1>5. QED BY <1>4 DEF h, F

\* A level whose fetches all ended within the budget fits it; one that holds
\* an overrun fetch does not.
LEMMA FitsBudget ==
    ASSUME TypeOK, Counts, \A u \in Fetched : task[u] \in {"result", "error"},
           NEW F, F = Fetched
    PROVE  ~(Bytes(site, F) > MaxTotalBytes)
<1> DEFINE f == [u \in Url |-> IF u \in F THEN site[u].size ELSE 0]
<1>1. got \in [Url -> Nat] /\ used \in 0..MaxTotalBytes /\ MaxTotalBytes \in Nat
  BY EngineAssumption DEF TypeOK
<1>2. \A u \in Url : got[u] = IF u \in F THEN site[u].size ELSE 0
  BY DEF Counts, Fetched
<1>3. got = f
  BY <1>1, <1>2
<1>4. Bytes(site, F) = Total(f)
  BY DEF Bytes
<1>5. Bytes(site, F) = used
  BY <1>3, <1>4 DEF Counts
<1>6. QED BY <1>1, <1>5

LEMMA OverrunsBudget ==
    ASSUME TypeOK, Counts, NEW F, F = Fetched, NEW u \in F,
           got[u] < site[u].size, used = MaxTotalBytes
    PROVE  Bytes(site, F) > MaxTotalBytes
<1> DEFINE f == [v \in Url |-> IF v \in F THEN site[v].size ELSE 0]
           b == [got EXCEPT ![u] = @ + 1]
<1>u. u \in Url
  BY DEF Fetched
<1>1. got \in [Url -> Nat] /\ MaxTotalBytes \in Nat /\ \A v \in Url : site[v].size \in Nat
  BY SiteType, EngineAssumption DEF TypeOK
<1>2. Bytes(site, F) = Total(f)
  BY DEF Bytes
<1>3. f \in [Url -> Nat] /\ b \in [Url -> Nat]
  <2>1. f \in [Url -> Nat]
    BY <1>1
  <2>2. got[u] + 1 \in Nat
    BY <1>u, <1>1
  <2>3. b \in [Url -> Nat]
    BY <1>1, <2>2
  <2>4. QED BY <2>1, <2>3
<1>4. \A v \in Url : b[v] <= f[v]
  <2> SUFFICES ASSUME NEW v \in Url PROVE b[v] <= f[v]
    OBVIOUS
  <2>1. got[v] \in Nat /\ site[v].size \in Nat /\ got[v] <= site[v].size
    BY <1>1 DEF Counts
  <2>2. CASE v = u
    <3>1. got[v] < site[v].size /\ v \in F
      BY <2>2
    <3>2. b[v] = got[v] + 1 /\ f[v] = site[v].size
      BY <1>1, <2>2, <3>1
    <3>3. QED BY <2>1, <3>1, <3>2
  <2>3. CASE v # u /\ v \in F
    <3>1. b[v] = got[v] /\ f[v] = site[v].size
      BY <1>1, <2>3
    <3>2. QED BY <2>1, <3>1
  <2>4. CASE v # u /\ v \notin F
    <3>1. b[v] = got[v] /\ f[v] = 0
      BY <1>1, <2>4
    <3>2. got[v] = 0
      BY <2>4 DEF Counts, Fetched
    <3>3. QED BY <3>1, <3>2
  <2>5. QED BY <2>2, <2>3, <2>4
<1>5. b = [got EXCEPT ![u] = @ + 1]
  OBVIOUS
<1>6. used = Total(got) /\ used = MaxTotalBytes
  BY DEF Counts
<1> HIDE DEF f, b
<1>7. Total(b) = Total(got) + 1
  BY <1>u, <1>1, <1>5, TotalPlus
<1>8. Total(b) \in Nat /\ Total(f) \in Nat /\ Total(b) <= Total(f)
  BY <1>3, <1>4, TotalLess
<1>9. Total(b) = MaxTotalBytes + 1
  BY <1>6, <1>7
<1>10. Bytes(site, F) \in Nat /\ Total(b) <= Bytes(site, F)
  BY <1>2, <1>8
<1>11. QED BY <1>1, <1>9, <1>10

-----------------------------------------------------------------------------
\* What is left of a level comes after what was taken.
Later(L, R) == \A w \in R : \A v \in L \ R : v < w

\* The level n of the reference is the one under way.
AtPop(n) ==
    LET r == ReferenceRun(site)[n]
    IN  /\ r.cause = "none" /\ Catalog = r.catalog /\ Fetched = r.fetched
        /\ \A u \in frontier : depth[u] = n
        /\ Closed(Catalog, Fetched, {})

OnLevel(n) ==
    LET r == ReferenceRun(site)[n]
    IN  r.cause = "none" /\ level = NextLevel(r) /\ Fetched = r.fetched \cup level

AtGather(n) ==
    /\ OnLevel(n)
    /\ Masked(Catalog, level) = Begun(ReferenceRun(site)[n])
    /\ \A u \in level : depth[u] = n
    /\ \A u \in Fetched \ level : task[u] \in {"result", "error"}
    /\ Closed(Catalog, Fetched, level)

\* All of the level L, begun in b, but R is published.
Reached(g, b, L, R) == Masked(g, R) = CommitRun(site, b, L)[Cardinality(L \ R)]

AtPublish(n) ==
    /\ OnLevel(n)
    /\ Reached(Catalog, Begun(ReferenceRun(site)[n]), level, todo)
    /\ Later(level, todo) /\ \A u \in todo : depth[u] = n
    /\ Closed(Catalog, Fetched, todo)

SettledFetches == \A u \in Fetched : task[u] \in {"result", "error"}

Agrees ==
    LET reference == Reference(site)
    IN  /\ cause = "none" =>
              /\ reference.cause = "none"
              /\ status = reference.catalog.status
              /\ depth = reference.catalog.depth
              /\ \A u \in Url : status[u] \notin Unsettled
              /\ Undone = {}
        /\ cause = "budget" =>
              /\ reference.cause = "budget"
              /\ acquisitions = reference.catalog.acquisitions

Following ==
    /\ fetchCount = Cardinality(Fetched)
    /\ run = "pop" => SettledFetches /\ \E n \in 0..(MaxDepth + 1) : AtPop(n)
    /\ run = "gather" => \E n \in 0..MaxDepth : AtGather(n)
    /\ run = "publish" => SettledFetches /\ \E n \in 0..MaxDepth : AtPublish(n)
    /\ run \in {"unwind", "ended"} => Agrees

LEMMA InitFollowing == Init => Following
<1> SUFFICES ASSUME Init PROVE Following
  OBVIOUS
<1> DEFINE f == ReferenceRun(site)
           r == f[0]
<1>1. TypeOK /\ Catalog = InitCatalog
  BY InitTypes, InitIsInitCatalog
<1>2. site \in Sites
  BY <1>1 DEF TypeOK
<1>3. r = [catalog |-> InitCatalog, fetched |-> {}, cause |-> "none"]
  <2> HIDE DEF f
  <2>1. QED BY <1>2, ReferenceSteps DEF f
<1>4. Fetched = {} /\ fetchCount = 0 /\ run = "pop"
  BY DEF Init, Fetched
<1>5. \A u \in frontier : depth[u] = 0
  <2>1. Shallow(Catalog, 0)
    BY InitShallow
  <2>2. QED BY <2>1 DEF Shallow, Catalog
<1>6. Closed(Catalog, Fetched, {})
  BY <1>1, <1>4, InitClosed
<1>7. AtPop(0)
  BY <1>1, <1>3, <1>4, <1>5, <1>6 DEF AtPop
<1>8. 0 \in 0..(MaxDepth + 1) /\ Cardinality({}) = 0
  BY EngineAssumption, FS_EmptySet
<1>9. QED BY <1>4, <1>7, <1>8 DEF Following, SettledFetches

\* Pages that are accepted already look the same once masked.
LEMMA MaskedNothing ==
    ASSUME NEW g \in Catalogs, NEW S,
           \A u \in Url : u \in S => g.status[u] = "accepted" /\ g.row[u] = "accepted",
           NEW m, m = Masked(g, S)
    PROVE  m = g
<1>1. Masking(g, S, m)
  BY MaskedEffect
<1>2. Alike(m, g)
  BY <1>1 DEF Alike, Masking
<1>3. QED BY <1>2, SameCatalogs

\* What the next level is, in the state and in the reference.
LEMMA NextLevelIs ==
    ASSUME TypeOK, run = "pop", Following, NEW n \in 0..(MaxDepth + 1), AtPop(n),
           NEW r, r = ReferenceRun(site)[n], NEW popped, popped = PopLevel(Catalog),
           NEW chosen, chosen = First(popped, fetchCount)
    PROVE  /\ r \in Jobs /\ popped = frontier /\ chosen \in SUBSET popped
           /\ NextLevel(r) = chosen /\ Begun(r) = Popped(Catalog, popped, chosen)
           /\ PopLevel(r.catalog) = popped
<1>1. site \in Sites
  BY DEF TypeOK
<1>2. r \in Jobs
  <2> DEFINE f == ReferenceRun(site)
  <2> HIDE DEF f
  <2>1. \A k \in 0..(MaxDepth + 1) : f[k] \in Jobs
    BY <1>1, ReferenceSteps DEF f
  <2>2. QED BY <2>1 DEF f
<1>3. Catalog = r.catalog /\ Cardinality(r.fetched) = fetchCount
  BY DEF AtPop, Following
<1>4. popped = frontier
  <2>1. Catalog.frontier = frontier /\ Catalog.depth = depth
    BY DEF Catalog
  <2>2. \A u \in frontier : depth[u] = n
    BY DEF AtPop
  <2>3. \A u, v \in frontier : depth[u] <= depth[v]
    BY <2>2, EngineAssumption
  <2>4. QED BY <2>1, <2>3 DEF PopLevel
<1>5. chosen \in SUBSET popped
  BY DEF First
<1>6. QED BY <1>2, <1>3, <1>4, <1>5 DEF NextLevel, Begun

LEMMA StartLevelFollowing ==
    ASSUME TypeOK, Counts, Rows, Ownership, Levels, Following, StartLevel
    PROVE  Following'
<1>1. run = "pop" /\ SettledFetches
  BY DEF StartLevel, Following
<1>2. PICK n \in 0..(MaxDepth + 1) : AtPop(n)
  BY <1>1 DEF Following
<1> DEFINE r == ReferenceRun(site)[n]
           popped == PopLevel(Catalog)
           chosen == First(popped, fetchCount)
           g == Popped(Catalog, popped, chosen)
<1>3. /\ SetCatalog(g) /\ site' = site
      /\ chosen = {} => EnterFinally("none") /\ UNCHANGED <<level, task, fetchCount>>
      /\ chosen # {} => /\ run' = "gather" /\ level' = chosen
                        /\ fetchCount' = fetchCount + Cardinality(chosen)
                        /\ task' = [u \in Url |-> IF u \in chosen THEN "waiting" ELSE task[u]]
  BY DEF StartLevel
<1>r. /\ r.cause = "none" /\ Catalog = r.catalog /\ Fetched = r.fetched
      /\ \A u \in frontier : depth[u] = n
      /\ Closed(Catalog, Fetched, {})
  BY <1>2 DEF AtPop
<1> HIDE DEF r, popped, chosen, g
<1>4. /\ r \in Jobs /\ popped = frontier /\ chosen \in SUBSET popped
      /\ NextLevel(r) = chosen /\ Begun(r) = Popped(Catalog, popped, chosen)
      /\ PopLevel(r.catalog) = popped
  BY <1>1, <1>2, NextLevelIs DEF r, popped, chosen
<1>5. Catalog \in Catalogs /\ frontier \subseteq Url /\ Agreeing(Catalog)
      /\ Catalog.frontier = frontier
  BY <1>1, CatalogType DEF TypeOK, Rows, Catalog
<1>6. Popping(Catalog, popped, chosen, g) /\ g = Begun(r)
  BY <1>4, <1>5, PoppedEffect DEF g
<1>7. Catalog' = g /\ g \in Catalogs
  BY <1>3, <1>6, SetCatalogIs DEF Popping
<1>8. Closed(g, Fetched \cup chosen, chosen)
  <2> DEFINE F == Fetched
             c == Catalog
  <2>1. F \in SUBSET Url /\ c \in Catalogs /\ Closed(c, F, {}) /\ Agreeing(c)
        /\ popped = c.frontier /\ g = Popped(c, popped, chosen)
    BY <1>r, <1>4, <1>5 DEF Fetched, g
  <2> HIDE DEF F, c
  <2>2. Closed(g, F \cup chosen, chosen)
    BY <1>4, <2>1, PoppedClosed
  <2>3. QED BY <2>2 DEF F
<1>9. CASE chosen = {}
  <2>1. run' = "unwind" /\ cause' = "none" /\ task' = task /\ fetchCount' = fetchCount
    BY <1>3, <1>9 DEF EnterFinally
  <2>2. Fetched' = Fetched /\ Undone' = {}
    BY <1>1, <2>1 DEF Fetched, Undone, Ownership, Stages
  <2>3. ~(Bytes(site, r.fetched) > MaxTotalBytes)
    BY <1>1, <1>r, FitsBudget DEF SettledFetches
  <2>4. n = MaxDepth + 1 => r.catalog.frontier = {}
    <3> SUFFICES ASSUME n = MaxDepth + 1, NEW u \in frontier PROVE FALSE
      BY <1>r, <1>5
    <3>1. depth[u] = n /\ depth[u] <= MaxDepth
      BY <1>r, <1>5 DEF Closed, Catalog
    <3>2. QED BY <3>1, EngineAssumption
  <2>5. Reference(site) = [catalog |-> Begun(r), fetched |-> r.fetched, cause |-> "none"]
    <3>1. site \in Sites
      BY DEF TypeOK
    <3>2. NextLevel(r) = {} /\ PopLevel(r.catalog) = r.catalog.frontier
      BY <1>r, <1>4, <1>5, <1>9
    <3>3. QED BY <1>r, <2>3, <2>4, <3>1, <3>2, LastLevel DEF r
  <2>6. Reference(site).cause = "none" /\ Reference(site).catalog = g
    BY <1>6, <2>5
  <2>7. status' = g.status /\ depth' = g.depth
    BY <1>3 DEF SetCatalog
  <2>8. \A u \in Url : status'[u] \notin Unsettled
    <3>1. g.frontier = {}
      BY <1>4, <1>5, <1>6 DEF Popping
    <3>2. QED BY <1>8, <1>9, <2>7, <3>1 DEF Closed
  <2>9. Agrees'
    BY <1>3, <2>1, <2>2, <2>6, <2>7, <2>8 DEF Agrees
  <2>10. QED BY <2>1, <2>2, <2>9 DEF Following
<1>10. CASE chosen # {}
  <2>1. /\ run' = "gather" /\ level' = chosen
        /\ fetchCount' = fetchCount + Cardinality(chosen)
        /\ task' = [u \in Url |-> IF u \in chosen THEN "waiting" ELSE task[u]]
    BY <1>3, <1>10
  <2>2. Fetched' = Fetched \cup chosen /\ chosen \subseteq Url
    BY <1>4, <1>5, <2>1 DEF Fetched
  <2>3. chosen \cap Fetched = {}
    BY <1>r, <1>4, <1>5 DEF Closed
  <2>4. fetchCount' = Cardinality(Fetched')
    <3>1. IsFiniteSet(Fetched) /\ IsFiniteSet(chosen)
      BY <2>2, EngineAssumption, FS_Subset DEF Fetched
    <3>2. Cardinality(Fetched \cup chosen) =
            Cardinality(Fetched) + Cardinality(chosen) - Cardinality(Fetched \cap chosen)
      BY <3>1, FS_Union
    <3>3. Cardinality(Fetched \cap chosen) = 0 /\ Cardinality(Fetched) \in Nat
          /\ Cardinality(chosen) \in Nat
      BY <2>3, <3>1, FS_EmptySet, FS_CardinalityType
    <3>4. fetchCount = Cardinality(Fetched)
      BY DEF Following
    <3>5. QED BY <2>1, <2>2, <3>2, <3>3, <3>4
  <2>5. depth' = g.depth /\ g.depth = depth
    BY <1>3, <1>6 DEF SetCatalog, Popping, Catalog
  <2>6. \A u \in chosen : depth'[u] = n
    BY <1>r, <1>4, <2>5
  <2>7. n \in 0..MaxDepth
    <3>1. PICK u \in chosen : TRUE
      BY <1>10
    <3>2. depth[u] = n /\ depth[u] <= MaxDepth
      BY <1>r, <1>4, <1>5, <3>1 DEF Closed, Catalog
    <3>3. QED BY <3>2, EngineAssumption
  <2>8. Masked(g, chosen) = g
    <3>1. \A u \in Url : u \in chosen => g.status[u] = "accepted" /\ g.row[u] = "accepted"
      <4>1. \A u \in frontier : Catalog.status[u] = "accepted" /\ Catalog.row[u] = "accepted"
        BY <1>5 DEF Agreeing
      <4>2. QED BY <1>4, <1>6, <4>1 DEF Popping
    <3>2. QED BY <1>7, <3>1, MaskedNothing
  <2>9. ReferenceRun(site)' = ReferenceRun(site)
    BY <1>3
  <2>10. OnLevel(n)'
    BY <1>r, <1>4, <2>1, <2>2, <2>9 DEF OnLevel, r
  <2>11. \A u \in Fetched' \ level' : task'[u] \in {"result", "error"}
    <3>1. \A u \in Fetched' \ level' : u \in Fetched /\ task'[u] = task[u]
      BY <2>1, <2>2 DEF Fetched
    <3>2. QED BY <1>1, <3>1 DEF SettledFetches
  <2>12. Masked(Catalog', level') = Begun(ReferenceRun(site')[n])
    BY <1>3, <1>6, <1>7, <2>1, <2>8 DEF r
  <2>13. Closed(Catalog', Fetched', level')
    BY <1>7, <1>8, <2>1, <2>2
  <2>14. AtGather(n)'
    BY <2>1, <2>6, <2>10, <2>11, <2>12, <2>13 DEF AtGather
  <2>15. QED BY <2>1, <2>4, <2>7, <2>14 DEF Following
<1>11. QED BY <1>9, <1>10

\* The level of an engine that gathers or publishes, and what it begins from.
LEMMA LevelBegins ==
    ASSUME TypeOK, NEW n \in 0..MaxDepth, OnLevel(n), NEW b,
           b = Begun(ReferenceRun(site)[n])
    PROVE  /\ b \in Catalogs /\ level \in SUBSET Url /\ n \in 0..(MaxDepth + 1)
           /\ ReferenceRun(site)[n] \in Jobs
<1> DEFINE f == ReferenceRun(site)
           r == f[n]
<1>1. site \in Sites /\ n \in 0..(MaxDepth + 1)
  BY EngineAssumption DEF TypeOK
<1>2. r \in Jobs
  <2> HIDE DEF f
  <2>1. \A k \in 0..(MaxDepth + 1) : f[k] \in Jobs
    BY <1>1, ReferenceSteps DEF f
  <2>2. QED BY <1>1, <2>1
<1>3. b = Begun(r)
  OBVIOUS
<1>4. level \in SUBSET Url
  BY DEF TypeOK
<1> HIDE DEF f, r
<1>5. b \in Catalogs
  BY <1>1, <1>2, <1>3, LevelType
<1>6. QED BY <1>1, <1>2, <1>4, <1>5 DEF f, r

LEMMA GatherReturnsFollowing ==
    ASSUME TypeOK, Following, GatherReturns
    PROVE  Following'
<1>1. /\ run = "gather" /\ LevelSettled /\ run' = "publish" /\ todo' = level
      /\ UNCHANGED <<site, task, level, fetchCount>> /\ UNCHANGED catalog
  BY DEF GatherReturns, tasks
<1>2. PICK n \in 0..MaxDepth : AtGather(n)
  BY <1>1 DEF Following
<1> DEFINE b == Begun(ReferenceRun(site)[n])
           c == CommitRun(site, b, level)
<1>3. OnLevel(n) /\ Masked(Catalog, level) = b
  BY <1>2 DEF AtGather
<1>4. b \in Catalogs /\ level \in SUBSET Url
  BY <1>3, LevelBegins
<1>5. c[0] = b
  <2> HIDE DEF b
  <2>1. site \in Sites
    BY DEF TypeOK
  <2>2. QED BY <1>4, <2>1, CommitRunSteps
<1>6. Cardinality(level' \ todo') = 0
  BY <1>1, FS_EmptySet
<1>7. Catalog' = Catalog /\ Fetched' = Fetched /\ ReferenceRun(site)' = ReferenceRun(site)
  BY <1>1, SameCatalog DEF Fetched
<1>8. OnLevel(n)'
  BY <1>1, <1>3, <1>7 DEF OnLevel
<1>9. Reached(Catalog, Begun(ReferenceRun(site)[n]), level, todo)'
  BY <1>1, <1>3, <1>5, <1>6, <1>7 DEF Reached
<1>10. Later(level', todo') /\ \A u \in todo' : depth'[u] = n
  BY <1>1, <1>2 DEF AtGather, catalog, Later
<1>11. Closed(Catalog', Fetched', todo')
  BY <1>1, <1>2, <1>7 DEF AtGather
<1>12. AtPublish(n)'
  BY <1>8, <1>9, <1>10, <1>11 DEF AtPublish
<1>13. SettledFetches'
  BY <1>1, <1>2, <1>7 DEF SettledFetches, AtGather, LevelSettled
<1>14. fetchCount' = Cardinality(Fetched')
  BY <1>1, <1>7 DEF Following
<1>15. QED BY <1>1, <1>12, <1>13, <1>14 DEF Following

\* A level that does not fit the budget: the reference fails at it, with what
\* the job had acquired when it began the level.
LEMMA LevelOverruns ==
    ASSUME TypeOK, NEW n \in 0..MaxDepth, AtGather(n),
           Bytes(site, Fetched) > MaxTotalBytes
    PROVE  /\ Reference(site).cause = "budget"
           /\ acquisitions = Reference(site).catalog.acquisitions
<1> DEFINE r == ReferenceRun(site)[n]
           b == Begun(r)
           P == PopLevel(r.catalog)
           S == NextLevel(r)
<1>1. /\ r.cause = "none" /\ level = NextLevel(r) /\ Fetched = r.fetched \cup level
      /\ Masked(Catalog, level) = b
  BY DEF AtGather, OnLevel
<1>2. r \in Jobs
  BY LevelBegins DEF AtGather
<1>3. b = Popped(r.catalog, P, S)
  BY DEF Begun
<1>4. site \in Sites
  BY DEF TypeOK
<1>5. r = ReferenceRun(site)[n]
  OBVIOUS
<1> HIDE DEF r, b, P, S
<1>6. Bytes(site, r.fetched \cup NextLevel(r)) > MaxTotalBytes
  BY <1>1
<1>7. Reference(site).cause = "budget" /\ Reference(site).catalog = r.catalog
  BY <1>1, <1>4, <1>5, <1>6, OverBudget
<1>8. r.catalog \in Catalogs
  BY <1>2 DEF Jobs
<1>9. Popping(r.catalog, P, S, b)
  BY <1>3, <1>8, PoppedEffect
<1>10. Catalog \in Catalogs
  BY CatalogType
<1>11. Masking(Catalog, level, b)
  BY <1>1, <1>10, MaskedEffect
<1>12. Catalog.acquisitions = r.catalog.acquisitions
  BY <1>9, <1>11 DEF Popping, Masking
<1>13. QED BY <1>7, <1>12 DEF Catalog

\* A job over its budget has acquired what the reference had before the level.
LEMMA GatherRaisesFollowing ==
    ASSUME TypeOK, Counts, Following, GatherRaises
    PROVE  Following'
<1>1. PICK c \in {"budget", "cancelled"} :
         /\ run = "gather" /\ EnterFinally(c)
         /\ c = "budget" => \E u \in level : task[u] = "budget"
         /\ UNCHANGED <<site, catalog, task, fetchCount>>
  BY DEF GatherRaises
<1>2. run' = "unwind" /\ cause' = c
  BY <1>1 DEF EnterFinally
<1>3. fetchCount' = Cardinality(Fetched')
  BY <1>1 DEF Following, Fetched
<1>4. CASE c = "cancelled"
  BY <1>2, <1>3, <1>4 DEF Following, Agrees
<1>5. CASE c = "budget"
  <2>1. PICK n \in 0..MaxDepth : AtGather(n)
    BY <1>1 DEF Following
  <2>2. PICK u \in level : task[u] = "budget"
    BY <1>1, <1>5
  <2>3. u \in Fetched /\ got[u] < site[u].size /\ used = MaxTotalBytes
    BY <2>2 DEF TypeOK, Counts, Fetched
  <2>4. Bytes(site, Fetched) > MaxTotalBytes
    BY <2>3, OverrunsBudget
  <2>5. /\ Reference(site).cause = "budget"
        /\ acquisitions = Reference(site).catalog.acquisitions
    BY <2>1, <2>4, LevelOverruns
  <2>6. Reference(site)' = Reference(site) /\ acquisitions' = acquisitions
    BY <1>1 DEF catalog
  <2>7. Agrees'
    BY <1>2, <1>5, <2>5, <2>6 DEF Agrees
  <2>8. QED BY <1>2, <1>3, <2>7 DEF Following
<1>6. QED BY <1>4, <1>5

Taking(L, R, u, k, Q) ==
    /\ u \in R /\ k + 1 \in 1..Cardinality(L) /\ Sorted(L)[k + 1] = u
    /\ Cardinality(L \ Q) = k + 1 /\ Later(L, Q)

\* The least item still to be published is the next of its sorted level.
LEMMA NextPlace ==
    ASSUME NEW L \in SUBSET Url, NEW R \in SUBSET L, R # {},
           Later(L, R),
           NEW u, u = Least(R), NEW k, k = Cardinality(L \ R), NEW Q, Q = R \ {u}
    PROVE  Taking(L, R, u, k, Q)
<1>1. R \in SUBSET Url
  OBVIOUS
<1>2. u \in R /\ \A v \in R : u <= v
  BY <1>1, LeastIsOne
<1>n. L \subseteq Nat /\ IsFiniteSet(L)
  BY EngineAssumption, FS_Subset
<1>3. {v \in L : v < u} = L \ R
  <2>1. \A v \in R : ~(v < u)
    BY <1>2, <1>n
  <2>2. QED BY <1>2, <2>1 DEF Later
<1>4. Before(L, u) = k
  BY <1>3 DEF Before
<1>5. k + 1 \in 1..Cardinality(L) /\ Sorted(L)[k + 1] = u
  <2>1. u \in L
    BY <1>2
  <2>2. Before(L, u) + 1 \in 1..Cardinality(L) /\ Sorted(L)[Before(L, u) + 1] = u
    BY <2>1, SortedRank
  <2>3. QED BY <1>4, <2>2
<1>6. Cardinality(L \ Q) = k + 1
  <2>1. L \ Q = (L \ R) \cup {u} /\ u \notin L \ R
    BY <1>2
  <2>2. IsFiniteSet(L \ R)
    BY <1>n, FS_Subset
  <2>3. QED BY <2>1, <2>2, FS_AddElement
<1>7. Later(L, Q)
  <2> SUFFICES ASSUME NEW w \in Q, NEW v \in L \ Q PROVE v < w
    BY DEF Later
  <2>1. CASE v = u
    <3>1. u <= w /\ u # w /\ u \in Nat /\ w \in Nat
      BY <1>2, <1>n
    <3>2. QED BY <2>1, <3>1
  <2>2. CASE v \in L \ R
    BY <2>2 DEF Later
  <2>3. QED BY <2>1, <2>2
<1>8. QED BY <1>2, <1>5, <1>6, <1>7 DEF Taking

\* Publishing it is the next step of the reference's level.
LEMMA NextItem ==
    ASSUME NEW g \in Catalogs, site \in Sites,
           NEW b \in Catalogs, NEW L \in SUBSET Url, NEW R \in SUBSET L, R # {},
           Later(L, R),
           Hidden(g, R), Reached(g, b, L, R),
           NEW u, u = Least(R), NEW h, h = Commit(g, u, site[u]),
           NEW Q, Q = R \ {u}
    PROVE  Reached(h, b, L, Q)
<1> DEFINE k == Cardinality(L \ R)
           m == Masked(g, R)
           c == CommitRun(site, b, L)
<1>c. c = CommitRun(site, b, L)
  OBVIOUS
<1> HIDE DEF c
<1>k. k = Cardinality(L \ R)
  OBVIOUS
<1>1. /\ u \in R /\ k + 1 \in 1..Cardinality(L) /\ Sorted(L)[k + 1] = u
      /\ Cardinality(L \ Q) = k + 1
  <2> HIDE DEF k
  <2>1. Taking(L, R, u, k, Q)
    BY <1>k, NextPlace
  <2>2. QED BY <2>1 DEF Taking
<1>2. \A n \in 1..Cardinality(L) : c[n] = Commit(c[n - 1], Sorted(L)[n], site[Sorted(L)[n]])
  BY <1>c, CommitRunSteps
<1>3. k \in Nat
  <2>1. IsFiniteSet(L \ R)
    BY EngineAssumption, FS_Subset
  <2>2. QED BY <2>1, FS_CardinalityType
<1>4. R \in SUBSET Url
  OBVIOUS
<1>m. m = c[k]
  BY <1>c DEF Reached
<1>d. m = Masked(g, R)
  OBVIOUS
<1> HIDE DEF k, m
<1>5. c[k + 1] = Commit(c[k], u, site[u])
  <2>1. (k + 1) - 1 = k
    BY <1>3
  <2>2. QED BY <1>1, <1>2, <2>1
<1>6. Commit(m, u, site[u]) = Masked(h, Q)
  BY <1>1, <1>4, <1>d, CommitMasked
<1>7. QED BY <1>1, <1>5, <1>6, <1>c, <1>m DEF Reached

\* The reference after a level that fits the budget.
LEMMA LevelFits ==
    ASSUME site \in Sites, NEW n \in 0..MaxDepth, NEW r, r = ReferenceRun(site)[n],
           r.cause = "none", NEW F, F = r.fetched \cup NextLevel(r),
           ~(Bytes(site, F) > MaxTotalBytes)
    PROVE  /\ n + 1 \in 0..(MaxDepth + 1)
           /\ ReferenceRun(site)[n + 1] =
                [catalog |-> CommitAll(site, Begun(r), NextLevel(r)), fetched |-> F,
                 cause |-> "none"]
<1> DEFINE f == ReferenceRun(site)
           k == n + 1
<1>1. k \in 1..(MaxDepth + 1) /\ k \in 0..(MaxDepth + 1) /\ k - 1 = n
  BY EngineAssumption
<1> HIDE DEF f, k
<1>2. \A i \in 1..(MaxDepth + 1) : f[i] = ReferenceLevel(site, f[i - 1])
  BY ReferenceSteps DEF f
<1>3. f[k] = ReferenceLevel(site, r)
  BY <1>1, <1>2 DEF f
<1>4. ReferenceLevel(site, r) =
        [catalog |-> CommitAll(site, Begun(r), NextLevel(r)), fetched |-> F,
         cause |-> "none"]
  BY DEF ReferenceLevel, NextLevel, Begun
<1>5. QED BY <1>1, <1>3, <1>4 DEF f, k

LEMMA PublishItemFollowing ==
    ASSUME TypeOK, Progress, Counts, Rows, Levels, Following, PublishItem
    PROVE  Following'
<1> DEFINE u == Least(todo)
           g == Catalog
           h == Commit(g, u, site[u])
           Q == todo \ {u}
           F == Fetched
<1>1. /\ run = "publish" /\ SetCatalog(h) /\ todo' = Q
      /\ IF todo = {u} THEN run' = "pop" ELSE run' = run
      /\ UNCHANGED <<site, task, cause, level, fetchCount>>
  <2>1. /\ run = "publish" /\ SetCatalog(Settle(g, u)) /\ todo' = Q
        /\ IF todo = {u} THEN run' = "pop" ELSE run' = run
        /\ UNCHANGED <<site, task, cause, level, fetchCount>>
    BY DEF PublishItem
  <2>2. todo # {} /\ todo \subseteq level /\ todo \in SUBSET Url
    BY <2>1 DEF TypeOK, Progress
  <2>3. u \in level /\ u \in Url
    BY <2>2, LeastIsOne
  <2>4. level \subseteq Fetched /\ SettledFetches
    BY <2>1 DEF Following, AtPublish, OnLevel
  <2>5. /\ task[u] \in {"result", "error"}
        /\ task[u] = "error" => site[u].kind = "fetch_error"
    BY <2>3, <2>4 DEF SettledFetches, Counts
  <2> HIDE DEF u
  <2>6. Settle(g, u) = h
    BY <2>3, <2>5, SettleIsCommit
  <2>7. QED BY <2>1, <2>6
<1>2. PICK n \in 0..MaxDepth : AtPublish(n)
  BY <1>1 DEF Following
<1> DEFINE r == ReferenceRun(site)[n]
           b == Begun(r)
<1>3. /\ r.cause = "none" /\ level = NextLevel(r) /\ F = r.fetched \cup level
      /\ Reached(g, b, level, todo)
      /\ Later(level, todo) /\ (\A v \in todo : depth[v] = n)
      /\ Closed(g, F, todo) /\ OnLevel(n)
  BY <1>2 DEF AtPublish, OnLevel
<1>4. b \in Catalogs /\ level \in SUBSET Url /\ n \in 0..(MaxDepth + 1)
  BY <1>3, LevelBegins
<1>5. /\ site \in Sites /\ todo \in SUBSET level /\ todo # {}
      /\ depth \in [Url -> Nat]
  BY <1>1 DEF TypeOK, Progress
<1>6. g \in Catalogs /\ g.depth = depth
  BY CatalogType DEF Catalog
<1>7. u \in todo /\ todo \in SUBSET Url
  BY <1>4, <1>5, LeastIsOne
<1>8. /\ Agreeing(g) /\ Linked(g, Seeds, {}) /\ Shallow(g, g.depth[u] + 1)
      /\ \A v \in todo : g.status[v] \in Unsettled /\ v \notin g.frontier
  BY <1>1, <1>6, <1>7 DEF Rows, Levels, UnderWay, Busy
<1>u. u = Least(todo)
  OBVIOUS
<1> HIDE DEF u, g, r, b
<1>9. h \in Catalogs
  BY <1>5, <1>6, <1>7, CommitType
<1>10. Shallow(h, g.depth[u] + 1) /\ Kept(g, h)
  <2>1. u \in Url /\ g.status[u] \in Unsettled /\ u \notin g.frontier
    BY <1>7, <1>8
  <2>h. h = Commit(g, u, site[u])
    OBVIOUS
  <2> HIDE DEF h
  <2>2. QED BY <1>5, <1>6, <1>8, <2>1, <2>h, CommitLevels
<1>11. Catalog' = h
  BY <1>1, <1>9, SetCatalogIs
<1>12. depth' = h.depth /\ frontier' = h.frontier
  BY <1>11 DEF Catalog
<1>13. F \in SUBSET Url
  BY DEF Fetched
<1>14. todo \subseteq F
  BY <1>3, <1>5
<1>15. Closed(h, F, Q)
  <2>h. h = Commit(g, u, site[u]) /\ Q = todo \ {u} /\ u \in F
    BY <1>7, <1>14
  <2> HIDE DEF h, Q, F
  <2>1. QED BY <1>3, <1>5, <1>6, <1>13, <2>h, CommitClosed
<1>16. Reached(h, b, level, Q)
  <2>h. h = Commit(g, u, site[u]) /\ Q = todo \ {u}
    OBVIOUS
  <2>1. Hidden(g, todo)
    BY <1>3, <1>14 DEF Closed, Hidden
  <2> HIDE DEF h, Q, F
  <2>2. QED BY <1>3, <1>4, <1>5, <1>6, <1>u, <2>1, <2>h, NextItem
<1>17. Later(level, Q) /\ level \ Q \in SUBSET Url
  <2> DEFINE k == Cardinality(level \ todo)
  <2>k. k = Cardinality(level \ todo) /\ Q = todo \ {u}
    OBVIOUS
  <2>l. level \ Q \in SUBSET Url
    BY <1>4
  <2> HIDE DEF h, Q, F, k
  <2>1. Taking(level, todo, u, k, Q)
    BY <1>3, <1>4, <1>5, <1>u, <2>k, NextPlace
  <2>2. QED BY <2>1, <2>l DEF Taking
<1>18. Fetched' = F /\ SettledFetches' /\ fetchCount' = Cardinality(Fetched')
  BY <1>1 DEF Following, Fetched, SettledFetches
<1>19. ReferenceRun(site)' = ReferenceRun(site)
  BY <1>1
<1>20. CASE Q # {}
  <2>1. run' = "publish"
    BY <1>1, <1>20
  <2>2. OnLevel(n)'
    BY <1>1, <1>3, <1>18, <1>19 DEF OnLevel
  <2>3. \A v \in Q : depth'[v] = n
    <3>1. \A v \in Q : v \in todo /\ v \in Url /\ Known(g, v)
      BY <1>7, <1>8 DEF Known, Unsettled
    <3>2. \A v \in Q : h.depth[v] = g.depth[v]
      BY <1>10, <3>1 DEF Kept
    <3>3. QED BY <1>3, <1>6, <1>12, <3>1, <3>2
  <2>4. Reached(Catalog, Begun(ReferenceRun(site)[n]), level, todo)'
    BY <1>1, <1>11, <1>16 DEF Reached, b, r
  <2>5. Closed(Catalog', Fetched', todo')
    BY <1>1, <1>11, <1>15, <1>18
  <2>6. AtPublish(n)'
    BY <1>1, <1>17, <2>2, <2>3, <2>4, <2>5 DEF AtPublish
  <2>7. QED BY <1>18, <2>1, <2>6 DEF Following
<1>21. CASE Q = {}
  <2>1. todo = {u} /\ run' = "pop"
    BY <1>1, <1>7, <1>21
  <2>2. ~(Bytes(site, F) > MaxTotalBytes)
    BY <1>1, FitsBudget DEF Following, SettledFetches
  <2>3. /\ n + 1 \in 0..(MaxDepth + 1)
        /\ ReferenceRun(site)[n + 1] =
             [catalog |-> CommitAll(site, b, level), fetched |-> F, cause |-> "none"]
    <3>1. r = ReferenceRun(site)[n] /\ b = Begun(r) /\ F = r.fetched \cup NextLevel(r)
      BY <1>3 DEF r, b
    <3> HIDE DEF F
    <3>2. QED BY <1>3, <1>5, <2>2, <3>1, LevelFits
  <2>4. CommitAll(site, b, level) = h
    <3>1. Masked(h, Q) = h
      <4> HIDE DEF h
      <4>1. QED BY <1>9, <1>21, MaskedNothing
    <3>2. level \ Q = level
      BY <1>21
    <3>3. QED BY <1>16, <3>1, <3>2 DEF CommitAll, Reached
  <2>5. \A v \in frontier' : depth'[v] = n + 1
    <3>1. g.depth[u] = n
      BY <1>3, <1>6, <1>7
    <3>2. QED BY <1>10, <1>12, <3>1 DEF Shallow
  <2>6. Closed(Catalog', Fetched', {})
    BY <1>11, <1>15, <1>18, <1>21
  <2> HIDE DEF h, F
  <2>7. /\ ReferenceRun(site')[n + 1].cause = "none"
        /\ Catalog' = ReferenceRun(site')[n + 1].catalog
        /\ Fetched' = ReferenceRun(site')[n + 1].fetched
    BY <1>1, <1>11, <1>18, <2>3, <2>4
  <2>8. AtPop(n + 1)'
    BY <2>5, <2>6, <2>7 DEF AtPop
  <2>9. QED BY <1>18, <2>1, <2>3, <2>8 DEF Following
<1>22. QED BY <1>20, <1>21

\* While a level is gathered only its own fetches move.
LEMMA GatherFollowing ==
    ASSUME TypeOK, TypeOK', Following, run = "gather", run' = "gather",
           UNCHANGED <<site, level, fetchCount, depth, frontier, found, artifactIds,
                       cas, acquisitions>>,
           \A u \in Url \ level : /\ status'[u] = status[u] /\ row'[u] = row[u]
                                  /\ task'[u] = task[u],
           \A u \in level : status[u] # "absent" => status'[u] # "absent",
           Fetched' = Fetched
    PROVE  Following'
<1>1. PICK n \in 0..MaxDepth : AtGather(n)
  BY DEF Following
<1> DEFINE g == Catalog
           h == Catalog'
<1>2. g \in Catalogs /\ h \in Catalogs
  <2>1. g \in Catalogs
    BY CatalogType
  <2>2. Catalog' \in Catalogs
    BY DEF TypeOK, Catalog, Catalogs
  <2>3. QED BY <2>1, <2>2
<1>3. /\ \A u \in Url \ level : h.status[u] = g.status[u] /\ h.row[u] = g.row[u]
      /\ \A u \in level : Known(g, u) => Known(h, u)
      /\ h.depth = g.depth /\ h.frontier = g.frontier /\ h.found = g.found
      /\ h.artifactIds = g.artifactIds /\ h.cas = g.cas
      /\ h.acquisitions = g.acquisitions
  BY DEF Catalog, Known
<1>4. /\ OnLevel(n) /\ Masked(g, level) = Begun(ReferenceRun(site)[n])
      /\ \A u \in level : depth[u] = n
      /\ \A u \in Fetched \ level : task[u] \in {"result", "error"}
      /\ Closed(g, Fetched, level)
  BY <1>1 DEF AtGather
<1>5. level \subseteq Url /\ Fetched \subseteq Url
  BY DEF TypeOK, Fetched
<1> HIDE DEF g
<1>6. Masked(h, level) = Masked(g, level)
  <2> HIDE DEF h
  <2>1. QED BY <1>2, <1>3, MaskedSame
<1>7. Closed(h, Fetched, level)
  <2>1. \A u \in Fetched : Known(h, u) /\ u \notin h.frontier
    BY <1>3, <1>4, <1>5 DEF Closed, Known
  <2>2. \A u \in h.frontier : Known(h, u) /\ h.depth[u] <= MaxDepth
    <3>1. \A u \in Url : Known(g, u) => Known(h, u)
      BY <1>3 DEF Known
    <3>2. g.frontier \in SUBSET Url
      BY <1>2 DEF Catalogs
    <3>3. QED BY <1>3, <1>4, <3>1, <3>2 DEF Closed
  <2>3. \A u \in Url : h.status[u] \in Unsettled => u \in h.frontier \/ u \in level
    BY <1>3, <1>4 DEF Closed
  <2>4. QED BY <2>1, <2>2, <2>3 DEF Closed
<1>8. ReferenceRun(site)' = ReferenceRun(site)
  OBVIOUS
<1>9. OnLevel(n)'
  BY <1>4, <1>8 DEF OnLevel
<1>10. \A u \in Fetched' \ level' : task'[u] \in {"result", "error"}
  BY <1>4, <1>5
<1>11. AtGather(n)'
  BY <1>4, <1>6, <1>7, <1>8, <1>9, <1>10 DEF AtGather
<1>12. fetchCount' = Cardinality(Fetched')
  BY DEF Following
<1>13. QED BY <1>11, <1>12 DEF Following

\* A step of one fetch task: of the level while it is gathered, of a task that
\* outlives a failed job otherwise.
LEMMA TaskFollowing ==
    ASSUME TypeOK, TypeOK', Ownership, Following, NEW u \in Url,
           StartFetch(u) \/ Receive(u) \/ FinishFetch(u) \/ CancelFetch(u)
    PROVE  Following'
<1>1. /\ task[u] \in {"waiting", "fetching"} /\ task'[u] # "idle"
      /\ \A v \in Url \ {u} : /\ status'[v] = status[v] /\ row'[v] = row[v]
                              /\ task'[v] = task[v]
      /\ UNCHANGED <<site, depth, frontier, found, artifactIds, cas, acquisitions>>
      /\ UNCHANGED control
      /\ status[u] # "absent" => status'[u] # "absent"
  <2>0. task \in [Url -> TaskState] /\ status \in [Url -> Status] /\ row \in [Url -> Status]
    BY DEF TypeOK
  <2>1. CASE StartFetch(u)
    BY <2>0, <2>1 DEF StartFetch
  <2>2. CASE Receive(u)
    <3>1. \E outcome \in {"budget", "error", "fetching"} :
             task' = [task EXCEPT ![u] = outcome]
      BY <2>2, <2>0 DEF Receive, Overrun
    <3>2. QED BY <2>0, <2>2, <3>1 DEF Receive, catalog
  <2>3. CASE FinishFetch(u)
    BY <2>0, <2>3 DEF FinishFetch, catalog
  <2>4. CASE CancelFetch(u)
    BY <2>0, <2>4 DEF CancelFetch, catalog, Undone
  <2>5. QED BY <2>1, <2>2, <2>3, <2>4
<1>2. Fetched' = Fetched
  BY <1>1 DEF Fetched
<1>3. u \in Undone
  BY <1>1 DEF Undone
<1>4. run \notin {"pop", "publish"}
  BY <1>3 DEF Ownership, Stages
<1>5. CASE run = "gather"
  <2>1. u \in level
    BY <1>3, <1>5 DEF Ownership, Stages
  <2>2. \A v \in Url \ level : /\ status'[v] = status[v] /\ row'[v] = row[v]
                               /\ task'[v] = task[v]
    BY <1>1, <2>1
  <2>3. \A v \in level : status[v] # "absent" => status'[v] # "absent"
    <3>1. level \subseteq Url
      BY DEF TypeOK
    <3>2. QED BY <1>1, <3>1
  <2>4. run' = "gather" /\ UNCHANGED <<level, fetchCount>>
    BY <1>1, <1>5 DEF control
  <2>5. QED BY <1>1, <1>2, <1>5, <2>2, <2>3, <2>4, GatherFollowing
<1>6. CASE run # "gather"
  <2>1. run \in {"unwind", "ended"} /\ run' = run /\ cause' = cause
        /\ fetchCount' = fetchCount
    BY <1>1, <1>4, <1>6 DEF TypeOK, control
  <2>2. cause # "none"
    BY <1>3, <2>1 DEF Following, Agrees
  <2>3. Agrees'
    BY <1>1, <2>1, <2>2 DEF Following, Agrees
  <2>4. QED BY <1>2, <2>1, <2>3 DEF Following
<1>7. QED BY <1>5, <1>6

LEMMA StepFollowing ==
    /\ Following /\ Counts /\ Levels /\ Rows /\ Ownership
    /\ TypeOK /\ Progress /\ TypeOK' /\ [Next]_vars
    => Following'
<1> SUFFICES ASSUME Following, Counts, Levels, Rows, Ownership, TypeOK, Progress,
                    TypeOK', [Next]_vars
             PROVE  Following'
  OBVIOUS
<1>1. CASE StartLevel
  BY <1>1, StartLevelFollowing
<1>2. CASE GatherReturns
  BY <1>2, GatherReturnsFollowing
<1>3. CASE GatherRaises
  BY <1>3, GatherRaisesFollowing
<1>4. CASE PublishItem
  BY <1>4, PublishItemFollowing
<1>5. CASE PublishFaults
  <2>1. run' = "unwind" /\ cause' = "internal" /\ UNCHANGED <<task, fetchCount>>
    BY <1>5 DEF PublishFaults, EnterFinally
  <2>2. QED BY <2>1 DEF Following, Agrees, Fetched
<1>6. CASE Unwind
  <2>1. /\ run = "unwind" /\ run' = "ended"
        /\ UNCHANGED <<site, depth, acquisitions, task, cause, fetchCount>>
        /\ status' = [u \in Url |-> IF status[u] \in Unsettled THEN "cancelled"
                                    ELSE status[u]]
    BY <1>6 DEF Unwind
  <2>2. Agrees
    BY <2>1 DEF Following
  <2>3. cause = "none" => status' = status
    BY <2>1, <2>2 DEF Agrees, TypeOK
  <2>4. Undone' = Undone /\ Reference(site)' = Reference(site)
    BY <2>1 DEF Undone
  <2>5. Agrees'
    BY <2>1, <2>2, <2>3, <2>4 DEF Agrees
  <2>6. QED BY <2>1, <2>5 DEF Following, Fetched
<1>7. CASE Stop
  <2>1. /\ UNCHANGED <<site, task, level, todo, fetchCount>> /\ UNCHANGED catalog
        /\ StopAtGather \/ StopAtPublish \/ StopAtUnwind
    BY <1>7 DEF Stop
  <2>2. CASE StopAtGather
    <3>1. run = "gather" /\ run' = "gather" /\ Fetched' = Fetched
      BY <2>1, <2>2 DEF StopAtGather, Fetched
    <3>2. QED BY <2>1, <3>1, GatherFollowing DEF catalog
  <2>3. CASE StopAtPublish \/ StopAtUnwind
    <3>1. cause' = "cancelled" /\ run' \in {"unwind", "ended"}
      BY <2>3 DEF StopAtPublish, StopAtUnwind, EnterFinally
    <3>2. QED BY <2>1, <3>1 DEF Following, Agrees, Fetched
  <2>4. QED BY <2>1, <2>2, <2>3
<1>8. CASE \E u \in Url : StartFetch(u) \/ Receive(u) \/ FinishFetch(u) \/ CancelFetch(u)
  BY <1>8, TaskFollowing
<1>9. CASE UNCHANGED vars
  <2>1. /\ UNCHANGED <<site, run, cause, status, depth, acquisitions, task, level, todo,
                       frontier, fetchCount>>
        /\ Catalog' = Catalog /\ Fetched' = Fetched /\ Undone' = Undone
    BY <1>9, SameCatalog DEF vars, catalog, control, tasks, Fetched, Undone
  <2>2. \A n : /\ AtPop(n)' <=> AtPop(n)
               /\ AtGather(n)' <=> AtGather(n)
               /\ AtPublish(n)' <=> AtPublish(n)
    BY <2>1 DEF AtPop, AtGather, AtPublish, OnLevel, Reached
  <2>3. SettledFetches' = SettledFetches /\ Agrees' = Agrees
    BY <2>1 DEF SettledFetches, Agrees
  <2>4. QED BY <2>1, <2>2, <2>3 DEF Following
<1>10. QED
  BY <1>1, <1>2, <1>3, <1>4, <1>5, <1>6, <1>7, <1>8, <1>9
     DEF Next, RunStep, Network, Ended

-----------------------------------------------------------------------------
(***************************************************************************)
(* A job that has lost an overrun goes on where the reference fails: it    *)
(* has what the levels before had acquired, and keeps it.                  *)
(***************************************************************************)
Overrunning ==
    LET reference == Reference(site)
    IN  /\ reference.cause = "budget"
        /\ reference.catalog.acquisitions \subseteq acquisitions

Tracking == IF lost = {} THEN Following ELSE Overrunning

\* Every fetch that outlives the level loop has been told to stop.
Halting == run \in {"unwind", "ended"} => Undone \subseteq cancelReq

LEMMA InitHalting == Init => Halting
BY DEF Init, Halting

LEMMA StepHalting == Halting /\ Ownership /\ [Next]_vars => Halting'
<1> SUFFICES ASSUME Halting, Ownership, [Next]_vars PROVE Halting'
  OBVIOUS
<1>0. task \in [Url -> TaskState]
  BY DEF Ownership, Types
<1>1. ASSUME NEW u \in Url,
             StartFetch(u) \/ Receive(u) \/ FinishFetch(u) \/ CancelFetch(u)
      PROVE  Halting'
  <2>1. UNCHANGED <<run, cancelReq>>
    BY <1>1 DEF StartFetch, Receive, FinishFetch, CancelFetch, control
  <2>2. u \in Undone
    BY <1>1 DEF StartFetch, Receive, FinishFetch, CancelFetch, Undone
  <2>3. \A v \in Url \ {u} : task'[v] = task[v]
    <3>1. CASE Receive(u)
      <4>1. \/ \E outcome \in Overrun : task' = [task EXCEPT ![u] = outcome]
            \/ task' = task
        BY <3>1 DEF Receive
      <4>2. QED BY <1>0, <4>1
    <3>2. CASE StartFetch(u) \/ FinishFetch(u) \/ CancelFetch(u)
      BY <1>0, <3>2 DEF StartFetch, FinishFetch, CancelFetch
    <3>3. QED BY <1>1, <3>1, <3>2
  <2>4. Undone' \subseteq Undone
    BY <2>2, <2>3 DEF Undone
  <2>5. QED BY <2>1, <2>4 DEF Halting
<1>2. CASE StartLevel
  <2>1. run' = "gather" \/ (task' = task /\ run = "pop")
    BY <1>2 DEF StartLevel, EnterFinally
  <2>2. QED BY <2>1 DEF Halting, Ownership, Stages, Undone
<1>3. CASE GatherReturns \/ PublishItem
  BY <1>3 DEF GatherReturns, PublishItem, Halting
<1>4. CASE GatherRaises \/ PublishFaults
  BY <1>4 DEF GatherRaises, PublishFaults, EnterFinally, ToCancel, Halting, Undone
<1>5. CASE Unwind
  BY <1>5 DEF Unwind, Halting, Undone
<1>6. CASE Stop
  BY <1>6 DEF Stop, StopAtGather, StopAtPublish, StopAtUnwind, EnterFinally, ToCancel,
     Halting, Undone
<1>7. CASE UNCHANGED vars
  BY <1>7 DEF vars, tasks, control, Halting, Undone
<1>8. QED BY <1>1, <1>2, <1>3, <1>4, <1>5, <1>6, <1>7 DEF Next, RunStep, Network, Ended

\* Publishing an item keeps what was acquired before it.
LEMMA CommitAcquires ==
    ASSUME site \in Sites, NEW g \in Catalogs, NEW u \in Url,
           NEW h, h = Commit(g, u, site[u]) \/ h = Mark(g, u, "failed")
    PROVE  g.acquisitions \subseteq h.acquisitions
<1> DEFINE C == {e \in Catalogs : g.acquisitions \subseteq e.acquisitions}
           a == site[u]
           p1 == Published(Sealed(g, u, a.content), u, a.content)
<1>1. /\ a.content \in Content /\ a.links \in Seq(Url)
      /\ g.depth[u] \in Nat
  BY SiteType DEF Catalogs
<1>2. /\ Mark(g, u, "failed").acquisitions = g.acquisitions
      /\ Mark(g, u, "rejected").acquisitions = g.acquisitions
  BY DEF Mark, Catalogs
<1>3. Acquiring(g, u, p1)
  <2>1. p1 = Published(Sealed(g, u, site[u].content), u, site[u].content)
    OBVIOUS
  <2> HIDE DEF p1, a, C
  <2>2. QED BY ONLY <2>1, AcquiredEffect, g \in Catalogs, u \in Url, site \in Sites
<1> HIDE DEF p1
<1>4. p1 \in C
  BY <1>3 DEF Acquiring
<1>5. \A e \in C, i \in 1..Len(a.links) :
          Discover(e, a.links[i], g.depth[u] + 1) \in C
  <2> SUFFICES ASSUME NEW e \in C, NEW i \in 1..Len(a.links)
               PROVE  Discover(e, a.links[i], g.depth[u] + 1) \in C
    OBVIOUS
  <2> DEFINE v == a.links[i]
             d == g.depth[u] + 1
             f == Discover(e, v, d)
  <2>1. v \in Url /\ d \in Nat /\ e \in Catalogs
    BY <1>1
  <2>f. f = Discover(e, v, d)
    OBVIOUS
  <2> HIDE DEF v, d, f
  <2>2. DiscoverOutcome(e, v, d, f)
    BY <2>1, <2>f, DiscoverEffect
  <2>3. f \in Catalogs /\ f.acquisitions = e.acquisitions
    BY <2>2 DEF DiscoverOutcome
  <2>4. f \in C
    BY <2>3
  <2>5. QED BY <2>4 DEF f, v, d
<1> HIDE DEF C
<1>6. DiscoverLinks(p1, a.links, g.depth[u] + 1) \in C
  BY <1>1, <1>4, <1>5, DiscoverLinksKeeps
<1>7. \/ h = Mark(g, u, "failed") \/ h = Mark(g, u, "rejected")
      \/ h = DiscoverLinks(p1, a.links, g.depth[u] + 1)
  BY DEF Commit, p1
<1>8. QED BY <1>2, <1>6, <1>7 DEF C

LEMMA AcquisitionsGrow ==
    ASSUME TypeOK, Progress, [Next]_vars
    PROVE  site' = site /\ acquisitions \subseteq acquisitions'
<1>1. ASSUME NEW u \in Url,
             StartFetch(u) \/ Receive(u) \/ FinishFetch(u) \/ CancelFetch(u)
      PROVE  UNCHANGED <<site, acquisitions>>
  BY <1>1 DEF StartFetch, Receive, FinishFetch, CancelFetch, catalog
<1>2. CASE StartLevel
  BY <1>2 DEF StartLevel, SetCatalog, Popped, Catalog
<1>3. CASE PublishItem
  <2> DEFINE u == Least(todo)
             h == Settle(Catalog, u)
  <2>1. SetCatalog(h) /\ site' = site /\ run = "publish"
    BY <1>3 DEF PublishItem
  <2>2. todo # {} /\ todo \in SUBSET Url
    BY <2>1 DEF TypeOK, Progress
  <2>3. u \in Url
    BY <2>2, LeastIsOne
  <2>4. Catalog \in Catalogs /\ Catalog.acquisitions = acquisitions /\ site \in Sites
    BY CatalogType DEF Catalog, TypeOK
  <2> HIDE DEF u
  <2>5. h = Commit(Catalog, u, site[u]) \/ h = Mark(Catalog, u, "failed")
    BY DEF Settle
  <2> HIDE DEF h
  <2>6. Catalog.acquisitions \subseteq h.acquisitions
    BY <2>3, <2>4, <2>5, CommitAcquires
  <2>7. QED BY <2>1, <2>4, <2>6 DEF SetCatalog
<1>4. CASE PublishFaults
  BY <1>4 DEF PublishFaults, SetCatalog, Sealed, Catalog, catalog
<1>5. CASE GatherReturns \/ GatherRaises \/ Unwind \/ Stop \/ UNCHANGED vars
  BY <1>5 DEF GatherReturns, GatherRaises, Unwind, Stop, vars, catalog
<1>6. QED BY <1>1, <1>2, <1>3, <1>4, <1>5 DEF Next, RunStep, Network, Ended

\* Only a fetch of the level under way overruns the budget, and only when the
\* level does not fit it.
LEMMA LosesOverrun ==
    ASSUME TypeOK, Ownership, Halting, Counts, Following, NEW u \in Url, Receive(u),
           lost' # lost
    PROVE  Overrunning
<1>1. /\ task[u] = "fetching" /\ u \notin cancelReq /\ got[u] < site[u].size
      /\ used + 1 > MaxTotalBytes
  BY DEF Receive
<1>2. u \in Undone /\ u \in Fetched
  BY <1>1 DEF Undone, Fetched
<1>3. run = "gather"
  BY <1>1, <1>2 DEF Halting, Ownership, Stages, TypeOK
<1>4. used = MaxTotalBytes
  BY <1>1, EngineAssumption DEF TypeOK
<1>5. Bytes(site, Fetched) > MaxTotalBytes
  BY <1>1, <1>2, <1>4, OverrunsBudget
<1>6. PICK n \in 0..MaxDepth : AtGather(n)
  BY <1>3 DEF Following
<1>7. QED BY <1>5, <1>6, LevelOverruns DEF Overrunning

LEMMA StepTracking ==
    /\ Tracking /\ Counted /\ Halting /\ Levels /\ Rows /\ Ownership
    /\ TypeOK /\ Progress /\ TypeOK' /\ [Next]_vars
    => Tracking'
<1> SUFFICES ASSUME Tracking, Counted, Halting, Levels, Rows, Ownership,
                    TypeOK, Progress, TypeOK', [Next]_vars
             PROVE  Tracking'
  OBVIOUS
<1>1. site' = site /\ acquisitions \subseteq acquisitions'
  BY AcquisitionsGrow
<1>2. Overrunning => Overrunning'
  BY <1>1 DEF Overrunning
<1>3. CASE lost # {}
  <2>1. lost' # {}
    BY <1>3, LostStays
  <2>2. QED BY <1>2, <1>3, <2>1 DEF Tracking
<1>4. CASE lost = {} /\ lost' = {}
  BY <1>4, StepFollowing DEF Tracking, Counted
<1>5. CASE lost = {} /\ lost' # {}
  <2>1. PICK u \in Url : Receive(u)
    <3>1. ASSUME NEW u \in Url, StartFetch(u) \/ FinishFetch(u) \/ CancelFetch(u)
          PROVE  lost' = lost
      BY <3>1 DEF StartFetch, FinishFetch, CancelFetch
    <3>2. CASE RunStep
      BY <1>5, <3>2 DEF RunStep, StartLevel, GatherReturns, GatherRaises, PublishItem,
         PublishFaults, Unwind, tasks
    <3>3. CASE Stop \/ UNCHANGED vars
      BY <1>5, <3>3 DEF Stop, vars, tasks
    <3>4. QED BY <1>5, <3>1, <3>2, <3>3 DEF Next, Network, Ended
  <2>2. Overrunning
    BY <1>5, <2>1, LosesOverrun DEF Tracking, Counted
  <2>3. QED BY <1>2, <1>5, <2>2 DEF Tracking
<1>6. QED BY <1>3, <1>4, <1>5

\* The inductive invariant: at every await a job that has lost no overrun stands
\* at a level of the reference, and its catalog is the reference's but for what
\* the fetches of the level under way have not settled yet; a job that has lost
\* one is past the level at which the reference fails.
THEOREM FollowsReference == Spec => [](Counted /\ Halting /\ Tracking)
<1>1. Init => Counted /\ Halting /\ Tracking
  <2>1. Init => lost = {}
    BY DEF Init
  <2>2. QED BY <2>1, InitCounted, InitHalting, InitFollowing DEF Tracking
<1>2. /\ Counted /\ Halting /\ Tracking /\ Levels /\ Rows /\ Ownership
      /\ TypeOK /\ Progress /\ TypeOK' /\ [Next]_vars
      => Counted' /\ Halting' /\ Tracking'
  BY StepCounted, StepHalting, StepTracking
<1>3. QED
  BY <1>1, <1>2, LevelsInvariant, RowsInvariant, OwnershipInvariant, TypesHold, PTL
     DEF Spec

\* A job that was not stopped, and whose overruns all reached the level loop,
\* acquires, rejects and fails as the sequential reference does: neither the
\* concurrency nor the order in which its fetches complete shows in what it
\* leaves (engine.py:112-180).  An overrun is lost to a timeout
\* (fetcher.py:381-392, 212-226) only where the reference fails, and the job
\* then keeps what the levels before had acquired.
THEOREM TimingDoesNotShow == Spec => []TimingIndependent
<1>1. Counted /\ Halting /\ Tracking => TimingIndependent
  BY DEF Tracking, Overrunning, Following, Agrees, TimingIndependent
<1>2. QED BY <1>1, FollowsReference, PTL
=============================================================================
