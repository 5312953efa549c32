----------------------------- MODULE CrawlEngine -----------------------------
(***************************************************************************)
(* One crawl job: CrawlEngine.run of services/web-acquisition, the fetch   *)
(* tasks of the current level, and the stop requests (cancel or the job's  *)
(* deadline) that the event loop can deliver at every await.               *)
(*                                                                         *)
(* An action is the code between two awaits.  run is where the coroutine   *)
(* stands: "pop" the next level, "gather" the level's tasks, "publish" the *)
(* settled level one item at a time, "unwind" the finally block's second   *)
(* gather, "ended".                                                        *)
(***************************************************************************)
EXTENDS Integers, FiniteSets, Sequences, SequencesExt, FiniteSetsExt

CONSTANTS
    Url,             \* normalized URLs, numbered in the order sorted() gives them
    Seeds,           \* the job's seeds
    Denied,          \* URLs the policy or the egress rules reject
    Content,         \* response bodies (two URLs may serve the same one)
    Sites,           \* what the crawled site may answer, one function each
    MaxDepth, MaxPages, MaxDiscoveries, MaxArtifacts, MaxTotalBytes,
    Concurrency,
    Faults,          \* commit steps that may raise: subset of {"seal", "publish"}
    MaxStops         \* bound: stop requests per job

Status == {"absent", "accepted", "rejected", "fetching", "failed", "acquired",
           "cancelled"}
TaskState == {"idle", "waiting", "fetching", "result", "error", "budget",
              "cancelled"}
Cause == {"none", "budget", "cancelled", "internal"}
Answer == [kind : {"page", "http_error", "fetch_error"}, size : Nat,
           content : Content, links : Seq(Url)]

ASSUME EngineAssumption ==
    /\ Url \subseteq Nat /\ IsFiniteSet(Url)
    /\ Seeds \subseteq Url /\ Denied \subseteq Url
    /\ \A s \in Sites : s \in [Url -> Answer]
    /\ {MaxDepth, MaxPages, MaxDiscoveries, MaxArtifacts, MaxTotalBytes,
        MaxStops} \subseteq Nat
    /\ Concurrency \in Nat \ {0}
    /\ Faults \subseteq {"seal", "publish"}

VARIABLES
    site,            \* the answers, fixed for the job
    run,             \* where CrawlEngine.run stands
    cause,           \* the exception that ended the level loop
    status, depth,   \* self.resources, in memory
    row,             \* resources.status in the database
    frontier,        \* URLs of Frontier.levels
    found,           \* metrics["discoveries"]
    fetchCount,      \* self.fetch_count
    level, todo,     \* the level's items, and those still to be published
    task,            \* state of the URL's _fetch task
    cancelReq,       \* tasks with a CancelledError to receive
    got, used,       \* bytes of a fetch so far, ByteBudget.used
    lost,            \* history: URLs with an overrun that a timeout replaced
    pending,         \* URLs whose body is a file in .pending
    results,         \* self.results
    artifactIds,     \* self.artifact_ids
    cas,             \* contents linked into the content-addressed store
    acquisitions,    \* the acquisitions table: <<url, content>>
    stops, stopHit,  \* stop requests so far; one is due at the level's gather
    interrupted      \* a stop request hit the finally block

catalog == <<status, depth, row, frontier, found, artifactIds, cas, acquisitions>>
tasks   == <<task, cancelReq, got, used, lost, pending, results>>
control == <<run, cause, level, todo, fetchCount, stops, stopHit, interrupted>>
vars    == <<site, catalog, tasks, control>>

(***************************************************************************)
(* Operators named Bug... are plausible slips in the code; each replaces   *)
(* the definition that follows it to show that a property can fail.        *)
(***************************************************************************)
Undone == {u \in Url : task[u] \in {"waiting", "fetching"}}
Least(S) == CHOOSE u \in S : \A v \in S : u <= v

\* tasks the finally block cancels
BugToCancel == {u \in Undone : task[u] = "waiting"}
ToCancel == Undone

\* gather: every task of the level has a result or an error.  The slip: a
\* gather that returns exceptions, and takes an overrun for one URL's failure
BugLevelSettled == level \cap Undone = {}
LevelSettled == \A u \in level : task[u] \in {"result", "error"}

\* What becomes of a fetch that overruns the byte budget.  JobBudgetExceeded
\* aborts the level, but _request awaits wait_closed before it leaves
\* (fetcher.py:381-392): when the request timeout passes there, its
\* TimeoutError replaces the overrun, and fetch starts again ("fetching") or
\* raises what _fetch returns as the failure of one URL ("error").
Overrun == {"budget", "error", "fetching"}

\* .pending once the body of u is discarded
BugDiscarded(u) == IF u \in cancelReq THEN pending ELSE pending \ {u}
Discarded(u) == pending \ {u}


\* sorted(): the level, and the seeds, in URL order
Before(S, u) == Cardinality({v \in S : v < u})
Sorted(S) == [i \in 1..Cardinality(S) |-> CHOOSE u \in S : Before(S, u) = i - 1]

(***************************************************************************)
(* Synchronous parts, as functions of the catalog g.                       *)
(***************************************************************************)
Catalog == [status |-> status, depth |-> depth, row |-> row,
            frontier |-> frontier, found |-> found,
            artifactIds |-> artifactIds, cas |-> cas,
            acquisitions |-> acquisitions]

SetCatalog(g) ==
    /\ status' = g.status /\ depth' = g.depth /\ row' = g.row
    /\ frontier' = g.frontier /\ found' = g.found
    /\ artifactIds' = g.artifactIds /\ cas' = g.cas
    /\ acquisitions' = g.acquisitions

Mark(g, u, s) == [g EXCEPT !.status[u] = s, !.row[u] = s]

Known(g, u) == g.status[u] # "absent"

\* discover: a known URL only counts; a new one is accepted or rejected
Discover(g, u, d) ==
    IF g.found >= MaxDiscoveries THEN g
    ELSE IF Known(g, u) THEN [g EXCEPT !.found = @ + 1,
                                                  !.row[u] = g.status[u]]
    ELSE LET ok == u \notin Denied /\ d <= MaxDepth
         IN  [Mark(g, u, IF ok THEN "accepted" ELSE "rejected")
                EXCEPT !.found = @ + 1, !.depth[u] = d,
                       !.frontier = IF ok THEN @ \cup {u} ELSE @]

\* the links of a page, one after the other
DiscoverLinks(g, links, d) ==
    LET after[n \in 0..Len(links)] ==
            IF n = 0 THEN g ELSE Discover(after[n - 1], links[n], d)
    IN  after[Len(links)]

BugPopLevel(g) ==
    LET d == Max({g.depth[u] : u \in g.frontier} \cup {0})
        deepest == {u \in g.frontier : g.depth[u] = d}
    IN  {u \in deepest : \A v \in deepest : u <= v}
\* Frontier.pop_level: every URL of the least depth
PopLevel(g) ==
    {u \in g.frontier : \A v \in g.frontier : g.depth[u] <= g.depth[v]}

\* level[:remaining], of a popped level S when n pages have been started
BugFirst(S, n) == {u \in S : Before(S, u) < MaxPages}
First(S, n) == {u \in S : Before(S, u) < MaxPages - n}

\* the popped level leaves the frontier; the pages past the limit are rejected
Popped(g, popped, chosen) ==
    LET cut(f) == [u \in Url |-> IF u \in popped \ chosen THEN "rejected"
                                 ELSE f[u]]
    IN  [g EXCEPT !.status = cut(@), !.row = cut(@), !.frontier = @ \ popped]

\* the artifact cap: duplicates of a stored body are still admitted
OverArtifactLimit(g, c) ==
    Cardinality(g.artifactIds) >= MaxArtifacts /\ c \notin g.artifactIds

BugSealed(g, u, c) ==
    [g EXCEPT !.status[u] = "acquired", !.row[u] = "acquired",
              !.artifactIds = @ \cup {c}, !.cas = @ \cup {c}]
Sealed(g, u, c) ==
    [g EXCEPT !.status[u] = "acquired",
              !.artifactIds = @ \cup {c}, !.cas = @ \cup {c}]

Published(g, u, c) ==
    [g EXCEPT !.row[u] = "acquired", !.acquisitions = @ \cup {<<u, c>>}]

\* publication of one settled item, fetched with answer a, when nothing raises
Commit(g, u, a) ==
    CASE a.kind # "page" -> Mark(g, u, "failed")
      [] a.kind = "page" /\ OverArtifactLimit(g, a.content)
            -> Mark(g, u, "rejected")
      [] OTHER -> DiscoverLinks(Published(Sealed(g, u, a.content), u, a.content),
                                a.links, g.depth[u] + 1)

InitCatalog ==
    LET none == [status |-> [u \in Url |-> "absent"],
                 depth |-> [u \in Url |-> 0],
                 row |-> [u \in Url |-> "absent"],
                 frontier |-> {}, found |-> 0,
                 artifactIds |-> {}, cas |-> {}, acquisitions |-> {}]
    IN  DiscoverLinks(none, Sorted(Seeds), 0)

Init ==
    /\ site \in Sites
    /\ run = "pop" /\ cause = "none"
    /\ status = InitCatalog.status /\ depth = InitCatalog.depth
    /\ row = InitCatalog.row /\ frontier = InitCatalog.frontier
    /\ found = InitCatalog.found
    /\ artifactIds = {} /\ cas = {} /\ acquisitions = {}
    /\ fetchCount = 0 /\ level = {} /\ todo = {}
    /\ task = [u \in Url |-> "idle"] /\ cancelReq = {}
    /\ got = [u \in Url |-> 0] /\ used = 0 /\ lost = {}
    /\ pending = {} /\ results = {}
    /\ stops = 0 /\ stopHit = FALSE /\ interrupted = FALSE

(***************************************************************************)
(* The coroutine of the job.                                               *)
(***************************************************************************)
\* leaving the level loop: the finally block cancels what still runs
EnterFinally(c) ==
    /\ run' = "unwind" /\ cause' = c
    /\ cancelReq' = cancelReq \cup ToCancel

\* the head of the while loop: pop, apply the page limit, start the tasks
StartLevel ==
    /\ run = "pop"
    /\ LET popped == PopLevel(Catalog)
           chosen == First(popped, fetchCount)
       IN  /\ SetCatalog(Popped(Catalog, popped, chosen))
           /\ IF chosen = {}
              THEN /\ EnterFinally("none")
                   /\ UNCHANGED <<level, task, fetchCount>>
              ELSE /\ run' = "gather" /\ level' = chosen
                   /\ fetchCount' = fetchCount + Cardinality(chosen)
                   /\ task' = [u \in Url |-> IF u \in chosen THEN "waiting"
                                             ELSE task[u]]
                   /\ UNCHANGED <<cause, cancelReq>>
    /\ UNCHANGED <<site, todo, got, used, lost, pending, results, stops, stopHit,
                   interrupted>>

\* gather returns: every task of the level has a result or an error
GatherReturns ==
    /\ run = "gather" /\ ~stopHit
    /\ LevelSettled
    /\ run' = "publish" /\ todo' = level
    /\ UNCHANGED <<site, catalog, tasks, cause, level, fetchCount, stops,
                   stopHit, interrupted>>

\* gather raises: the first failed task wins, or the stop request does
GatherRaises ==
    /\ run = "gather"
    /\ \E c \in {"budget", "cancelled"} :
         /\ c = "budget" => \E u \in level : task[u] = "budget"
         /\ c = "cancelled" =>
              /\ stopHit
              /\ \/ \E u \in level : task[u] \in {"budget", "cancelled"}
                 \/ level \cap Undone = {}
         /\ EnterFinally(c)
    /\ UNCHANGED <<site, catalog, task, got, used, lost, pending, results, level,
                   todo, fetchCount, stops, stopHit, interrupted>>

\* what the publication loop makes of the outcome of u: a result is committed,
\* any error is the URL's own
Settle(g, u) == IF task[u] = "result" THEN Commit(g, u, site[u])
                ELSE Mark(g, u, "failed")

\* one turn of the publication loop, in URL order
PublishItem ==
    /\ run = "publish"
    /\ LET u == Least(todo)
       IN  /\ SetCatalog(Settle(Catalog, u))
           /\ pending' = pending \ {u} /\ todo' = todo \ {u}
           /\ IF todo = {u} THEN run' = "pop" /\ results' = {}
              ELSE UNCHANGED <<run, results>>
    /\ UNCHANGED <<site, task, cancelReq, got, used, lost, cause, level,
                   fetchCount, stops, stopHit, interrupted>>

\* seal or publish raises.  A failed seal leaves the body in .pending; a
\* failed publish leaves the blob linked, the resource acquired in memory
\* only, and its row as it was.
PublishFaults ==
    /\ run = "publish"
    /\ LET u == Least(todo) IN
         /\ task[u] = "result" /\ site[u].kind = "page"
         /\ ~OverArtifactLimit(Catalog, site[u].content)
         /\ \/ "seal" \in Faults /\ UNCHANGED <<catalog, pending>>
            \/ /\ "publish" \in Faults
               /\ SetCatalog(Sealed(Catalog, u, site[u].content))
               /\ pending' = pending \ {u}
    /\ EnterFinally("internal")
    /\ UNCHANGED <<site, task, got, used, lost, results, level, todo, fetchCount,
                   stops, stopHit, interrupted>>

BugUnsettled == {"fetching"}
Unsettled == {"accepted", "fetching"}

\* the rest of the finally block, once its gather returned
Unwind ==
    /\ run = "unwind" /\ Undone = {}
    /\ run' = "ended"
    /\ pending' = pending \ results
    /\ LET stop == {u \in Url : status[u] \in Unsettled}
           mark(f) == [u \in Url |-> IF u \in stop THEN "cancelled" ELSE f[u]]
       IN  status' = mark(status) /\ row' = mark(row)
    /\ UNCHANGED <<site, depth, frontier, found, artifactIds, cas, acquisitions,
                   task, cancelReq, got, used, lost, results, cause, level, todo,
                   fetchCount, stops, stopHit, interrupted>>

\* cancel() or the deadline, delivered at the await where run stands
StopAtGather ==
    /\ run = "gather"
    /\ stopHit' = TRUE /\ cancelReq' = cancelReq \cup Undone
    /\ UNCHANGED <<run, cause, interrupted>>

StopAtPublish ==
    /\ run = "publish"
    /\ EnterFinally("cancelled") /\ UNCHANGED <<stopHit, interrupted>>

\* The exception leaves the finally block: the rest of it never runs.  A gather
\* of tasks that are over does not suspend; and a stop between the end of the
\* last task and the turn of run has the effect of one just before that end.
StopAtUnwind ==
    /\ run = "unwind" /\ level \cap Undone # {}
    /\ run' = "ended" /\ cause' = "cancelled" /\ interrupted' = TRUE
    /\ cancelReq' = cancelReq \cup Undone /\ UNCHANGED stopHit

Stop ==
    /\ stops < MaxStops /\ stops' = stops + 1
    /\ StopAtGather \/ StopAtPublish \/ StopAtUnwind
    /\ UNCHANGED <<site, catalog, task, got, used, lost, pending, results, level,
                   todo, fetchCount>>

(***************************************************************************)
(* The _fetch tasks of the level.                                          *)
(***************************************************************************)
\* the job's semaphore is FIFO and the tasks queue in URL order
StartFetch(u) ==
    /\ task[u] = "waiting" /\ u \notin cancelReq
    /\ Cardinality({v \in Url : task[v] = "fetching"}) < Concurrency
    /\ \A v \in Undone \ cancelReq : task[v] = "waiting" => u <= v
    /\ task' = [task EXCEPT ![u] = "fetching"]
    /\ status' = [status EXCEPT ![u] = "fetching"]
    /\ row' = [row EXCEPT ![u] = "fetching"]
    /\ UNCHANGED <<site, depth, frontier, found, artifactIds, cas, acquisitions,
                   cancelReq, got, used, lost, pending, results, control>>

\* one piece of the body: counted against the job's budget, then written
Receive(u) ==
    /\ task[u] = "fetching" /\ u \notin cancelReq /\ got[u] < site[u].size
    /\ IF used + 1 > MaxTotalBytes
       THEN /\ \E outcome \in Overrun :
                 /\ task' = [task EXCEPT ![u] = outcome]
                 /\ got' = IF outcome = "fetching" THEN [got EXCEPT ![u] = 0]
                           ELSE got
                 /\ lost' = IF outcome = "budget" THEN lost ELSE lost \cup {u}
            /\ pending' = Discarded(u)
            /\ UNCHANGED used
       ELSE /\ used' = used + 1 /\ got' = [got EXCEPT ![u] = @ + 1]
            /\ pending' = pending \cup {u}
            /\ UNCHANGED <<task, lost>>
    /\ UNCHANGED <<site, catalog, cancelReq, results, control>>

\* the end of the exchange: a result that owns its body, or an error
FinishFetch(u) ==
    /\ task[u] = "fetching" /\ u \notin cancelReq /\ got[u] = site[u].size
    /\ IF site[u].kind = "fetch_error"
       THEN /\ task' = [task EXCEPT ![u] = "error"]
            /\ pending' = Discarded(u) /\ UNCHANGED results
       ELSE /\ task' = [task EXCEPT ![u] = "result"]
            /\ pending' = pending \cup {u} /\ results' = results \cup {u}
    /\ UNCHANGED <<site, catalog, cancelReq, got, used, lost, control>>

\* CancelledError reaches the task: the body is discarded
CancelFetch(u) ==
    /\ u \in cancelReq \cap Undone
    /\ task' = [task EXCEPT ![u] = "cancelled"]
    /\ pending' = Discarded(u)
    /\ UNCHANGED <<site, catalog, cancelReq, got, used, lost, results, control>>

Ended == run = "ended" /\ Undone = {} /\ UNCHANGED vars

RunStep == \/ StartLevel \/ GatherReturns \/ GatherRaises \/ PublishItem
           \/ PublishFaults \/ Unwind
Network == \E u \in Url : StartFetch(u) \/ Receive(u) \/ FinishFetch(u)
Next == RunStep \/ Stop \/ Network \/ (\E u \in Url : CancelFetch(u)) \/ Ended

Spec == Init /\ [][Next]_vars

\* The event loop runs every ready callback; a server may stay silent, so
\* nothing is assumed of Network.
LiveSpec ==
    /\ Spec /\ WF_vars(RunStep)
    /\ \A u \in Url : WF_vars(CancelFetch(u))

(***************************************************************************)
(* Properties.                                                             *)
(***************************************************************************)
TypeOK ==
    /\ site \in Sites
    /\ run \in {"pop", "gather", "publish", "unwind", "ended"}
    /\ cause \in Cause
    /\ status \in [Url -> Status] /\ row \in [Url -> Status]
    /\ depth \in [Url -> Nat] /\ frontier \subseteq Url
    /\ found \in 0..MaxDiscoveries /\ fetchCount \in 0..MaxPages
    /\ todo \subseteq level /\ level \subseteq Url
    /\ task \in [Url -> TaskState] /\ cancelReq \subseteq Url
    /\ got \in [Url -> Nat] /\ used \in 0..MaxTotalBytes /\ lost \subseteq Url
    /\ pending \subseteq Url /\ results \subseteq Url
    /\ artifactIds \subseteq Content /\ cas \subseteq Content
    /\ acquisitions \subseteq Url \X Content
    /\ stops \in 0..MaxStops /\ {stopHit, interrupted} \subseteq BOOLEAN

\* Every file in .pending belongs to a fetch that still runs, or to
\* self.results, whose bodies the job's own code will publish or discard
\* (engine.py:137, 186): no interleaving of completions, budget failures and
\* stop requests orphans one while the job runs.
PendingOwned ==
    pending \subseteq {u \in Url : task[u] = "fetching"} \cup results

\* A job whose finally block ran to its end leaves no fetch task and no
\* pending file (engine.py:181-187).
NothingLeftAtEnd ==
    run = "ended" /\ ~interrupted => Undone = {} /\ pending = {}

\* Nor does it leave a resource row that still says accepted or fetching,
\* the row of a publish that raised apart: the finally block looks at the
\* resource in memory, which already says acquired (engine.py:188-192, 246).
RowsSettledAtEnd ==
    run = "ended" /\ ~interrupted =>
        \A u \in Url : row[u] \in {"accepted", "fetching"} =>
                            cause = "internal" /\ status[u] = "acquired"

\* The acquired rows are those with an acquisitions entry, and the body they
\* name is in the store: metadata never runs ahead of the blob
\* (repository.py:124-139).
AcquiredIsBacked ==
    \A u \in Url :
        /\ row[u] = "acquired" <=> <<u, site[u].content>> \in acquisitions
        /\ row[u] = "acquired" => site[u].content \in cas

\* The depth of a known URL is at most one more than that of any acquired
\* page that links to it, and a seed's is zero (frontier.py:1).
ShortestDepth ==
    \A u \in Url : status[u] # "absent" =>
        /\ u \in Seeds => depth[u] = 0
        /\ \A p \in Url : row[p] = "acquired" /\ u \in ToSet(site[p].links)
                => depth[u] <= depth[p] + 1

\* The crawl of a site s with one fetch at a time, a level at a time, and no
\* stop: the items of a level are committed in order, and the job fails at the
\* first level that overruns the byte budget.  CommitRun and ReferenceRun are
\* the catalogs and the jobs after each item and each level.
CommitRun(s, g, S) ==
    LET after[n \in 0..Cardinality(S)] ==
            IF n = 0 THEN g
            ELSE Commit(after[n - 1], Sorted(S)[n], s[Sorted(S)[n]])
    IN  after

CommitAll(s, g, S) == CommitRun(s, g, S)[Cardinality(S)]

Total(f) ==
    LET sum[n \in 0..Cardinality(Url)] ==
            IF n = 0 THEN 0 ELSE sum[n - 1] + f[Sorted(Url)[n]]
    IN  sum[Cardinality(Url)]

Bytes(s, S) == Total([u \in Url |-> IF u \in S THEN s[u].size ELSE 0])

ReferenceLevel(s, r) ==
    LET popped  == PopLevel(r.catalog)
        chosen  == First(popped, Cardinality(r.fetched))
        fetched == r.fetched \cup chosen
    IN  IF r.cause = "budget" THEN r
        ELSE IF Bytes(s, fetched) > MaxTotalBytes THEN [r EXCEPT !.cause = "budget"]
        ELSE [catalog |-> CommitAll(s, Popped(r.catalog, popped, chosen), chosen),
              fetched |-> fetched, cause |-> "none"]

ReferenceRun(s) ==
    LET after[n \in 0..(MaxDepth + 1)] ==
            IF n = 0 THEN [catalog |-> InitCatalog, fetched |-> {}, cause |-> "none"]
            ELSE ReferenceLevel(s, after[n - 1])
    IN  after

Reference(s) == ReferenceRun(s)[MaxDepth + 1]

\* What a job acquires, rejects and at which depth, and whether its byte
\* budget fails, depend on the site and the policy alone, not on the
\* concurrency or on the order in which fetches complete (engine.py:165-167).
\* Not so once a timeout has replaced an overrun: the job then goes on where
\* it should have failed.  But that befalls only a job whose bytes exceed the
\* budget in any order, and what the levels before had acquired stays.
TimingIndependent ==
    LET reference == Reference(site)
    IN  run = "ended" =>
          /\ lost = {} /\ cause \in {"none", "budget"} => reference.cause = cause
          /\ lost = {} /\ cause = "none" =>
                /\ status = reference.catalog.status
                /\ depth = reference.catalog.depth
          /\ lost = {} /\ cause = "budget" =>
                acquisitions = reference.catalog.acquisitions
          /\ lost # {} =>
                /\ reference.cause = "budget"
                /\ reference.catalog.acquisitions \subseteq acquisitions

\* Once the level loop has failed or a stop request is due, the job ends,
\* even when every remaining server stays silent.
StopEnds == (stopHit \/ cause # "none") ~> (run = "ended" /\ Undone = {})

\* After a job has ended and its tasks are done, .pending holds none of its
\* files (tests/test_crawl_jobs.py:128, 181).
NoPendingAfterEnd == run = "ended" /\ Undone = {} => pending = {}
=============================================================================
