# doc-extraction in TLA+

A verification development for the two services of this repository:

* **web acquisition** (`src/services/web-acquisition`): an asyncio service that
  crawls sites within a job's limits, keeps bodies in a content-addressed store
  and rows in SQLite;
* **document extraction** (`src/src/doc_extraction`): a command and library that
  turns one PDF, image or office file into `document.json`, `document.md` and
  `metadata.json`, with a model worker in a process of its own.

Paths below are relative to the repository root. `map` in `PROJECT.json` gives,
for every definition, the lines of code it stands for.

## How to run

    tlc -workers 2 -config MCCrawlEngine.cfg MCCrawlEngine
    tlapm CrawlEngineProofs.tla

The runs, their configurations and what each one is about are listed in
`PROJECT.json` under `runs`. For each property a *mutant* is recorded: a
definition named `Bug...` beside the true one, and changing the model to use it
makes TLC violate that property. They are small bugs somebody could write (a
dropped condition, a missing reset, a swapped order) and show that the property
depends on the code it is about.

## Inventory

| component | state it keeps | operations | what is hard | what makes it correct |
|---|---|---|---|---|
| crawl job engine (`engine.py`, `frontier.py`) | frontier, resources, tasks of a level, results, pending blobs, byte budget | `run`, `_fetch`, `discover`, `_commit`, `finally` | fetches end in any order; a stop request may arrive at any await; seal and publish may raise | pending files always have an owner; rows settle; the outcome does not depend on timing; a URL is fetched once and at its least depth |
| job manager (`jobs.py`) | task per job, semaphore, `closing` | `submit`, `wait`, `cancel`, `close`, `_execute` | cancel and close race with tasks that start, wait and end; a save that raises; a crash | no open row without a task; limits; terminal rows are final; close leaves nothing |
| SQLite repository (`repository.py`) | jobs, resources, artifacts, acquisitions, discoveries, attempts | `save_*`, `publish`, start-up repair, paged listings | a crash between two transactions; rows written between the pages of a listing | a row cites only a body that is stored; what a row names is there; a listing read page by page misses nothing |
| artifact store (`storage.py`) | `.pending`, shard directories, linked digests | `begin`, `write`, `seal`, `discard` | crashes and power cuts between system calls; two seals of one body; a call that raises | a digest names its own whole body; nothing pending without an open handle |
| scheduler, robots cache, fetch loop (`scheduler.py`, `robots.py`, `fetcher.py`) | host slots, locks, time of the last request, rules per origin | `slot`, `authorize`, `fetch`, `_attempt` | five nested resources, re-entered by redirects and by robots loads | no deadlock; spacing; one robots load at a time; no host takes all slots |
| HTTP exchange (`fetcher.py`) | one connection, a pending body, the attempt's row | `fetch`, `_attempt`, `_request` | a timeout or a cancellation at any await; faults in the `finally` blocks; retries and redirects | a body is handed over or discarded; every attempt is settled; only admitted URLs, never from TLS to plain text; a call ends |
| URLs, policy, discovery (`urls.py`, `policy.py`, `discovery.py`) | none | normalise, admit, parse links | string cases | idempotent normal form; scope |
| API, CLI, hand-off, records (`api.py`, `cli.py`, `integration.py`, `models.py`) | none of their own | one call of the manager each | a client that hangs up | they forward to the manager |
| run output and lock (`cli.py`, `safe_io.py`, `assemble.py`) | three files, `.run.lock` | `process_file` | a stop or a failure between two writes; two runs of one directory; a path that turns unsafe | one whole success or a failure without document; one writer |
| model worker process (`process_worker.py`, `subprocesses.py`, `paddleocr_vl_worker.py`, `paddleocr_vl_backend.py`) | child, pipe, scratch directory | `request`, `start`, `terminate`, `close` | a late reply; a death between two calls; a kill that cannot be verified; an interrupt | a page gets its own reply; no process is forgotten |
| limits and runtime guard (`limits.py`) | reserved temporary bytes, deadline | reserve, check, deduct | one budget shared by snapshot, rasters and worker | never more than `max_temp_bytes` |
| page assembly and table text (`pipelines/base.py`, `image.py`) | elements and tables of a page | assign tokens, infer rows, recover orphans | several passes claim a token with different margins | each token is kept once; rows follow the page |
| PDF and office pipelines (`pdf.py`, `office.py`, `pymupdf_table_backend.py`) | pages so far, suspicious pages still to be extracted again | native, visual, fallback; native tables and the blocks inside them; table converters | one page fails while others succeed; a block and a table claim the same runs | a page with a broken text layer is extracted again or marked; a drawn run stays once; cells do not overlap |
| routing and quality gates (`classifier.py`, `dispatcher.py`, `text_quality.py`, `table_quality.py`, `language_routing.py`) | none | one decision per file, page or table | thresholds | total, consistent decision tables |
| evidence fusion and recovery (`evidence_fusion.py`, `order_recovery.py`, `scan_recovery.py`, `targeted_recovery.py`, `verification.py`) | none | group, accept, keep, reorder | thresholds that cut a text in two; ties | a second reading loses only what it may |
| reading order and stages (`stages/*.py`) | none | split by gutters, sort in bands | elements across columns, boxes that overlap | every element once, none before the one above it |
| OCR, layout, table backends (`backends/*.py`) | loaded model | `convert` | what a model answers | adapters |
| device selection (`resources.py`, `environment.py`) | none | choose a device | a stale snapshot of the GPU | a total decision table |
| schemas, config, logging, telemetry, evaluation | none that is decided on | validate, append | | |

### Interactions

`JobManager.submit` saves a row and creates a task that runs one `CrawlEngine`
under the semaphore of active jobs. The engine starts one `_fetch` task for each
item of a level, gathers them, and only then publishes the level item by item:
`PendingBlob.seal` links the body, `SQLiteRepository.publish` cites it. All
engines of a process share one `Scheduler`, one artifact store and one
repository; a `RobotsCache` belongs to one engine (`engine.py:51`). `cancel`, `close` and the job timeout reach the engine
as a `CancelledError` at whatever await it stands at.

`process_file` takes the lock of its directory, snapshots the input, runs a
pipeline, and publishes. A pipeline turns pages into elements and tables: the
native ones parse, the visual one renders a page and asks layout, OCR and table
recognition about it, and the digital one falls back on the visual one page by
page. With a whole-document backend the persistent model worker does all of it;
the worker shares the run's deadline and its temporary budget.

## The modules

| module | models | checked by | proofs |
|---|---|---|---|
| `CrawlEngine` | one crawl job | `MCCrawlEngine`: `crawl_engine`, `crawl_engine_stop` | `CrawlEngineProofs` |
| `CrawlJobs` | job manager, job rows, crash and restart | `MCCrawlJobs`: `crawl_jobs` | `CrawlJobsProofs` |
| `HostScheduler` | slots, locks, spacing, robots loads | `MCHostScheduler`: `host_scheduler`, `host_scheduler_live` | `HostSchedulerProofs` |
| `HttpFetch` | one call of `HttpFetcher.fetch` | `MCHttpFetch`: `http_fetch`, `http_fetch_overrun` | `HttpFetchProofs` |
| `FetchPromise` | what a call promises, abstractly | refined by `HttpFetch` | `FetchRefines` |
| `Listings` | the tables of the repository, written by running jobs, and a client of the API's listings | `MCListings`: `listings` | `StorageProofs` |
| `ArtifactStore` | store and `publish`, system call by system call | `MCArtifactStore`: `artifact_store` | `StorageProofs` |
| `BlobStore` | what the store promises, abstractly | refined by `ArtifactStore` | `StoreRefines` |
| `ProcessWorker` | client, child, kernel | `process_worker` | `RunAndWorkerProofs` |
| `RunOutput` | run lock and publication | `run_output` | `RunAndWorkerProofs` |
| `ExtractionRun` | `process_file` from the snapshot to the document: routes, stages, fallback, budgets | `MCExtraction`: `extraction` | `ExtractionRunProofs` |
| `PageMerge` | the owner of every OCR token of a page | through `ExtractionRun` | `PageTableProofs` |
| `TableGrids` | cells of a table, for each source of tables | through `ExtractionRun` | `PageTableProofs` |
| `NativeTables` | tables, blocks and images of a digital page | through `ExtractionRun` | `ExtractionRunProofs`, `PageTableProofs` |
| `Rereading` | replacing texts by a second reading | through `ExtractionRun` | `ExtractionRunProofs` |
| `ReadingOrder` | `compute_reading_order` | through `ExtractionRun` | `PageTableProofs` |
| `Boxes` | geometry and stable sorting | through the five above | |

They meet at named interfaces. `CrawlJobs` takes a crawl as one running phase
that ends in any way `CrawlEngine` can end. `CrawlEngine` takes a seal, and a
publish, as one step that succeeds or raises; `ArtifactStore` opens both into
system calls and shows that what remains visible is `BlobStore`.
`HostScheduler` takes a request as one step of unknown length; `CrawlEngine`
takes everything between the start of a fetch and its first byte as waiting.
`HttpFetch` opens one call of `fetch` and shows that what the engine may rely on
is `FetchPromise`. `RunOutput` takes everything before the first write as
`Work`; `ExtractionRun` opens it, and takes a call of the model worker, which
`ProcessWorker` opens, as one step. `Listings` takes what `CrawlEngine` and
`HttpFetch` write as single transactions and adds who reads them.

### CrawlEngine

An action is the code between two awaits; `run` says where the coroutine stands.
`StartLevel` is the head of the loop: `PopLevel`, the page limit, one task per
item. `StartFetch`, `Receive`, `FinishFetch`, `CancelFetch` are a fetch task.
`GatherReturns` and `GatherRaises` are the gather of a level, `PublishItem` is
one `_commit` with the discoveries of its page, `PublishFaults` a seal or a
publish that raises, `Unwind` the `finally` block after its own gather. The
three `Stop...` actions deliver a stop request at each await of `run`; the one
at `unwind` leaves the block and skips the rest of it. It needs a task that is not
over: on the Python the package asks for (3.12 and later) a gather of tasks that are
over does not suspend.

A fetch that receives more than the budget has left ends in one of three ways
(`Overrun`). It fails the level; or the request timeout fires while its connection is
being closed and replaces `JobBudgetExceeded` (finding 2), and then it is one URL's
failure, or starts again with another attempt. `lost` is a history variable: the
URLs this befell. `Settle` is what the publication loop makes of an outcome.

A site is a function from URLs to answers (kind, size, content, links), fixed
at `Init`. The catalog (`status`, `depth`, `row`, frontier, number of
discoveries) is passed through pure operators (`Discover`, `PopLevel`,
`Commit`) so that `Reference`, the outcome of the same job with one fetch at a
time and no stop, is computed from the same operators but in a loop of its own,
written as recursive functions over the items of a level and the levels.

Not in the module: link parsing, canonical URLs (a page is its URL), warnings,
metrics other than discoveries, an `OSError` while a body is written, and a
seal that raises *after* its link (counted as raising before it; `ArtifactStore`
has both).

### CrawlJobs

`phase` follows an asyncio task from creation to the done callback that pops it.
`FirstTurn`, `Acquire`, `CancelBlocked`, `FinishRun` are `_execute`, `Reap` the
callback. A task cancelled before its first turn never runs its body, so its
row is left to `cancel()` (`Repair`). `CancelCall`/`CancelReturns`,
`WaitCall`/`CallEnds` and `CallerCancelled` are callers that suspend in
`cancel` and `wait` and may be cancelled themselves; cancelling a caller of
`wait` cancels the job, as awaiting a task does. A task that is over is not
waited for, popped or not: `cancel` goes on to the row at once, and so does
`close`, which is why its guarantee is of jobs and rows and not of the table of
tasks. `Close`, `CloseNext` and
`CloseCancelled` are `close()`. `Crash` ends every task; `Restart` is the
repair a new `SQLiteRepository` makes. Seed validation is left out.

### HostScheduler

A task holds a prefix of `Path`: the job's slots of the host, the host's slots,
the global slots, the host's lock. `queue` is the FIFO of each semaphore or
lock, and only the head of a queue is granted. `Approach` queues for the
robots lock of the origin; `EnterRobots` answers from the rules or, when they are
absent or expired, loads `robots.txt` while the lock is held: the load goes
through the four resources itself (`loading`). `Wake` sends the request when the pause is over, `Follow` is a
redirect or retry, `Loaded` the end of a load. Time is what is left of each
wait, and what has passed since a host's last request up to the longest
interval. Left out: the sleeps between retries (they hold nothing), and rules
that differ by path (an origin answers as a whole).

### Listings

A table is the sequence of its rows by rowid; `ON CONFLICT DO UPDATE` is
`Upsert`, which keeps the place of a known row. Each transaction is an action:
`SaveResource` and `SaveDiscovery` are the two of `discover`, `StartAttempt` and
`EndAttempt` the two of `save_attempt`, `PublishArtifact` the one of `publish`.
`saving` says that a job stands between the first two. A client goes through one
listing (`BeginReading`, `Ask`, `Forget`) with the `LIMIT` and `OFFSET` of `repository.py`, the
offset being the number of rows it has. A job whose process has died is one that
takes no further step, so every state is also one that a crash leaves.
`ListInit`, `ListNext` and the other longer names keep the module apart from
`ArtifactStore`, as `StorageProofs` extends both.

### ArtifactStore and BlobStore

One action per system call: `Flush`, `Fsync`, `MakeShard`, `Link`,
`FsyncShard` or `Verify`, `Sealed`, then `Publish`. `Spill` and `WriteBack` are
the buffer and the kernel writing early. `Fault` makes the next call raise,
`Discard` is the handler that follows. `Crash` kills a download; `PowerCut` drops
what is not durable: data up to `durable`, directory entries in `newShards` and
`newLinks`. `Ordered` says which file system this is: where it holds, a sync
makes every earlier directory change durable (ext4, XFS, btrfs in their default
modes); where it does not, only what POSIX says of `fsync`. The `.write-<uuid>`
temporary files are ignored. `BlobStore` has two variables: what is
stored and what is cited. `Refines` maps `stored` to the digests whose body is
whole and `cited` to the contents of the rows.

### HttpFetch and FetchPromise

`at` says where the call stands: between hops, in one of the awaits of
`_attempt` (`slots`, `connect`, `headers`, `body`, `closing`), at the save of
its row (`settle`), at the decision of `fetch`, asleep before a retry, or over.
`Hop` and `Authorized` are the head of the loop, `Open` the start of an attempt
with its row, `Headers`, `Piece`, `Complete` and `Broken` the exchange, `Closed`
the end of `_request`'s `finally` block, `Settle` the end of `_attempt`'s.
`TimeOut` and `Cancel` may strike at every await; `Fault` makes a database save
or a discard raise. `Spend` is `ByteBudget.consume`, which changes nothing when
it raises; `OthersSpend` are the other tasks of the job. A server answers as it
likes: a page, a redirect anywhere, a busy status, an error, silence.

`FetchPromise` has the URLs asked so far, whether a body is held, and the
outcome. It promises that only admitted URLs are asked, that a call that started
with TLS keeps to it, that a result holds a body and nothing else does.

### ProcessWorker

The n-th process, its group and its scratch directory share the name n. The
client's actions are `RequestSpawn`, `RequestReuse`, `RequestRespawn`,
`ReadReady`, `ReadReply`, `SeeExit`, `AfterExit`, `Respawn`, `GiveUp`,
`Interrupt`, `Close`; each that gives up contains `Terminate`, whole: the
signal, the verification that may fail, the scratch directory that may not be
removable. The child's are `Load`, `Take`, `Reply`, `Fork`, `Exit`. A read that
is given up may have taken part of a frame (`Torn`); what it leaves reads as
garbage.

### RunOutput

A run goes through `Writes` in order; each write replaces one file atomically.
`Work` is everything before the first write, and fails or succeeds; a log or an
intermediate file may find its path unsafe there too (`Unsafe`).
`CheckFails` is the deadline, `WriteFaults` an `OSError`, `Unsafe` an
`UnsafeOutputPath`, `Stop` a crash or interrupt at any place. `Fail`,
`Unpublish`, `RecordFailure`, `CleanupFaults` are the failure path. A directory
whose last run could not clean up is in `torn` until a later run ends there.

### ExtractionRun and the modules it computes with

`ExtractionRun` follows one document. `pc` is the step of `process_file` or of
the pipeline it chose; `n` is the page, sheet or slide at hand. A document is a
record of what a parser or a model would find in it, so that a model's answer is
an input and what the code does with it is computed. `Snapshot`, `Preflight` and
`Route` come first; `Office` is one unit of a native office file; `Assess` and
`Canonical` are the two loops of `parse_digital_pdf`; `RenderAgain`,
`FallbackEnds` and the note in `Broken` are `_apply_page_fallback`; `Render`,
`RenderImage` and `Visual` lead into `Layout`, `Osd`, `Special`, `Compare`,
`Ocr`, `TableStage` and `MergePage`, one page of `run_scanned_page_pipeline`;
`Predict` is the whole-document model; `Collect` and `Assemble` end the run.
`Tick` lets the deadline pass between any two steps and `Passing` inside one;
each `check_runtime` of the code is a `Checked`, and nothing else looks at the
clock. `overrun` is a history variable: the model calls begun too late.
`RecoverElements` and `RecoverOrder` are the two passes over finished pages that
only the experiments call; they are actions of a finished run.

The other six have no state. `Boxes` holds the geometry of `BBox`, in integers,
with fractions as comparisons of products, and stable sorting by a key.
`TableGrids` turns what each source says of a table (bands and spanning cells,
HTML, `w:tc` identities, merged ranges) into cells. `PageMerge` assigns tokens in
the order of the code: three tiers of `_fill_table_cell_text` (centre inside,
just outside one cell, rows inferred from the rest), then regions, tables
without a region, and blocks recovered from orphans. `ReadingOrder` writes the
recursion of `_order_recursive`, at most two gutters deep, as two levels.
`NativeTables` gives whole drawing runs to the cells of a found table (`CellOf`
is `assign_runs_to_cells`), judges the table (`Doubt` is `assess_table`), and
keeps the blocks and images that no table covers (`Kept` is
`_drop_elements_inside_tables`). `Rereading` compares the text of an element with
what another engine reads in its box: `Fused` is `recover_page_elements` with the
fusion it rests on, `Reordered` is `recover_page_order`. A word is a number there,
and one from `Garbled` on fails the text gate.

Left out: the text itself and its joining, confidences of words, header flags,
headings, archives (`_check_archive`), and exceptions of rendering
and of the native table finder (they end the run like a model that raises).

## The runs

| run | instance | shows |
|---|---|---|
| `crawl_engine` | six URLs, 38 sites, two fetches at a time, one fault, two stops; every limit is reached on some site | no body without an owner (`PendingOwned`), nothing left when the `finally` block ran (`NothingLeftAtEnd`), rows settle but for a publish that raised (`RowsSettledAtEnd`), what is acquired is stored (`AcquiredIsBacked`), least depths (`ShortestDepth`), the same result as one fetch at a time, overruns included, unless a timeout replaced an overrun, and then only where that crawl overruns too and without losing what it acquires (`TimingIndependent`), a stop ends the job (`StopEnds`) |
| `crawl_engine_stop` | the same with one stop, no fault | **violated**: a stop during the unwind, while a sibling of an overrun fetch is still being cancelled, leaves a pending file |
| `crawl_jobs` | three jobs, one slot, two places, one caller, a crash, a failing save | no open row without a task or a documented reason (`NoZombieRow`), limits (`WithinLimits`), `close` leaves no job under way and no unsettled row (`ClosedIsQuiet`) and ends (`CloseEnds`), terminal rows are final (`TerminalIsFinal`), `cancel` returns with the job over and its row settled, suspended or not (`CancelSettles`), every job settles (`JobsSettle`) |
| `listings` | two jobs, three resources, three digests, pages of two rows, three discoveries, one attempt | what a client has read is how the table begins, and a finished reading has all that was there when it began (`PassIsWhole`); what a row names is there, whenever a job dies (`NamesResolve`) |
| `host_scheduler` | three tasks of two jobs, two origins of one host, crawl delay 2 | spacing between requests of a host (`HostSpacing`), at most `HostCap` global slots per host (`HostShare`), no deadlock |
| `host_scheduler_live` | two tasks, two hosts, every capacity 1 | every task ends, also when each is redirected to the other's host |
| `http_fetch` | two TLS URLs, a plain one and one the policy refuses, one retry, one redirect, bodies of two pieces, a budget others share, a cancellation, a fault | a pending body is the current attempt's and has an owner (`BodyHasOwner`), every attempt is settled (`AttemptsSettled`), the call implements `FetchPromise` (`Refines`), and ends (`FetchEnds`) |
| `http_fetch_overrun` | no retry, no redirect, one exchange | **violated**: a timeout replaces the overrun of the budget |
| `process_worker` | two pages, three processes, one interrupt, one unverifiable kill, one failing `rmtree` | no forgotten process (`NoOrphan`), a page gets its own reply (`AcceptedIsOwn`), scratch directories outlive their processes, every request ends |
| `run_output` | three runs, two directories, one stop, one fault, one unsafe path | a directory shows one whole success or a failure without document (`WholeOrNothing`), only the lock holder writes (`OneWriter`) |
| `artifact_store` | three downloads of two bodies in one shard, two pieces each, `Ordered`, a crash, a cut, a fault | no partial blob (`NeverPartial`), refinement of `BlobStore` (`Refines`) |
| `extraction` | 9,758 documents in eight families (see the bounds), about 260,900 states | recognised text is kept once (`EvidenceKeptOnce`), and so is drawn text, with a table of two origins labelled (`NativeTextKept`); cells fit and do not overlap and rows follow the page (`GridsAreSound`); everything is read once, and nothing before what stands above it in its way unless a chain of elements side by side ties the two or the whole-document model gave the order (`ReadsDownward`); suspect pages are extracted again or marked, and the status of the run says so, as of a suspect or skipped table (`SuspectsAreMarked`); budgets and deadline hold (`WithinBudget`); a second reading loses only words it may (`RecoveryKeepsWords`) |

### Bounds, and why they are enough

* *Stops, crashes, cuts, faults, interrupts* are capped at one, stop requests at
  two: the handlers are not re-entered after they have run, except by a stop
  request that meets the finally block of an earlier one, which is why that bound
  is two. One is enough for `crawl_engine_stop`, where an overrun comes first.
* *Sites*: four pages in at most three levels are enough for a page seen from two
  levels, a page seen twice in one level, one artifact too many, one page too
  many, and a level whose second member overruns. The sites named in
  `MCCrawlEngine` each force one of them; `Sweep` varies sizes, shared bodies and
  links.
* *Jobs*: three for one slot: one runs, one waits, one is refused or overtakes.
  One caller: what two callers may do to each other goes through the task they
  both await, and the theorems about safety hold for any number of callers.
* *Listings*: pages of two over three rows give a full page and a short one, with
  rows written between them. Of three digests one can be published below what the
  client has passed. Two jobs share a digest, or keep apart, in every way.
* *Tasks of the scheduler*: three, so that one waits behind another at every
  resource while a third has it. The live run uses capacities of one, the
  hardest case for a cycle. `MaxAge` is the longest interval asked for, 2: what lies
  further back delays nobody.
* *Processes*: three, so that a worker can be replaced twice, and a reply of
  the first could meet the third request.
* *Calls of `fetch`*: one retry and one redirect give an attempt before and after
  each; a second of either repeats the same handlers, and the theorems hold for
  any number. Two pieces of a body let the budget be overrun in its middle.
* *Pages*: a word of `Words` lies inside a cell, across two cells, between rows,
  a few pixels outside a cell, over a caption region, over nothing, or has no
  letter, or no text; three at a time give every pair of owners and a row of
  two inferred cells with a third word beside it. `NativeBoxes` has two columns,
  an element across them, one across part of them, and a band of overlapping
  boxes. Runs of a native table lie in one cell, across two, on its edge, beside
  it, or in a block that is mostly inside it, or have no width; three of them make a
  row with an outlier, and sizes and colours make a cell of two origins.
* *Second readings*: up to four of eight readings over an element of up to four words
  give each decision of the fusion, lines in and out of order, a word
  read twice and one not read at all.
* *Families*: `Images` and `Columnar` exercise page assembly and reading order,
  `Natives` native tables, `Files` the PDF routes with what is installed and what
  fails, `Wholes` the whole-document model, `Office1` the converters, `Rereads` the
  second readings, `Strays` a file of no known kind and one with a unit too many. A family
  varies what its part of the code branches on and fixes the rest, which no branch
  of that part reads.
* *Budgets*: `MaxTemp` 8 and rasters of 2 let a file of size 3 render two pages
  and fail at the third.
* *Downloads*: two of the same body race in `seal`, a third shares their shard.

### Fairness, and why the code justifies it

* `CrawlEngine`: weak fairness of `RunStep` and of `CancelFetch` only: the event
  loop resumes what is ready, and a cancelled fetch ends at its next await.
  Nothing is assumed of servers; `StopEnds` holds if they stay silent.
* `CrawlJobs`: weak fairness of the tasks, of callers' returns, of `close`, and of
  `Restart` (an operator starts the service again). A running job ends because
  of `job_timeout`.
* `HostScheduler`: weak fairness of `Tick`, of each task's own steps and of its
  answers (`request_timeout` bounds a request).
* `HttpFetch`: weak fairness of the call's own steps and of `TimeOut`. Servers,
  other tasks, cancellations and faults have none.
* `ProcessWorker`: weak fairness of the client's wait, which the deadline bounds.
  Nothing is assumed of the child.

Deadlock is checked where the system always has something to do or an explicit
end (`CrawlEngine`, `HostScheduler`). In the other runs the system may really
stop: all jobs are settled, all downloads are over, the call or all runs have
ended.

## What is proved

The theorems hold for every value of the constants that satisfies the
assumption the module names, hence for any number of jobs, callers, URLs,
sites, downloads, crashes and faults. In each case the property is not
inductive by itself.

Types are proved for every module with state: `TypeCorrect` in `CrawlEngineProofs` and
`ExtractionRunProofs`, whose runs check `TypeOK` because their states hold records of
many shapes; `TypesHold` for `CrawlJobs`, `FetchTypes` for `HttpFetch`, `OutputTypes` for
`RunOutput`, `WorkerTypes` for `ProcessWorker`, and, as part of an inductive invariant,
`SchedulerInv`, `WholeInv` for `ArtifactStore` and `Sound` for `Listings`; no run
spends a property on these.

* **`CrawlEngineProofs`**. `Ownership`: each file of `.pending` belongs to a
  task that fetches or to `self.results`, and where `run` stands fixes which of
  them there can be: none between levels, those of the level while it is
  gathered, the items still to publish after it has settled. `PendingIsOwned` follows,
  and `NothingIsLeft`: once `Unwind` has completed the block, no task is undone
  and nothing is pending. `TaskOwnership` holds the cases of the fetch tasks.
  `Rows` says that memory, the resource rows and the acquisitions table agree while the
  level loop runs, that an acquisition has its body in the store, and that what a task
  or the publication still holds is neither queued nor settled: from it
  `MetadataBehindTheBlob` and `RowsAreSettled`. `Levels` says that a URL keeps
  the depth it was first given and that a level is published while nothing lies deeper than
  the next: from it `DepthIsShortest`.
  `TimingDoesNotShow` is the long one. The reference crawl is a recursive function over
  levels, and within a level over its items. `Following` says that at each await the job
  stands at some level n of it (`AtPop`, `AtGather`, `AtPublish`): the pages started are
  those the reference has fetched, and the catalog is the reference's once it is
  `Masked`, which hides how far the fetches of the items still to be published have
  come and commutes with the publication of an item (`CommitMasked`). `Counted`
  says that, until an overrun is lost, the budget used is what the fetches received, so
  that a fetch that overran shows that the level does not fit, in whatever order its
  bytes came, and the reference stops at that level too (`LevelOverruns`). `Halting`
  says that what outlives the level loop has been cancelled, so that an overrun can be
  lost only while the level loop gathers, hence only at the level where the reference
  fails (`LosesOverrun`); from then on `Overrunning` holds, since nothing
  removes an acquisition (`AcquisitionsGrow`). `Tracking` joins the two:
  `Following` while no overrun is lost, `Overrunning` after.
  `FollowsReference` is the invariance. That the
  recursive functions exist and take their steps is an induction on sets of numbers
  (`NatSteps`, `UpTo`, `Iterates`), not on an operator.
* **`CrawlJobsProofs`**. `JobsInv` relates row, phase, `closing` and what each
  caller waits for: a task that is not over has an open row; an open row has a
  task, or was never started, or could not be saved; whoever awaits a task awaits
  a job that was submitted; a dead process has neither tasks nor callers; and
  while `close()` works through its snapshot every task is still in it, or over with its
  row settled (`CloseCovers`). From it `NoZombies`, `CloseIsQuiet`,
  `TerminalStays`, `CancelIsSettled`. `LimitsHold` adds the cardinalities of the
  sets of tasks (`Grows` and `Shrinks` are the two ways they change).
  `QueueInv` says that the queue holds each blocked task once and nothing
  else; `AppendJob`, `TailJob` and `RemoveJob` say what the three changes of a
  queue preserve, and give `QueueHolds`. `TypesHold` collects the types.
* **`StorageProofs`**, of `ArtifactStore`. `WholeInv`: bytes written, cached and durable are
  ordered, a download past `Fsync` has all of its body durable, and a linked
  digest is held by a download of that body that is past `Fsync`.
  `StoreIsNeverPartial` follows, on *any* file system. Under `Ordered`,
  `StoreInv` adds that what a download past its link relies on is linked, and
  that what a row cites is not among the links a power cut may drop. `RowsAreBacked` follows, and `StoreRefines`: each
  step is a step of `BlobStore` or leaves what is stored and cited as it was
  (`StepRefines` has one case per action).
  Of `Listings`:
  `Height` counts what comes before a number in a set, so that `ORDER BY` puts each
  row where its height says (`RisingIs`). A table only grows at its end and keeps
  the places it has (`Grown`, `UpsertIs`), hence so does its listing (`RowsOfGrow`); a
  set of digests grows anywhere, so a digest read as the k-th has at least
  k - 1 before it, and more only behind one that is new (`HeightWidens`). `PassOK` states
  both of a reading under way, `Linked` what the rows name: `ReadingsAreWhole`,
  `NamesAlwaysResolve`.
* **`HostSchedulerProofs`**. `SchedulerInv`: where a task stands fixes how many of
  its four resources it holds (`Positions`), no resource is overdrawn
  (`Bounded`), and for a task that sleeps, what has passed since its host's last
  request and what is left of its sleep add up to both intervals (`Paced`). That
  sum survives a tick, and survives the wake of another task because a sleeper
  holds its host's lock and `Bounded` makes it the only one (`LockAlone`).
  `ProceedHolds` and `RestHolds` carry the two ways a step can end. From it
  `SlotsBounded`; `HostShareHolds`, since who is in a global slot passed its host's
  first; and `SpacingHolds`. The queues are not part of the argument: order matters
  for liveness only.
* **`RunAndWorkerProofs`**. Of `RunOutput`, `OutputInv`: where a run writes or removes it holds the lock
  of its directory (`LockedIn`), and what it has written so far is what its place
  says (`Progress`). A run that reaches its end has therefore written every
  file itself, and one that fails has withdrawn the document before it lets go:
  `DirectoriesAreWhole`, `WritesAreOwned`, with the types in `OutputTypes`.
  Of `ProcessWorker`, whose specification is `WorkerSpec` so that one module can
  speak of both, `WorkerInv`: the client holds a process while it waits
  and none when it is about to spawn (`ClientOK`), and whatever lives, is a zombie or
  was forked belongs to the process held (`OwnOnly`). A verified kill
  empties that set and forgets the process in the same step; an unverified one
  keeps both (`TerminateLeaves`), which is why `StillHeld` must hold on to it.
  `NothingIsOrphaned` follows; so does `ScratchOutlivesProcesses`, as only a verified
  kill removes a directory. `RepliesAreOwn` rests on `Matches` alone: nothing else keeps
  a late reply out of the pipe. `WorkerTypes` covers the torn streams.
* **`HttpFetchProofs`**. `FetchInv` adds to the types what each place of the call
  implies: which attempt is open, which body is pending, what is known of the
  response, and that `current` was admitted and kept to TLS. From it `BodyIsOwned`,
  `AttemptsSettle`, and, step by step, `FetchRefines`.
* **`ExtractionRunProofs`**. `BudgetInv`: each step has its own bound on the calls that
  may have begun late (`Allowed`), because only the router's way back to its
  baseline passes a spent deadline; an image's raster is reserved from the
  preflight on, before its route is known; and scratch exists only in runs of the
  model process, which write no raster of a page. `BudgetsHold` follows. `MarkInv`
  follows the suspect pages from the second loop of `parse_digital_pdf`, where they
  enter `todo`, to the end: a page is what its text asks for, or still to do
  (`Handled`), whether the model answers (`MergeMarks`), raises (`BrokenMarks`) or is
  missing (`FallbackEndsMarks`). Of the data it needs only which notes an operator
  can write (`NativeIs`, `VisualIs`). `SuspectPagesAreMarked` follows. A document
  needs at least one unit, and sizes that are natural numbers.
  `PageInv` says that each page was made from its own unit by the operators
  of one of the routes (`Drawn`), and completes the types. From it `NativeTextIsKept`:
  sorting lists each run once (`Chain`, `Rank`, `Enumerates`); a run goes to one cell of a
  grid at most, and to some cell of each grid where it has a part (`OneCell`,
  `SomeCell`), as it has where the centre of a run with an extent lies in a cell
  (`CentreOnGrid`); a run in no cell is written in its block unless a table stands around
  that block (`WrittenIs`, `DroppedIs`), which `RunIsKept` puts together; and a cell of two
  origins puts its table in doubt (`TwoOriginsShow`). `UnitsAssumption` says what PyMuPDF
  returns: lists of boxes with coordinates, and numbered blocks.
  `RereadingKeepsWords` proves `RecoveryKeepsWords`. It rests on what the folds of the
  merge compute. A fold recurs over the subsets of a finite set, and along a
  sequence it passes through the values of its beginnings (`FoldingSeq`), so a lemma
  `...Runs` takes any property that one step keeps to the end of the sequence. In
  this way a line lists its tokens once (`InLinesIs`), bands and blocks hold
  each token once (`BandsAre`, `BlocksAre`), every element of a page with an image has a
  box and words (`ElementsAre`), the words the fusion keeps are an ordered
  subsequence (`FusedTextIs`), and a reordering moves words that all come once and in
  the same order (`KinIsConsistent`, `ReconstructionIs`). `AnswersAssumption`,
  `GridsAssumption` and `CandidatesAssumption` say what layout, OCR, table
  recognition and the second engine answer: lists of boxes that are not inside out, bands
  with an extent in the order of their starts, an answer for each place.
* **`PageTableProofs`**. `ScannedTextIsKeptOnce` proves `EvidenceKeptOnce` along the tiers of
  `_fill_table_cell_text` and `merge_regions_into_page`. The lines of a grid part its tokens
  (`GroupsAre`), a token has one best column (`BestIsOne`), so the rows inferred from a
  line share none (`RowStocks`, `AllCellsAre`), and a table is stocked with what no table
  before it used up (`StockedTokens`, `SharedCells`): that is `HoldersAre`. What is left over
  is either under a region or an orphan, never both, and the blocks part the orphans
  (`BlocksAre`, `PartsAre`), so each remaining word is in the regions over it or in one
  block (`VisualKeepsOnce`).
  `TableGridsAreSound` proves `GridsAreSound`, one lemma per route. The cells of Table
  Transformer lie apart because a position inside an accepted span begins no cell
  (`BegunApart`); filling them with text keeps that, the rows it infers stand below one
  another, and renumbering the rows by position keeps apart what has one row each
  (`FilledIsFirm`). A PyMuPDF cell ends before the next one of its row (`NativeApart`). A
  cell that the DOCX scan adds starts the rectangle of its `w:tc`, since every earlier
  place of the rectangle is covered by then, and so takes exactly that rectangle
  (`ScanStep`, `RectangleIs`); the ranges of a sheet or slide hide what they cover
  (`RangedIsSound`). A table that does not fit its dimensions fails the run first
  (`Fitting`, `Accepted`), and that HTML cells do not overlap is checked by the code, so there
  the proof has only to show that no cell claims a box (`RowsPlacedUnboxed`).
  `NativeAssumption` says how PyMuPDF builds a grid: a row is the cells with one top, the rows
  go down, no row is longer than `col_count`. `SourcesAssumption` is what an office file
  holds: the places of one `w:tc` fill a rectangle, and the merged ranges of a sheet or slide
  do not overlap. A DOCX row that leaves out leading cells (`w:gridBefore`) can break it:
  python-docx then shifts the row, a merged cell is no rectangle, and the run may fail
  when overlapping cells are rendered. That is outside what is proved and checked here.
  `PagesAreReadDownward` proves `ReadsDownward` from the order up. A band is held together by
  elements that run on, so a sorted set keeps every pair that no chain ties (`BandSortIs`).
  No narrow element crosses a gutter (`GutterIs`), so the two sides never meet in x and what
  is on neither is across (`SidesAre`). The interleaving brings an element of a
  column forward only because it is above one across, `t`. Were it brought before `s` across,
  which is above it, then `t` would be below `s` and read before it, so tied to it, and the
  chain from `s` to `t` would pass the element between them (`NoneAcrossBelow`,
  `WovenApart`). `SplitIs` says this for any order of the
  sides, so two levels need it twice (`Down1`, `Down2`, `Columns2Is`), no induction on the
  depth. Around it, `OrderInv` says that a page has no order until it is assembled, but for
  that of the whole-document model, and then `ReadingOrder`'s; and every route makes pages whose
  elements have no box or one that is not inside out (`MadeOrderable`).

### What is only model-checked

Liveness (`JobsSettle`, `CloseEnds`, `StopEnds`, `EveryTaskEnds`, `FetchEnds`,
`RequestEnds`), which rests on fairness and `ENABLED`. Every invariant and action property
of the runs that pass is proved, for all values of the constants, under the assumptions
named above.

## Findings

1. **A stop request during the unwind skips the cleanup** (`engine.py:185`,
   `NoPendingAfterEnd`). The finally block awaits its cancelled tasks, after an
   overrun or an earlier stop request; a cancellation delivered there while one of
   them has not ended leaves the block, bodies stay in `.pending` and rows stay open.
   In the trace one page of a level has its result, one overruns the budget, and the
   job is stopped while a third is still being cancelled. The tests assert that an
   ended job leaves no pending file.
2. **An overrun can be lost** (`fetcher.py:381`, `OverrunAborts`). `_request` raises
   `JobBudgetExceeded` from the body and then waits, in its `finally` block and
   inside the request timeout, for the connection to close. A timeout there
   replaces the exception, the call ends as a network error or is retried, and the
   level is not aborted, against the comment at `engine.py:165-167`. What becomes of
   the job is in `CrawlEngine`: it goes on where it should have failed, and
   `TimingIndependent` bounds what that can change.

### Disagreements met while modelling that no run states

* A worker that has exited is reaped by `poll()` (`process_worker.py:138`) before
  `terminate()` signals its group; `subprocesses.py:16-18` says the group "cannot
  include unrelated work", which holds only while the leader is not reaped.
* The destination of a run is checked write by write: a run that is rejected for an
  unsafe path at a later write (`cli.py:476-479`) leaves its earlier files, against
  "rejected without writing" (`cli.py:362-363`).
* `seal` does not sync the parent of a new shard directory (`storage.py:107`,
  `147-156`), so on a file system that gives no more than POSIX does a power cut can
  leave a row whose body is gone (`repository.py:125-126`). Under `Ordered` this is
  proved impossible (`RowsAreBacked`).
* A word inside a table region that has a table, but in none of its cells, is
  dropped: it is no orphan, because a region is over it, and the region's own text
  is not gathered (`base.py:303-306`). `EvidenceKeptOnce` names this one way out.
* Rows inferred into a table with a cell that spans rows are renumbered without its
  span, so cells can overlap or leave the grid, and `to_html` raises `ValueError`
  when the document is rendered. `GridsAreSound` excepts it.
* A sheet cut to the cell cap keeps merged ranges that cross the cut, and `Table`
  raises `ValueError`: the run fails (`office.py:226-277`).
* `verify_document` adds notes to pages after `metadata.status` has been decided
  from them (`cli.py:434`, `assemble.py:47-56`): a text that fails the gate leaves
  the status a plain success. `SuspectsAreMarked` names this exception.
* Every page of the digital route carries a `text_quality: ...` note, `ok` included
  (`pdf.py:195`), and `_collect_page_warnings` drops only two other forms
  (`cli.py:251-264`): each digital run ends `success_with_warnings`, which
  `docs/output-format.md:89` keeps for known degradation or fallback.
* The fallback keeps the notes of the native page and drops those of the new one,
  the warning about inferred rows included (`pdf.py:361-367`).
* `RoutedOCRBackend` takes every exception of the specialised recogniser for a reason
  to call the baseline, `ResourceLimitExceeded` included
  (`routed_ocr_backend.py:184`); `WithinBudget` bounds what this costs.
* A listing of artifacts is ordered by digest (`repository.py:162-167`), so that
  while its job runs a client can meet an artifact twice across two pages.
  `PassIsWhole` says when; the other listings are ordered by rowid and cannot.
* `_drop_elements_inside_tables` speaks of text blocks (`pdf.py:120-126`), and drops
  images too. A block that is at least 70% inside a table is dropped whole, also
  when some of its runs lie in no cell: their text is lost, which
  `assign_runs_to_cells` calls no better than corrupting it. A run without a width or a
  height shares no area with a cell, so that it is in none even where its centre lies
  in one. `NativeTextKept` names these ways out.
* `order_recovery` divides the longest ordered subsequence by the length of the
  element's text (`order_consistency`), so that a word the second engine does not
  read makes a text that is in order look disordered: it is replaced and the word
  lost. A word read twice does the same, since each word is matched with its first
  unused occurrence. `RecoveryKeepsWords` states what can be lost.
* `scan_recovery` says that the fused group's verdict must be TRUSTED; the code also
  accepts a partial agreement, and asks only the first group.
* A comment in `verification.py` says that the confidence of a table has already
  reached `page.notes`; the page fallback replaces the notes of the page it rebuilt.
* `urls.py` treats collapsed slashes as a normalisation to opt into, but `urljoin`
  drops empty segments when it resolves a relative reference against a base that
  has doubled slashes.
* What earlier documents of a batch left in the worker's scratch directory is counted
  only while a later request runs (`process_worker.py:251-268`).

Further exceptions the properties state rather than hide: the row of a publish
that raised keeps saying `fetching` (`RowsSettledAtEnd`); a final save that
raised leaves an open row until the next start (`NoZombieRow`); a save or a
discard that raised leaves an attempt open or a file pending (`AttemptsSettled`,
`BodyHasOwner`); a run that is stopped between two writes leaves a torn directory
until the next run (`WholeOrNothing`).

## What is not modelled, and why

Data formats and pure I/O (header parsing, TLS, HTML, SQL reads, JSON, Markdown
rendering), what OCR, layout and table models answer, image statistics and text
similarity, logging and telemetry, evaluation and experiments. Their verdicts
enter the models as nondeterministic choices or as inputs (an answer of a server,
a reply that is garbage, what a model finds on a page). Of `ingest/`,
`targeted_recovery.py` judges new readings of one region and replaces nothing. The candidate selection of
`base.py`, `table_metrics.py` and `disagreement.py` are called by experiments only.
Also outside: the adapters that turn Docling's, MinerU's or PaddleOCR's answers into
boxes, with Docling's cache of eight converted pages; the string work of `urls.py`,
`policy.py` and `discovery.py`; the loops of `cmd_run` and `cmd_compare` over
`process_file`; and the checks of the database path. `PROJECT.json` gives the reason
for each component.

## Plan

Done, most important behaviour first: the crawl job and its cleanup
(`CrawlEngine`), jobs and their rows (`CrawlJobs`), the shared scheduler
(`HostScheduler`), the model worker (`ProcessWorker`), publication
(`RunOutput`), the store (`ArtifactStore`, `BlobStore`), one call of `fetch`
(`HttpFetch`, `FetchPromise`), an extraction with its budgets, routes, page
assembly, tables and reading order (`ExtractionRun`, `PageMerge`, `TableGrids`,
`ReadingOrder`, `Boxes`), native tables (`NativeTables`), second readings
(`Rereading`), and the listings of the API (`Listings`).

Each of these is proved about, the data modules through `ExtractionRun`. What is left
is what the last two sections name: liveness, which is checked and not proved, and
the parts listed as not modelled.
