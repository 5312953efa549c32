------------------------------ MODULE CrawlJobs ------------------------------
(***************************************************************************)
(* JobManager of services/web-acquisition with the rows its repository     *)
(* keeps of the jobs: admission, the semaphore of active jobs, cancel,     *)
(* wait and close as coroutines that suspend, a crash of the process and   *)
(* what the next start does to the rows it finds.                          *)
(*                                                                         *)
(* The crawl itself is one running phase that ends in any way the engine   *)
(* can end (module CrawlEngine).                                           *)
(***************************************************************************)
EXTENDS Integers, FiniteSets, Sequences, SequencesExt

CONSTANTS
    Job,          \* job ids; each is submitted at most once
    None,         \* no job
    Caller,       \* coroutines that call cancel and wait
    MaxActive, MaxPending,
    MaxCrashes,   \* bound: crashes of the process
    MaxFaults     \* bound: final save_job calls that raise

ASSUME JobsAssumption ==
    /\ IsFiniteSet(Job) /\ None \notin Job
    /\ MaxActive \in Nat \ {0} /\ MaxPending \in Nat \ {0}
    /\ MaxCrashes \in Nat /\ MaxFaults \in Nat

Terminal == {"completed", "failed", "cancelled"}
Open     == {"queued", "running"}
Phase    == {"none",       \* not submitted
             "created",    \* the task has not had its first turn
             "blocked",    \* waits for the semaphore of active jobs
             "running",    \* holds it
             "ended",      \* the coroutine is over, its callbacks are not
             "gone"}       \* popped from self.tasks

VARIABLES
    db,           \* jobs.status in the database
    phase,        \* the job's task
    unstarted,    \* jobs whose task was cancelled before its first turn
    unsaved,      \* jobs whose final save_job raised
    queue,        \* FIFO of the semaphore
    cancelReq,    \* tasks with a CancelledError to receive
    call,         \* what each caller is suspended in
    closing,      \* close(): "no", "yes" or "done"
    toClose,      \* ids close() has still to cancel
    closeAt,      \* the id whose cancel() close() awaits
    up, crashes, faults

rows    == <<db, unstarted, unsaved, faults>>
loop    == <<phase, queue, cancelReq>>
callers == <<call, closing, toClose, closeAt>>
vars    == <<rows, loop, callers, up, crashes>>

Tasks  == {j \in Job : phase[j] \in {"created", "blocked", "running", "ended"}}
Undone == {j \in Job : phase[j] \in {"created", "blocked", "running"}}
Active == {j \in Job : phase[j] = "running"}
Idle   == [op |-> "idle", job |-> None]

Init ==
    /\ db = [j \in Job |-> "none"] /\ phase = [j \in Job |-> "none"]
    /\ unstarted = {} /\ unsaved = {} /\ queue = <<>> /\ cancelReq = {}
    /\ call = [c \in Caller |-> Idle]
    /\ closing = "no" /\ toClose = {} /\ closeAt = None
    /\ up = TRUE /\ crashes = 0 /\ faults = 0

\* Operators named Bug... are plausible slips in the code; each replaces the
\* definition that follows it to show that a property can fail.
BugAdmits == closing = "no" /\ Cardinality(Active) < MaxPending
BugAdmitsClosed == Cardinality(Tasks) < MaxPending
Admits == closing = "no" /\ Cardinality(Tasks) < MaxPending

\* submit: the row is saved before the task exists
Submit(j) ==
    /\ up /\ db[j] = "none" /\ Admits
    /\ db' = [db EXCEPT ![j] = "queued"]
    /\ phase' = [phase EXCEPT ![j] = "created"]
    /\ UNCHANGED <<unstarted, unsaved, faults, queue, cancelReq, callers, up,
                   crashes>>

(***************************************************************************)
(* _execute, one job's task.                                               *)
(***************************************************************************)
SlotFree == Cardinality(Active) < MaxActive

\* the semaphore is free, and nobody waits for it
Enters == SlotFree /\ queue = <<>>

\* the first turn: the task enters the semaphore, queues for it, or, when it
\* is already cancelled, ends before its try block
FirstTurn(j) ==
    /\ phase[j] = "created"
    /\ IF j \in cancelReq
       THEN /\ phase' = [phase EXCEPT ![j] = "ended"]
            /\ unstarted' = unstarted \cup {j}
            /\ UNCHANGED <<db, queue>>
       ELSE IF Enters
       THEN /\ phase' = [phase EXCEPT ![j] = "running"]
            /\ db' = [db EXCEPT ![j] = "running"]
            /\ UNCHANGED <<queue, unstarted>>
       ELSE /\ phase' = [phase EXCEPT ![j] = "blocked"]
            /\ queue' = Append(queue, j)
            /\ UNCHANGED <<db, unstarted>>
    /\ UNCHANGED <<unsaved, faults, cancelReq, callers, up, crashes>>

\* the semaphore admits the head of its queue
Acquire(j) ==
    /\ phase[j] = "blocked" /\ j \notin cancelReq
    /\ queue # <<>> /\ Head(queue) = j /\ SlotFree
    /\ queue' = Tail(queue)
    /\ phase' = [phase EXCEPT ![j] = "running"]
    /\ db' = [db EXCEPT ![j] = "running"]
    /\ UNCHANGED <<unstarted, unsaved, faults, cancelReq, callers, up, crashes>>

\* the finally block of _execute: save_job, which may raise
Leave(j, s) ==
    /\ phase' = [phase EXCEPT ![j] = "ended"]
    /\ \/ db' = [db EXCEPT ![j] = s] /\ UNCHANGED <<unsaved, faults>>
       \/ /\ faults < MaxFaults /\ faults' = faults + 1
          /\ unsaved' = unsaved \cup {j} /\ UNCHANGED db
    /\ UNCHANGED <<unstarted, cancelReq, callers, up, crashes>>

\* a cancelled acquire leaves the semaphore's queue
Unqueued(j) == RemoveAt(queue, CHOOSE i \in DOMAIN queue : queue[i] = j)

CancelBlocked(j) ==
    /\ phase[j] = "blocked" /\ j \in cancelReq
    /\ queue' = Unqueued(j)
    /\ Leave(j, "cancelled")

\* a cancelled crawl never completes; its budget may fail in the same turn
Outcomes(j) == IF j \in cancelReq THEN {"cancelled", "failed"}
               ELSE {"completed", "failed"}

FinishRun(j) ==
    /\ phase[j] = "running"
    /\ \E s \in Outcomes(j) : Leave(j, s)
    /\ UNCHANGED queue

BugReap(j) ==
    /\ phase[j] = "ended" /\ j \notin cancelReq
    /\ phase' = [phase EXCEPT ![j] = "gone"]
    /\ UNCHANGED <<rows, queue, cancelReq, callers, up, crashes>>
\* the done callback
Reap(j) ==
    /\ phase[j] = "ended"
    /\ phase' = [phase EXCEPT ![j] = "gone"]
    /\ UNCHANGED <<rows, queue, cancelReq, callers, up, crashes>>

(***************************************************************************)
(* cancel, wait and close.                                                 *)
(***************************************************************************)
\* the end of cancel: a row that no finally block has settled is settled here
BugRepair(j) == db
BugRepairAlways(j) == [db EXCEPT ![j] = "cancelled"]
Repair(j) == [db EXCEPT ![j] = IF db[j] \in Open THEN "cancelled" ELSE db[j]]

\* a task that is over, popped or not, is not waited for: gather() of a done
\* task does not suspend
CancelCall(c, j) ==
    /\ up /\ call[c].op = "idle" /\ db[j] # "none"
    /\ IF j \in Undone
       THEN /\ call' = [call EXCEPT ![c] = [op |-> "cancel", job |-> j]]
            /\ cancelReq' = cancelReq \cup {j}
            /\ UNCHANGED db
       ELSE /\ db' = Repair(j)
            /\ UNCHANGED <<call, cancelReq>>
    /\ UNCHANGED <<unstarted, unsaved, faults, phase, queue, closing, toClose,
                   closeAt, up, crashes>>

\* a suspended caller wakes after the callback of submit, which was added first
CancelReturns(c) ==
    /\ call[c].op = "cancel" /\ call[c].job \notin Tasks
    /\ db' = Repair(call[c].job)
    /\ call' = [call EXCEPT ![c] = Idle]
    /\ UNCHANGED <<unstarted, unsaved, faults, loop, closing, toClose, closeAt,
                   up, crashes>>

WaitCall(c, j) ==
    /\ up /\ call[c].op = "idle" /\ j \in Undone
    /\ call' = [call EXCEPT ![c] = [op |-> "wait", job |-> j]]
    /\ UNCHANGED <<rows, loop, closing, toClose, closeAt, up, crashes>>

\* wait returns the row, or raises what ended the task; an abandoned cancel
\* raises before it looks at the row
CallEnds(c) ==
    /\ call[c].op \in {"wait", "abandoned"} /\ call[c].job \notin Tasks
    /\ call' = [call EXCEPT ![c] = Idle]
    /\ UNCHANGED <<rows, loop, closing, toClose, closeAt, up, crashes>>

\* the caller itself is cancelled: wait and cancel both pass it on to the task
CallerCancelled(c) ==
    /\ call[c].op \in {"cancel", "wait"}
    /\ cancelReq' = cancelReq \cup ({call[c].job} \cap Undone)
    /\ call' = [call EXCEPT ![c].op = IF @ = "cancel" THEN "abandoned" ELSE @]
    /\ UNCHANGED <<rows, phase, queue, closing, toClose, closeAt, up, crashes>>

Close ==
    /\ up /\ closing = "no"
    /\ closing' = "yes" /\ toClose' = Tasks
    /\ UNCHANGED <<rows, loop, call, closeAt, up, crashes>>

CloseNext ==
    /\ closing = "yes" /\ closeAt = None
    /\ IF toClose = {}
       THEN closing' = "done" /\ UNCHANGED <<toClose, closeAt, cancelReq, db>>
       ELSE \E j \in toClose :
              /\ toClose' = toClose \ {j}
              /\ UNCHANGED closing
              /\ IF j \in Undone
                 THEN closeAt' = j /\ cancelReq' = cancelReq \cup {j} /\ UNCHANGED db
                 ELSE db' = Repair(j) /\ UNCHANGED <<closeAt, cancelReq>>
    /\ UNCHANGED <<unstarted, unsaved, faults, phase, queue, call, up, crashes>>

CloseCancelled ==
    /\ closeAt \in Job /\ closeAt \notin Tasks
    /\ db' = Repair(closeAt) /\ closeAt' = None
    /\ UNCHANGED <<unstarted, unsaved, faults, loop, call, closing, toClose, up,
                   crashes>>

(***************************************************************************)
(* The process.                                                            *)
(***************************************************************************)
Crash ==
    /\ up /\ crashes < MaxCrashes /\ crashes' = crashes + 1 /\ up' = FALSE
    /\ phase' = [j \in Job |-> IF db[j] = "none" THEN "none" ELSE "gone"]
    /\ queue' = <<>> /\ cancelReq' = {} /\ call' = [c \in Caller |-> Idle]
    /\ closing' = "no" /\ toClose' = {} /\ closeAt' = None
    /\ UNCHANGED rows

\* SQLiteRepository.__init__: an interrupted job is failed, never resumed
BugInterrupted == {"running"}
Interrupted == Open

Restart ==
    /\ ~up /\ up' = TRUE
    /\ db' = [j \in Job |-> IF db[j] \in Interrupted THEN "failed" ELSE db[j]]
    /\ unstarted' = {} /\ unsaved' = {}
    /\ UNCHANGED <<faults, loop, callers, crashes>>

Execute(j) == FirstTurn(j) \/ Acquire(j) \/ CancelBlocked(j) \/ FinishRun(j)
              \/ Reap(j)
Return(c)  == CancelReturns(c) \/ CallEnds(c)
Shutdown   == CloseNext \/ CloseCancelled
Request    == \/ \E j \in Job : Submit(j)
              \/ \E c \in Caller, j \in Job : CancelCall(c, j) \/ WaitCall(c, j)
              \/ \E c \in Caller : CallerCancelled(c)
              \/ Close
Next == \/ Request \/ Shutdown \/ Crash \/ Restart
        \/ \E j \in Job : Execute(j)
        \/ \E c \in Caller : Return(c)

\* The event loop gives every ready task its turn; job_timeout bounds every
\* running crawl; the operator restarts a crashed process.
Spec == Init /\ [][Next]_vars
LiveSpec ==
    /\ Spec /\ WF_vars(Restart) /\ WF_vars(Shutdown)
    /\ \A j \in Job : WF_vars(Execute(j))
    /\ \A c \in Caller : WF_vars(Return(c))

(***************************************************************************)
(* Properties.                                                             *)
(***************************************************************************)
TypeOK ==
    /\ db \in [Job -> Terminal \cup Open \cup {"none"}]
    /\ phase \in [Job -> Phase]
    /\ unstarted \subseteq Job /\ unsaved \subseteq Job /\ cancelReq \subseteq Job
    /\ queue \in Seq(Job)
    /\ call \in [Caller -> [op : {"idle", "cancel", "wait", "abandoned"},
                            job : Job \cup {None}]]
    /\ closing \in {"no", "yes", "done"} /\ toClose \subseteq Job
    /\ closeAt \in Job \cup {None} /\ up \in BOOLEAN
    /\ crashes \in 0..MaxCrashes /\ faults \in 0..MaxFaults

\* While the process is up, a row that says queued or running belongs to a
\* live task, except for the two cases the code leaves to cancel() and to the
\* next start: a task cancelled before its first turn, and a final save that
\* raised (jobs.py:100-102, 127-131).
NoZombieRow ==
    up => \A j \in Job : db[j] \in Open =>
              j \in Undone \/ j \in unstarted \cup unsaved

\* The admission limits bound what the process holds, whatever order tasks
\* start, block, end and are reaped in (jobs.py:35, 46, 70).
WithinLimits ==
    /\ Cardinality(Active) <= MaxActive
    /\ Cardinality(Tasks) <= MaxPending

\* After close() no job is under way, although jobs could start and end while
\* it was cancelling them one by one.  A task may still await its callback, but
\* its row is settled, even when its own save raised or it never had a turn
\* (jobs.py:122-137).
ClosedIsQuiet ==
    closing = "done" => Undone = {} /\ \A j \in Tasks : db[j] \in Terminal

\* The blocked jobs are exactly the queue of the semaphore, each once: no
\* cancellation loses a place or leaves a ghost that would block the others.
QueueIsBlocked ==
    /\ {j \in Job : phase[j] = "blocked"} = ToSet(queue)
    /\ \A m, n \in DOMAIN queue : queue[m] = queue[n] => m = n

\* A terminal status is final: a late finally block, a second cancel() or a
\* restart never rewrites it.
TerminalIsFinal ==
    [][\A j \in Job : db[j] \in Terminal => db'[j] = db[j]]_vars

\* cancel() of job j by c returns in this step: it wakes, or it finds the task
\* over and never suspends
Returns(c, j) ==
    \/ call[c] = [op |-> "cancel", job |-> j] /\ call'[c] = Idle /\ up'
    \/ CancelCall(c, j) /\ call'[c] = Idle

\* cancel() returns only when the job is over and its row terminal, whether the
\* task was popped, awaits its callback, or never had its first turn.
CancelSettles ==
    [][\A c \in Caller, j \in Job :
          Returns(c, j) => j \notin Undone' /\ db'[j] \in Terminal]_vars

\* Every accepted job reaches a terminal status, unless one of the two
\* exceptions of NoZombieRow befell it.
JobsSettle ==
    \A j \in Job :
        db[j] \in Open ~> db[j] \in Terminal \/ j \in unstarted \cup unsaved

\* close() comes to its end, or the process does.
CloseEnds == closing = "yes" ~> closing = "done" \/ ~up
=============================================================================
