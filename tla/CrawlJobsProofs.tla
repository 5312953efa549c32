---------------------------- MODULE CrawlJobsProofs ----------------------------
(***************************************************************************)
(* The job table for any number of jobs, callers, crashes and failed       *)
(* saves, and any limits.                                                  *)
(***************************************************************************)
EXTENDS CrawlJobs, FiniteSetTheorems, SequenceTheorems, TLAPS

\* the types, the queue's apart
Types ==
    /\ db \in [Job -> Terminal \cup Open \cup {"none"}]
    /\ phase \in [Job -> Phase]
    /\ unstarted \subseteq Job /\ unsaved \subseteq Job /\ cancelReq \subseteq Job
    /\ call \in [Caller -> [op : {"idle", "cancel", "wait", "abandoned"},
                            job : Job \cup {None}]]
    /\ closing \in {"no", "yes", "done"} /\ toClose \subseteq Job
    /\ closeAt \in Job \cup {None} /\ up \in BOOLEAN
    /\ crashes \in 0..MaxCrashes /\ faults \in 0..MaxFaults

\* A row and its task go together: a job has a row as soon as it has a task,
\* and the row of a task that is not over is open.
RowsAndTasks ==
    \A j \in Job : /\ db[j] = "none" <=> phase[j] = "none"
                   /\ j \in Undone => db[j] \in Open

\* Whoever awaits a task awaits a submitted job.
CallersKnow == \A c \in Caller : call[c].op # "idle" =>
                  call[c].job \in Job /\ db[call[c].job] # "none"

\* A dead process has no task and no caller.
DownIsEmpty == ~up => /\ Tasks = {} /\ closing = "no" /\ closeAt = None
                      /\ \A c \in Caller : call[c] = Idle

\* While close() works through its snapshot, every task is still in it, or is
\* over with its row settled.
CloseCovers ==
    /\ closing # "no" => \A j \in Tasks :
          \/ j \in toClose \cup {closeAt}
          \/ j \notin Undone /\ db[j] \in Terminal
    /\ closing = "done" => toClose = {}
    /\ closing # "yes" => closeAt = None

JobsInv == Types /\ RowsAndTasks /\ CallersKnow /\ DownIsEmpty /\ CloseCovers
           /\ NoZombieRow

LEMMA InitJobsInv == Init => JobsInv
BY JobsAssumption DEF Init, JobsInv, Types, RowsAndTasks, CallersKnow, DownIsEmpty,
   CloseCovers, NoZombieRow, Tasks, Undone, Phase, Terminal, Open, Idle

\* A turn of one job's task.
LEMMA ExecuteJobsInv ==
    ASSUME JobsInv, NEW j \in Job, Execute(j) PROVE JobsInv'
<1> USE DEF JobsInv, Types, RowsAndTasks, CallersKnow, DownIsEmpty, CloseCovers,
        NoZombieRow, Tasks, Undone, Phase, Terminal, Open, Idle, callers
<1>1. CASE FirstTurn(j)
  <2>1. CASE j \in cancelReq
    BY <1>1, <2>1 DEF FirstTurn
  <2>2. CASE j \notin cancelReq /\ Enters
    BY <1>1, <2>2 DEF FirstTurn
  <2>3. CASE j \notin cancelReq /\ ~Enters
    BY <1>1, <2>3 DEF FirstTurn
  <2>4. QED BY <2>1, <2>2, <2>3
<1>2. CASE Acquire(j)
  BY <1>2 DEF Acquire
<1>3. ASSUME NEW s \in Terminal, Leave(j, s), j \in Undone
      PROVE  JobsInv'
  BY <1>3, JobsAssumption DEF Leave
<1>4. CASE CancelBlocked(j)
  BY <1>3, <1>4 DEF CancelBlocked
<1>5. CASE FinishRun(j)
  BY <1>3, <1>5 DEF FinishRun, Outcomes
<1>6. CASE Reap(j)
  BY <1>6 DEF Reap, rows
<1>7. QED BY <1>1, <1>2, <1>4, <1>5, <1>6 DEF Execute

LEMMA StepJobsInv == JobsInv /\ [Next]_vars => JobsInv'
<1> SUFFICES ASSUME JobsInv, [Next]_vars PROVE JobsInv'
  OBVIOUS
<1> USE JobsAssumption
    DEF JobsInv, Types, RowsAndTasks, CallersKnow, DownIsEmpty, CloseCovers,
        NoZombieRow, Tasks, Undone, Phase, Terminal, Open, Idle
<1>1. ASSUME NEW j \in Job, Submit(j) PROVE JobsInv'
  BY <1>1 DEF Submit, Admits, callers
<1>2. ASSUME NEW c \in Caller, NEW j \in Job, CancelCall(c, j) PROVE JobsInv'
  BY <1>2 DEF CancelCall, Repair
<1>3. ASSUME NEW c \in Caller, NEW j \in Job, WaitCall(c, j) PROVE JobsInv'
  BY <1>3 DEF WaitCall, rows, loop
<1>4. ASSUME NEW c \in Caller, CallerCancelled(c) PROVE JobsInv'
  BY <1>4 DEF CallerCancelled, rows
<1>5. CASE Close
  <2>1. /\ closing' = "yes" /\ toClose' = Tasks /\ Tasks' = Tasks
        /\ Undone' = Undone
        /\ UNCHANGED <<db, phase, unstarted, unsaved, cancelReq, call, closeAt, up,
                       crashes, faults>>
    BY <1>5 DEF Close, rows, loop
  <2>2. CloseCovers'
    <3> HIDE DEF Tasks, Undone, CloseCovers
    <3>1. \A j \in Tasks' : j \in toClose'
      BY <2>1
    <3>2. closeAt = None
      BY <1>5 DEF Close, CloseCovers
    <3>3. QED BY <2>1, <3>1, <3>2 DEF CloseCovers
  <2>3. up
    BY <1>5 DEF Close
  <2>4. QED BY <2>1, <2>2, <2>3
<1>6. CASE CloseNext
  BY <1>6 DEF CloseNext, Repair
<1>7. CASE CloseCancelled
  BY <1>7 DEF CloseCancelled, Repair, loop
<1>8. CASE Crash
  <2>1. Tasks' = {} /\ Undone' = {}
    BY <1>8 DEF Crash
  <2>2. Types'
    <3>1. crashes' \in 0..MaxCrashes /\ faults' \in 0..MaxFaults
      BY <1>8 DEF Crash, rows, JobsAssumption
    <3>2. call' \in [Caller -> [op : {"idle", "cancel", "wait", "abandoned"},
                               job : Job \cup {None}]]
      BY <1>8 DEF Crash
    <3>3. phase' \in [Job -> Phase]
      BY <1>8 DEF Crash
    <3>4. QED BY <1>8, <3>1, <3>2, <3>3 DEF Crash, rows
  <2>3. RowsAndTasks'
    BY <1>8, <2>1 DEF Crash, rows
  <2>4. QED BY <1>8, <2>1, <2>2, <2>3 DEF Crash
<1>9. CASE Restart
  BY <1>9 DEF Restart, Interrupted, loop, callers
<1>10. ASSUME NEW c \in Caller, Return(c) PROVE JobsInv'
  BY <1>10 DEF Return, CancelReturns, CallEnds, Repair, rows, loop
<1>11. CASE UNCHANGED vars
  BY <1>11 DEF vars, rows, loop, callers
<1>12. QED
  BY <1>1, <1>2, <1>3, <1>4, <1>5, <1>6, <1>7, <1>8, <1>9, <1>10, <1>11,
     ExecuteJobsInv DEF Next, Request, Shutdown

\* The invariant behind the properties of rows and tasks.
THEOREM JobsInvariant == Spec => []JobsInv
BY InitJobsInv, StepJobsInv, PTL DEF Spec

\* An open row has a live task, or one of the two excuses (jobs.py:100-131).
THEOREM NoZombies == Spec => []NoZombieRow
<1>1. JobsInv => NoZombieRow
  BY DEF JobsInv
<1>2. QED BY <1>1, JobsInvariant, PTL

\* close() leaves no job under way, and no unsettled row of a task that still
\* awaits its callback (jobs.py:122-137).
THEOREM CloseIsQuiet == Spec => []ClosedIsQuiet
<1>1. JobsInv => ClosedIsQuiet
  <2>1. Undone \subseteq Tasks /\ Tasks \subseteq Job
    BY DEF Undone, Tasks
  <2>2. QED BY <2>1, JobsAssumption DEF JobsInv, CloseCovers, ClosedIsQuiet
<1>2. QED BY <1>1, JobsInvariant, PTL

\* No step rewrites a terminal status.
LEMMA StepTerminal ==
    ASSUME JobsInv, [Next]_vars, NEW j \in Job, db[j] \in Terminal
    PROVE  db'[j] = db[j]
<1> USE DEF JobsInv, Types, RowsAndTasks, Tasks, Undone, Phase, Terminal, Open
<1>1. ASSUME NEW k \in Job, Execute(k) PROVE db'[j] = db[j]
  BY <1>1 DEF Execute, FirstTurn, Acquire, CancelBlocked, FinishRun, Leave,
     Reap, rows
<1>2. ASSUME NEW k \in Job, Submit(k) PROVE db'[j] = db[j]
  BY <1>2 DEF Submit
<1>3. ASSUME NEW c \in Caller, NEW k \in Job, CancelCall(c, k) \/ WaitCall(c, k)
      PROVE  db'[j] = db[j]
  BY <1>3 DEF CancelCall, WaitCall, Repair, rows
<1>4. ASSUME NEW c \in Caller, CallerCancelled(c) \/ Return(c)
      PROVE  db'[j] = db[j]
  BY <1>4 DEF CallerCancelled, Return, CancelReturns, CallEnds, Repair, rows
<1>5. CASE Close \/ Shutdown \/ Crash \/ Restart
  BY <1>5 DEF Close, Shutdown, CloseNext, CloseCancelled, Crash, Restart,
     Repair, Interrupted, rows
<1>6. CASE UNCHANGED vars
  BY <1>6 DEF vars, rows
<1>7. QED
  BY <1>1, <1>2, <1>3, <1>4, <1>5, <1>6 DEF Next, Request

THEOREM TerminalStays == Spec => TerminalIsFinal
<1>1. JobsInv /\ [Next]_vars =>
        [\A j \in Job : db[j] \in Terminal => db'[j] = db[j]]_vars
  BY StepTerminal
<1>2. QED BY <1>1, JobsInvariant, PTL DEF Spec, TerminalIsFinal

\* A caller that wakes from cancel() finds the task gone and settles the row.
LEMMA StepWakes ==
    ASSUME JobsInv, [Next]_vars, NEW c \in Caller, call[c].op = "cancel",
           call'[c] = Idle, up'
    PROVE  call[c].job \notin Undone' /\ db'[call[c].job] \in Terminal
<1> USE DEF JobsInv, Types, Idle
<1>1. ASSUME NEW d \in Caller, CancelReturns(d)
      PROVE  call[c].job \notin Undone' /\ db'[call[c].job] \in Terminal
  <2>1. d = c
    BY <1>1 DEF CancelReturns
  <2>2. call[c].job \notin Undone'
    BY <1>1, <2>1 DEF CancelReturns, Tasks, Undone, loop
  <2>3. QED
    BY <1>1, <2>1, <2>2 DEF CancelReturns, CallersKnow, Repair, Terminal, Open
<1>2. ASSUME call'[c] = call[c] PROVE FALSE
  BY <1>2
<1>3. ASSUME NEW d \in Caller, NEW k \in Job, CancelCall(d, k) \/ WaitCall(d, k)
      PROVE  call'[c] = call[c]
  BY <1>3 DEF CancelCall, WaitCall
<1>4. ASSUME NEW d \in Caller, CallerCancelled(d) PROVE call'[c].op # "idle"
  BY <1>4 DEF CallerCancelled
<1>5. ASSUME NEW d \in Caller, CallEnds(d) PROVE call'[c] = call[c]
  BY <1>5 DEF CallEnds
<1>6. ASSUME NEW k \in Job, Execute(k) \/ Submit(k) PROVE call'[c] = call[c]
  BY <1>6 DEF Execute, FirstTurn, Acquire, CancelBlocked, FinishRun, Leave,
     Reap, Submit, callers
<1>7. CASE Close \/ Shutdown \/ Restart \/ UNCHANGED vars
  BY <1>7, <1>2 DEF Close, Shutdown, CloseNext, CloseCancelled, Restart,
     callers, vars
<1>8. CASE Crash
  BY <1>8 DEF Crash
<1>9. QED
  BY <1>1, <1>2, <1>3, <1>4, <1>5, <1>6, <1>7, <1>8 DEF Next, Request, Return

\* A cancel() that does not suspend has found the task over and settles the row.
LEMMA StepAtOnce ==
    ASSUME JobsInv, NEW c \in Caller, NEW j \in Job, CancelCall(c, j),
           call'[c] = Idle
    PROVE  j \notin Undone' /\ db'[j] \in Terminal
<1> USE DEF JobsInv, Types, Idle
<1>1. j \notin Undone
  BY DEF CancelCall
<1>2. db' = Repair(j) /\ phase' = phase /\ db[j] # "none"
  BY <1>1 DEF CancelCall
<1>3. QED BY <1>1, <1>2 DEF Repair, Undone, Terminal, Open

\* cancel() returns with the job over and its row terminal, whether it waited
\* for the task or found it over (jobs.py:121-132).
THEOREM CancelIsSettled == Spec => CancelSettles
<1>1. JobsInv /\ [Next]_vars =>
        [\A c \in Caller, j \in Job :
            Returns(c, j) => j \notin Undone' /\ db'[j] \in Terminal]_vars
  <2> SUFFICES ASSUME JobsInv, [Next]_vars, NEW c \in Caller, NEW j \in Job,
                      Returns(c, j)
               PROVE  j \notin Undone' /\ db'[j] \in Terminal
    OBVIOUS
  <2>1. CASE call[c] = [op |-> "cancel", job |-> j] /\ call'[c] = Idle /\ up'
    <3>1. call[c].op = "cancel" /\ call[c].job = j
      BY <2>1
    <3>2. QED BY <2>1, <3>1, StepWakes
  <2>2. CASE CancelCall(c, j) /\ call'[c] = Idle
    BY <2>2, StepAtOnce
  <2>3. QED BY <2>1, <2>2 DEF Returns
<1>2. QED BY <1>1, JobsInvariant, PTL DEF Spec, CancelSettles

(***************************************************************************)
(* The limits.                                                             *)
(***************************************************************************)
LEMMA Grows ==
    ASSUME NEW S, NEW T, NEW x, NEW n \in Nat, IsFiniteSet(S),
           T \subseteq S \cup {x}, Cardinality(S) < n
    PROVE  Cardinality(T) <= n
<1>0. Cardinality(S) \in Nat
  BY FS_CardinalityType
<1>1. /\ IsFiniteSet(S \cup {x})
      /\ Cardinality(S \cup {x}) = IF x \in S THEN Cardinality(S)
                                   ELSE Cardinality(S) + 1
  BY FS_AddElement, Zenon
<1>2. T \in SUBSET (S \cup {x})
  OBVIOUS
<1>3. Cardinality(T) <= Cardinality(S \cup {x}) /\ IsFiniteSet(T)
  BY <1>1, <1>2, FS_Subset
<1>4. QED BY <1>0, <1>1, <1>3, FS_CardinalityType

LEMMA Shrinks ==
    ASSUME NEW S, NEW T, NEW n \in Nat, IsFiniteSet(S), T \subseteq S,
           Cardinality(S) <= n
    PROVE  Cardinality(T) <= n
BY FS_Subset, FS_CardinalityType

LEMMA InitLimits == Init => WithinLimits
<1> SUFFICES ASSUME Init PROVE WithinLimits
  OBVIOUS
<1>1. Active = {} /\ Tasks = {}
  BY DEF Init, Active, Tasks
<1>2. QED BY <1>1, FS_EmptySet, JobsAssumption DEF WithinLimits, JobsAssumption

LEMMA StepLimits == JobsInv /\ WithinLimits /\ [Next]_vars => WithinLimits'
<1> SUFFICES ASSUME JobsInv, WithinLimits, [Next]_vars PROVE WithinLimits'
  OBVIOUS
<1> USE DEF JobsInv, Types, Tasks, Active, Phase
<1>1. IsFiniteSet(Active) /\ IsFiniteSet(Tasks) /\ MaxActive \in Nat /\ MaxPending \in Nat
  <2>1. Active \in SUBSET Job /\ Tasks \in SUBSET Job
    OBVIOUS
  <2>2. IsFiniteSet(Job) /\ MaxActive \in Nat /\ MaxPending \in Nat
    BY JobsAssumption DEF JobsAssumption
  <2>3. IsFiniteSet(Active)
    BY <2>1, <2>2, FS_Subset
  <2>4. IsFiniteSet(Tasks)
    BY <2>1, <2>2, FS_Subset
  <2>5. QED BY <2>2, <2>3, <2>4
<1>2. ASSUME Active' \subseteq Active, Tasks' \subseteq Tasks PROVE WithinLimits'
  BY <1>1, <1>2, Shrinks DEF WithinLimits
<1>3. ASSUME NEW j \in Job, Active' \subseteq Active \cup {j}, Tasks' \subseteq Tasks,
             SlotFree
      PROVE  WithinLimits'
  BY <1>1, <1>3, Shrinks, Grows DEF WithinLimits, SlotFree
<1>4. ASSUME NEW j \in Job, FirstTurn(j) PROVE WithinLimits'
  <2>1. Tasks' \subseteq Tasks
    BY <1>4 DEF FirstTurn
  <2>2. CASE j \notin cancelReq /\ Enters
    BY <1>3, <1>4, <2>1, <2>2 DEF FirstTurn, Enters
  <2>3. CASE ~(j \notin cancelReq /\ Enters)
    BY <1>2, <1>4, <2>1, <2>3 DEF FirstTurn
  <2>4. QED BY <2>2, <2>3
<1>5. ASSUME NEW j \in Job, Acquire(j) PROVE WithinLimits'
  BY <1>3, <1>5 DEF Acquire
<1>6. ASSUME NEW j \in Job, CancelBlocked(j) \/ FinishRun(j) \/ Reap(j)
      PROVE  WithinLimits'
  BY <1>2, <1>6 DEF CancelBlocked, FinishRun, Leave, Reap
<1>7. ASSUME NEW j \in Job, Submit(j) PROVE WithinLimits'
  <2>1. Active' \subseteq Active /\ Tasks' \subseteq Tasks \cup {j}
    BY <1>7 DEF Submit
  <2>2. Cardinality(Tasks) < MaxPending
    BY <1>7 DEF Submit, Admits
  <2>3. QED BY <1>1, <2>1, <2>2, Shrinks, Grows DEF WithinLimits
<1>8. CASE Crash
  BY <1>2, <1>8 DEF Crash
<1>9. ASSUME phase' = phase PROVE WithinLimits'
  BY <1>2, <1>9
<1>10. CASE \/ Close \/ Shutdown \/ Restart \/ UNCHANGED vars
            \/ \E c \in Caller : Return(c) \/ CallerCancelled(c)
            \/ \E c \in Caller, j \in Job : CancelCall(c, j) \/ WaitCall(c, j)
  BY <1>9, <1>10 DEF Close, Shutdown, CloseNext, CloseCancelled, Restart, Return,
     CancelReturns, CallEnds, CallerCancelled, CancelCall, WaitCall, loop, vars
<1>11. QED
  BY <1>4, <1>5, <1>6, <1>7, <1>8, <1>10 DEF Next, Request, Execute

\* At most MaxActive jobs run and at most MaxPending tasks exist
\* (jobs.py:35, 46, 70).
THEOREM LimitsHold == Spec => []WithinLimits
BY InitLimits, StepLimits, JobsInvariant, PTL DEF Spec

(***************************************************************************)
(* The queue of the semaphore.                                             *)
(***************************************************************************)
Distinct(q) == \A m, n \in DOMAIN q : q[m] = q[n] => m = n

LEMMA AppendJob ==
    ASSUME NEW q \in Seq(Job), Distinct(q), NEW j \in Job \ ToSet(q)
    PROVE  /\ Append(q, j) \in Seq(Job) /\ Distinct(Append(q, j))
           /\ ToSet(Append(q, j)) = ToSet(q) \cup {j}
<1> DEFINE r == Append(q, j)
<1>1. /\ r \in Seq(Job) /\ Len(r) = Len(q) + 1 /\ r[Len(q) + 1] = j
      /\ \A i \in 1..Len(q) : r[i] = q[i]
  OBVIOUS
<1> HIDE DEF r
<1>2. DOMAIN r = 1..(Len(q) + 1) /\ DOMAIN q = 1..Len(q) /\ Len(q) \in Nat
  BY <1>1
<1>3. Distinct(r)
  BY <1>1, <1>2 DEF Distinct, ToSet
<1>4. ToSet(r) = ToSet(q) \cup {j}
  <2>1. \A i \in DOMAIN r : r[i] \in ToSet(q) \cup {j}
    BY <1>1, <1>2 DEF ToSet
  <2>2. j \in ToSet(r)
    <3>1. Len(q) + 1 \in DOMAIN r
      BY <1>2
    <3>2. QED BY <1>1, <3>1 DEF ToSet
  <2>3. \A i \in DOMAIN q : q[i] \in ToSet(r)
    BY <1>1, <1>2 DEF ToSet
  <2>4. QED BY <2>1, <2>2, <2>3 DEF ToSet
<1>5. QED BY <1>1, <1>3, <1>4 DEF r

LEMMA TailJob ==
    ASSUME NEW q \in Seq(Job), Distinct(q), q # <<>>
    PROVE  /\ Tail(q) \in Seq(Job) /\ Distinct(Tail(q))
           /\ ToSet(Tail(q)) = ToSet(q) \ {Head(q)}
<1> DEFINE r == Tail(q)
<1>1. /\ r \in Seq(Job) /\ Len(r) = Len(q) - 1
      /\ \A i \in 1..Len(r) : r[i] = q[i + 1]
  BY HeadTailProperties
<1>2. Len(q) \in Nat \ {0} /\ DOMAIN q = 1..Len(q) /\ Head(q) = q[1]
  OBVIOUS
<1> HIDE DEF r
<1>3. DOMAIN r = 1..(Len(q) - 1) /\ \A i \in 1..(Len(q) - 1) : r[i] = q[i + 1]
  BY <1>1, <1>2
<1>4. Distinct(r)
  BY <1>2, <1>3 DEF Distinct
<1>5. ToSet(r) = ToSet(q) \ {q[1]}
  <2>1. ASSUME NEW i \in DOMAIN r PROVE r[i] \in ToSet(q) \ {q[1]}
    BY <1>2, <1>3 DEF Distinct, ToSet
  <2>2. ASSUME NEW i \in DOMAIN q, i # 1 PROVE q[i] \in ToSet(r)
    <3>1. i - 1 \in DOMAIN r /\ r[i - 1] = q[i]
      BY <1>2, <1>3, <2>2
    <3>2. QED BY <3>1 DEF ToSet
  <2>3. QED BY <2>1, <2>2 DEF ToSet
<1>6. QED BY <1>1, <1>2, <1>4, <1>5 DEF r

LEMMA RemoveJob ==
    ASSUME NEW q \in Seq(Job), Distinct(q), NEW k \in DOMAIN q
    PROVE  /\ RemoveAt(q, k) \in Seq(Job) /\ Distinct(RemoveAt(q, k))
           /\ ToSet(RemoveAt(q, k)) = ToSet(q) \ {q[k]}
<1> DEFINE r == RemoveAt(q, k)
<1>1. k \in 1..Len(q) /\ Len(q) \in Nat /\ DOMAIN q = 1..Len(q)
  OBVIOUS
<1>2. /\ r \in Seq(Job) /\ DOMAIN r = 1..(Len(q) - 1)
      /\ \A i \in 1..(Len(q) - 1) : r[i] = IF i < k THEN q[i] ELSE q[i + 1]
  <2> DEFINE a == SubSeq(q, 1, k - 1)
             b == SubSeq(q, k + 1, Len(q))
  <2>1. /\ a \in Seq(Job) /\ Len(a) = k - 1
        /\ \A i \in 1..(k - 1) : a[i] = q[i]
    <3>1. \A i \in 1..(k - 1) : q[i] \in Job
      BY <1>1
    <3>2. QED BY <1>1, <3>1, SubSeqProperties
  <2>2. /\ b \in Seq(Job) /\ Len(b) = Len(q) - k
        /\ \A i \in 1..(Len(q) - k) : b[i] = q[k + i]
    <3>1. \A i \in (k + 1)..Len(q) : q[i] \in Job
      BY <1>1
    <3>2. QED BY <1>1, <3>1, SubSeqProperties
  <2>3. r = a \o b
    BY Zenon DEF RemoveAt
  <2> HIDE DEF a, b, r
  <2>4. /\ a \o b \in Seq(Job) /\ Len(a \o b) = Len(q) - 1
        /\ \A i \in 1..(Len(q) - 1) :
              (a \o b)[i] = IF i <= k - 1 THEN a[i] ELSE b[i - (k - 1)]
    <3>1. /\ a \o b \in Seq(Job) /\ Len(a \o b) = Len(a) + Len(b)
          /\ \A i \in 1..(Len(a) + Len(b)) :
                (a \o b)[i] = IF i <= Len(a) THEN a[i] ELSE b[i - Len(a)]
      BY <2>1, <2>2, ConcatProperties, Zenon
    <3>2. Len(a) + Len(b) = Len(q) - 1
      BY <1>1, <2>1, <2>2
    <3>3. QED BY <2>1, <3>1, <3>2, Zenon
  <2>5. r \in Seq(Job) /\ DOMAIN r = 1..(Len(q) - 1)
    BY <2>3, <2>4
  <2>6. ASSUME NEW i \in 1..(Len(q) - 1)
        PROVE  r[i] = IF i < k THEN q[i] ELSE q[i + 1]
    <3>1. CASE i < k
      BY <1>1, <2>1, <2>3, <2>4, <3>1
    <3>2. CASE ~(i < k)
      <4>1. i - (k - 1) \in 1..(Len(q) - k) /\ k + (i - (k - 1)) = i + 1
        BY <1>1, <3>2
      <4>2. r[i] = b[i - (k - 1)]
        BY <1>1, <2>3, <2>4, <3>2
      <4>3. b[i - (k - 1)] = q[k + (i - (k - 1))]
        BY <2>2, <4>1
      <4>4. QED BY <3>2, <4>1, <4>2, <4>3
    <3>3. QED BY <3>1, <3>2
  <2>7. QED BY <2>5, <2>6
<1> HIDE DEF r
<1>3. Distinct(r)
  <2>1. \A m, n \in DOMAIN q : q[m] = q[n] => m = n
    BY DEF Distinct
  <2>2. ASSUME NEW m \in DOMAIN r, NEW n \in DOMAIN r, r[m] = r[n] PROVE m = n
    <3> DEFINE at(i) == IF i < k THEN i ELSE i + 1
    <3>1. /\ at(m) \in DOMAIN q /\ r[m] = q[at(m)]
          /\ at(n) \in DOMAIN q /\ r[n] = q[at(n)]
      BY <1>1, <1>2
    <3>2. at(m) = at(n)
      BY <2>1, <2>2, <3>1, Zenon
    <3>3. QED BY <1>1, <1>2, <3>2
  <2>3. QED BY <2>2 DEF Distinct
<1>4. ToSet(r) = ToSet(q) \ {q[k]}
  <2>1. ASSUME NEW i \in DOMAIN r PROVE r[i] \in ToSet(q) \ {q[k]}
    BY <1>1, <1>2 DEF Distinct, ToSet
  <2>2. ASSUME NEW i \in DOMAIN q, i # k PROVE q[i] \in ToSet(r)
    <3>1. CASE i < k
      BY <1>1, <1>2, <2>2, <3>1 DEF ToSet
    <3>2. CASE i > k
      <4>1. i - 1 \in DOMAIN r /\ r[i - 1] = q[i]
        BY <1>1, <1>2, <3>2
      <4>2. QED BY <4>1 DEF ToSet
    <3>3. QED BY <1>1, <2>2, <3>1, <3>2
  <2>3. QED BY <2>1, <2>2 DEF ToSet
<1>5. QED BY <1>2, <1>3, <1>4 DEF r

QueueInv == queue \in Seq(Job) /\ QueueIsBlocked

LEMMA InitQueue == Init => QueueInv
BY DEF Init, QueueInv, QueueIsBlocked, ToSet

LEMMA StepQueue == JobsInv /\ QueueInv /\ [Next]_vars => QueueInv'
<1> SUFFICES ASSUME JobsInv, QueueInv, [Next]_vars PROVE QueueInv'
  OBVIOUS
<1> USE DEF JobsInv, Types, Phase, QueueInv
<1> DEFINE blocked == {j \in Job : phase[j] = "blocked"}
<1>0. Distinct(queue) /\ blocked = ToSet(queue)
  BY DEF QueueIsBlocked, Distinct
<1>1. ASSUME blocked' = blocked, queue' = queue PROVE QueueInv'
  BY <1>1 DEF QueueIsBlocked, ToSet
<1>2. ASSUME NEW j \in Job, FirstTurn(j) PROVE QueueInv'
  <2>1. CASE j \in cancelReq \/ Enters
    <3>1. blocked' = blocked /\ queue' = queue
      BY <1>2, <2>1 DEF FirstTurn
    <3>2. QED BY <1>1, <3>1
  <2>2. CASE ~(j \in cancelReq \/ Enters)
    <3>1. queue' = Append(queue, j) /\ blocked' = blocked \cup {j} /\ j \notin blocked
      BY <1>2, <2>2 DEF FirstTurn
    <3>2. /\ queue' \in Seq(Job) /\ Distinct(queue')
          /\ ToSet(queue') = ToSet(queue) \cup {j}
      BY <1>0, <3>1, AppendJob
    <3>3. QED BY <1>0, <3>1, <3>2 DEF QueueIsBlocked, Distinct, ToSet
  <2>3. QED BY <2>1, <2>2
<1>3. ASSUME NEW j \in Job, Acquire(j) PROVE QueueInv'
  <2>1. queue' = Tail(queue) /\ blocked' = blocked \ {Head(queue)} /\ queue # <<>>
    BY <1>3 DEF Acquire
  <2>2. /\ queue' \in Seq(Job) /\ Distinct(queue')
        /\ ToSet(queue') = ToSet(queue) \ {Head(queue)}
    BY <1>0, <2>1, TailJob
  <2>3. QED BY <1>0, <2>1, <2>2 DEF QueueIsBlocked, Distinct, ToSet
<1>4. ASSUME NEW j \in Job, CancelBlocked(j) PROVE QueueInv'
  <2> DEFINE k == CHOOSE i \in DOMAIN queue : queue[i] = j
  <2>1. k \in DOMAIN queue /\ queue[k] = j
    BY <1>0, <1>4 DEF CancelBlocked, ToSet
  <2>2. queue' = RemoveAt(queue, k) /\ blocked' = blocked \ {j}
    BY <1>4 DEF CancelBlocked, Unqueued, Leave
  <2>3. /\ queue' \in Seq(Job) /\ Distinct(queue')
        /\ ToSet(queue') = ToSet(queue) \ {j}
    <3> HIDE DEF k
    <3>1. QED BY <1>0, <2>1, <2>2, RemoveJob
  <2>4. QED BY <1>0, <2>2, <2>3 DEF QueueIsBlocked, Distinct, ToSet
<1>5. ASSUME NEW j \in Job, Submit(j) PROVE QueueInv'
  <2>1. blocked' = blocked /\ queue' = queue
    BY <1>5 DEF Submit, RowsAndTasks
  <2>2. QED BY <1>1, <2>1
<1>6. ASSUME NEW j \in Job, FinishRun(j) \/ Reap(j) PROVE QueueInv'
  <2>1. blocked' = blocked /\ queue' = queue
    BY <1>6 DEF FinishRun, Reap, Leave
  <2>2. QED BY <1>1, <2>1
<1>7. CASE Crash
  BY <1>7 DEF Crash, QueueIsBlocked, ToSet
<1>8. ASSUME phase' = phase, queue' = queue PROVE QueueInv'
  BY <1>1, <1>8
<1>9. CASE \/ Close \/ Shutdown \/ Restart \/ UNCHANGED vars
           \/ \E c \in Caller : Return(c) \/ CallerCancelled(c)
           \/ \E c \in Caller, j \in Job : CancelCall(c, j) \/ WaitCall(c, j)
  BY <1>8, <1>9 DEF Close, Shutdown, CloseNext, CloseCancelled, Restart, Return,
     CancelReturns, CallEnds, CallerCancelled, CancelCall, WaitCall, loop, vars
<1>10. QED
  BY <1>2, <1>3, <1>4, <1>5, <1>6, <1>7, <1>9 DEF Next, Request, Execute

THEOREM QueueInvariant == Spec => []QueueInv
BY InitQueue, StepQueue, JobsInvariant, PTL DEF Spec

\* The queue holds the blocked jobs, each once (jobs.py:70 and
\* asyncio.Semaphore).
THEOREM QueueHolds == Spec => []QueueIsBlocked
<1>1. QueueInv => QueueIsBlocked
  BY DEF QueueInv
<1>2. QED BY <1>1, QueueInvariant, PTL

\* The type invariant of the module.
THEOREM TypesHold == Spec => []TypeOK
<1>1. JobsInv /\ QueueInv => TypeOK
  BY DEF JobsInv, Types, QueueInv, TypeOK
<1>2. QED BY <1>1, JobsInvariant, QueueInvariant, PTL
=============================================================================
