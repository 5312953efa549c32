---------------------------- MODULE ProcessWorker ----------------------------
(***************************************************************************)
(* BoundedPersistentWorker and the model worker it supervises: one child   *)
(* in a session of its own, requests on its stdin, framed replies on its   *)
(* stdout, a deadline for every request, and the process group killed when *)
(* anything goes wrong.  PaddleOCRVLBackend.convert is the caller.         *)
(*                                                                         *)
(* The n-th process spawned, its group and its scratch directory are all   *)
(* called n.  parent is where the client stands: "idle", "starting" (waits *)
(* for the ready frame), "waiting" (for the reply), "reaped" (poll() saw   *)
(* the exit and terminate() comes next), "closed".                         *)
(***************************************************************************)
EXTENDS Integers, FiniteSets, Sequences, SequencesExt

CONSTANTS
    Page,             \* inputs, by their SHA-256
    None,             \* no page
    MaxProcs,         \* bound: processes spawned
    MaxInterrupts,    \* bound: KeyboardInterrupts during a request
    MaxStuck,         \* bound: kills that cannot be verified in time
    MaxRmFaults       \* bound: rmtree calls that raise

ASSUME WorkerAssumption ==
    /\ None \notin Page /\ "loading" \notin Page
    /\ {MaxProcs, MaxInterrupts, MaxStuck, MaxRmFaults} \subseteq Nat

Proc  == 1..MaxProcs
Frame == [kind : {"ready", "failed", "garbage"}, page : {None}]
         \cup [kind : {"completed"}, page : Page]

VARIABLES
    parent, cur,     \* the client, and the page it asked for
    again,           \* after "reaped", spawn (TRUE) or raise (FALSE)
    held,            \* self.process, 0 for None
    scratchDir,      \* self.scratch_dir, 0 for None
    disk,            \* scratch directories that exist
    spawned,
    live, zombie,    \* leaders that run, or have exited and are not reaped
    kin,             \* groups with a member besides the leader
    doing,           \* the child: "loading", "idle", "dying", "none" or a page
    stdin, pipe,     \* of the held process
    accepted,        \* <<page submitted, page of the reply taken for it>>
    interrupts, stuck, rmFaults

client  == <<parent, cur, again, held, scratchDir>>
system  == <<disk, spawned, live, zombie, kin>>
channel == <<doing, stdin, pipe>>
bounds  == <<interrupts, stuck, rmFaults>>
workerVars == <<client, system, channel, accepted, bounds>>

\* the group has a member
Exists(n)  == n \in live \cup zombie \cup kin
Running(n) == n \in live \cup kin

WorkerInit ==
    /\ parent = "idle" /\ cur = None /\ again = FALSE
    /\ held = 0 /\ scratchDir = 0 /\ disk = {} /\ spawned = 0
    /\ live = {} /\ zombie = {} /\ kin = {}
    /\ doing = "none" /\ stdin = <<>> /\ pipe = <<>>
    /\ accepted = {}
    /\ interrupts = 0 /\ stuck = 0 /\ rmFaults = 0

(***************************************************************************)
(* terminate(): kill the group, verify, forget the process, remove its     *)
(* scratch directory.                                                      *)
(***************************************************************************)
\* Operators named Bug... are plausible slips in the code; each replaces the
\* definition that follows it to show that a property can fail.

BugVerified ==
    /\ live' = live \ {held} /\ zombie' = zombie \ {held}
    /\ held' = 0 /\ doing' = "none" /\ stdin' = <<>> /\ pipe' = <<>>
    /\ disk' = disk \ {scratchDir} /\ scratchDir' = 0
    /\ UNCHANGED <<kin, stuck, rmFaults>>
\* the group is gone; rmtree may raise after the process was forgotten
Verified ==
    /\ live' = live \ {held} /\ zombie' = zombie \ {held} /\ kin' = kin \ {held}
    /\ held' = 0 /\ doing' = "none" /\ stdin' = <<>> /\ pipe' = <<>>
    /\ \/ disk' = disk \ {scratchDir} /\ scratchDir' = 0 /\ UNCHANGED rmFaults
       \/ /\ rmFaults < MaxRmFaults /\ rmFaults' = rmFaults + 1
          /\ UNCHANGED <<disk, scratchDir>>
    /\ UNCHANGED stuck

\* what a read that was given up may have taken from the stream
Torn == {pipe} \cup (IF pipe = <<>> THEN {}
                     ELSE {Tail(pipe), <<[kind |-> "garbage", page |-> None]>>
                                       \o Tail(pipe)})

\* self.process after a kill that could not be verified
BugStillHeld == 0
StillHeld == held

\* The leader, a member or, where the pid has been a stranger survives
\* the kill: WorkerTerminationError, and the process
\* is not forgotten.
Unverified ==
    /\ stuck < MaxStuck /\ stuck' = stuck + 1
    /\ \/ held \in live /\ UNCHANGED live
       \/ held \in kin /\ live' = live \ {held}
    /\ held' = StillHeld
    /\ doing' = "dying" /\ zombie' = zombie \ {held} /\ pipe' \in Torn
    /\ UNCHANGED <<scratchDir, disk, kin, stdin, rmFaults>>

Terminate == Verified \/ Unverified

(***************************************************************************)
(* request().                                                              *)
(***************************************************************************)
Start(p) ==
    /\ spawned < MaxProcs
    /\ cur' = p /\ scratchDir' = spawned + 1 /\ disk' = disk \cup {spawned + 1}
    /\ spawned' = spawned + 1 /\ held' = spawned + 1
    /\ live' = live \cup {spawned + 1} /\ doing' = "loading"
    /\ parent' = "starting"

RequestSpawn(p) ==
    /\ parent = "idle" /\ held = 0 /\ Start(p)
    /\ UNCHANGED <<again, zombie, kin, stdin, pipe, accepted, bounds>>

\* Popen raises: terminate() removes the directory that was just made
SpawnFails ==
    /\ parent = "idle" /\ held = 0 /\ spawned < MaxProcs
    /\ spawned' = spawned + 1
    /\ \/ scratchDir' = 0 /\ UNCHANGED <<disk, rmFaults>>
       \/ /\ rmFaults < MaxRmFaults /\ rmFaults' = rmFaults + 1
          /\ disk' = disk \cup {spawned'} /\ scratchDir' = spawned'
    /\ UNCHANGED <<parent, cur, again, held, live, zombie, kin, channel, accepted, interrupts, stuck>>

\* poll() finds the process alive: it is asked again
RequestReuse(p) ==
    /\ parent = "idle" /\ held \in live
    /\ cur' = p /\ stdin' = Append(stdin, p) /\ parent' = "waiting"
    /\ UNCHANGED <<again, held, scratchDir, system, doing, pipe, accepted, bounds>>

\* poll() finds, and reaps, a process that has exited
RequestRespawn(p) ==
    /\ parent = "idle" /\ held # 0 /\ held \notin live /\ spawned < MaxProcs
    /\ zombie' = zombie \ {held} /\ parent' = "reaped" /\ again' = TRUE /\ cur' = p
    /\ UNCHANGED <<held, scratchDir, disk, spawned, live, kin, channel, accepted, bounds>>

ReadReady ==
    /\ parent = "starting" /\ pipe # <<>> /\ Head(pipe).kind = "ready"
    /\ pipe' = Tail(pipe) /\ stdin' = Append(stdin, cur) /\ parent' = "waiting"
    /\ UNCHANGED <<cur, again, held, scratchDir, system, doing, accepted, bounds>>

BugMatches(p, q) == TRUE
\* validate_worker_response: the reply names the input that was submitted
Matches(p, q) == p = q

ReadReply ==
    /\ parent = "waiting" /\ pipe # <<>> /\ Head(pipe).kind = "completed"
    /\ pipe' = Tail(pipe) /\ parent' = "idle" /\ cur' = None
    /\ accepted' = IF Matches(cur, Head(pipe).page)
                   THEN accepted \cup {<<cur, Head(pipe).page>>} ELSE accepted
    /\ UNCHANGED <<again, held, scratchDir, system, doing, stdin, bounds>>

\* the client sees the exit of the child, and reaps it
SeeExit ==
    /\ parent \in {"starting", "waiting"} /\ held \notin live
    /\ zombie' = zombie \ {held} /\ parent' = "reaped" /\ again' = FALSE
    /\ UNCHANGED <<cur, held, scratchDir, disk, spawned, live, kin, channel, accepted, bounds>>

AfterExit ==
    /\ parent = "reaped" /\ Terminate
    /\ parent' = IF again /\ held' = 0 /\ scratchDir' = 0
                 THEN "respawn" ELSE "idle"
    /\ cur' = IF parent' = "idle" THEN None ELSE cur
    /\ UNCHANGED <<again, spawned, accepted, interrupts>>

Respawn ==
    /\ parent = "respawn" /\ Start(cur)
    /\ UNCHANGED <<again, zombie, kin, stdin, pipe, accepted, bounds>>

BugWatched == {"starting"}
Watched == {"starting", "waiting"}

\* the deadline, the scratch quota, a frame that is no answer
GiveUp ==
    /\ parent \in Watched /\ Terminate
    /\ parent' = "idle" /\ cur' = None
    /\ UNCHANGED <<again, spawned, accepted, interrupts>>

\* KeyboardInterrupt is no Exception: no handler terminates the worker
Interrupt ==
    /\ parent \in {"starting", "waiting"} /\ interrupts < MaxInterrupts
    /\ interrupts' = interrupts + 1 /\ parent' = "idle" /\ cur' = None
    /\ pipe' \in Torn
    /\ UNCHANGED <<again, held, scratchDir, system, doing, stdin, accepted, stuck,
                   rmFaults>>

Close ==
    /\ parent = "idle"
    /\ IF held = 0
       THEN UNCHANGED <<held, scratchDir, disk, live, zombie, kin, channel,
                        stuck, rmFaults>>
       ELSE Terminate
    /\ parent' = "closed"
    /\ UNCHANGED <<cur, again, spawned, accepted, interrupts>>

(***************************************************************************)
(* The child, and the operating system.                                    *)
(***************************************************************************)
Alone == UNCHANGED <<client, accepted, bounds>>
Put(k, p) == pipe' = Append(pipe, [kind |-> k, page |-> p])

Load ==
    /\ held \in live /\ doing = "loading"
    /\ \/ Put("ready", None) /\ doing' = "idle" /\ UNCHANGED <<live, zombie>>
       \/ /\ Put("failed", None) /\ doing' = "dying"
          /\ live' = live \ {held} /\ zombie' = zombie \cup {held}
    /\ Alone /\ UNCHANGED <<disk, spawned, kin, stdin>>

Take ==
    /\ held \in live /\ doing = "idle" /\ stdin # <<>>
    /\ doing' = Head(stdin) /\ stdin' = Tail(stdin)
    /\ Alone /\ UNCHANGED <<system, pipe>>

Reply ==
    /\ held \in live /\ doing \in Page
    /\ Put("completed", doing) \/ Put("failed", None)
    /\ doing' = "idle" /\ Alone /\ UNCHANGED <<system, stdin>>

Fork ==
    /\ held \in live /\ doing \in Page /\ held \notin kin
    /\ kin' = kin \cup {held}
    /\ Alone /\ UNCHANGED <<disk, spawned, live, zombie, channel>>

Exit ==
    /\ \/ /\ held \in live
          /\ live' = live \ {held} /\ zombie' = zombie \cup {held}
          /\ doing' = "dying" /\ UNCHANGED kin
       \/ held \in kin /\ kin' = kin \ {held} /\ UNCHANGED <<live, zombie, doing>>
    /\ Alone /\ UNCHANGED <<disk, spawned, stdin, pipe>>

Child   == Load \/ Take \/ Reply \/ Fork \/ Exit
Request == \E p \in Page : RequestSpawn(p) \/ RequestReuse(p) \/ RequestRespawn(p)
Wait    == ReadReady \/ ReadReply \/ SeeExit \/ AfterExit \/ Respawn \/ GiveUp
WorkerNext == Request \/ SpawnFails \/ Wait \/ Interrupt \/ Close \/ Child
WorkerSpec == WorkerInit /\ [][WorkerNext]_workerVars
\* the client runs, and its deadline comes; nothing is assumed of the child
LiveSpec == WorkerSpec /\ WF_workerVars(Wait)

(***************************************************************************)
(* Properties.                                                             *)
(***************************************************************************)
WorkerTypeOK ==
    /\ parent \in {"idle", "starting", "waiting", "reaped", "respawn", "closed"}
    /\ cur \in Page \cup {None} /\ again \in BOOLEAN
    /\ held \in Proc \cup {0} /\ scratchDir \in Proc \cup {0}
    /\ disk \subseteq Proc /\ spawned \in Proc \cup {0}
    /\ live \subseteq Proc /\ zombie \subseteq Proc /\ kin \subseteq Proc
    /\ doing \in Page \cup {"none", "loading", "idle", "dying"}
    /\ stdin \in Seq(Page) /\ pipe \in Seq(Frame)
    /\ accepted \subseteq Page \X Page
    /\ interrupts \in 0..MaxInterrupts /\ stuck \in 0..MaxStuck
    /\ rmFaults \in 0..MaxRmFaults

\* No process of a worker outlives the client's knowledge of it: whatever
\* still runs belongs to the one process the client holds
\* (process_worker.py:84-86).
NoOrphan == \A n \in Proc : Exists(n) => n = held

\* A page is given only a result that was computed for it, even when a late
\* reply of an earlier request is still in the pipe
\* (paddleocr_vl_backend.py:379-380).
AcceptedIsOwn == \A a \in accepted : a[1] = a[2]

\* A scratch directory is removed only when no process can still write to it
\* (process_worker.py:84-86).
ScratchAfterDeath == [][\A n \in disk \ disk' : n \notin live' \cup kin']_workerVars

\* A request ends by its deadline whatever the child does, or does not do.
RequestEnds == cur # None ~> cur = None
=============================================================================
