---------------------------- MODULE HostScheduler ----------------------------
(***************************************************************************)
(* How the fetches of all jobs reach the network: HttpFetcher.fetch asks   *)
(* the job's RobotsCache, then queues for four nested resources (the job's *)
(* slots of the host, the host's slots, the global slots, the host's lock),*)
(* sleeps until the host may be asked again, and sends its request.  A     *)
(* robots.txt load is itself such a request, made while the robots lock of *)
(* the origin is held.                                                     *)
(*                                                                         *)
(* Time is kept as what is left of each wait and what has passed since     *)
(* each host's last request, up to MaxAge, which no interval exceeds.      *)
(***************************************************************************)
EXTENDS Integers, FiniteSets, Sequences, SequencesExt, FiniteSetsExt

CONSTANTS
    Task, Job, Origin, Host,
    JobOf, HostOf,     \* the job of a task, the host of an origin
    First,             \* the origin of a task's URL
    Obeys,             \* jobs with robots_mode = "obey"
    PerHost,           \* per_host_concurrency of each job
    HostCap,           \* Semaphore(4) of a host
    GlobalCap,         \* Semaphore(maximum) of the scheduler
    Interval,          \* host_interval of each job
    Delays,            \* crawl delays a robots.txt may state
    TTL,               \* life of a rules entry
    MaxAge,            \* bound: how far back a host's clock is told apart
    MaxFollows         \* bound: redirects and retries of one task

Nat1 == Nat \ {0}

ASSUME SchedulerAssumption ==
    /\ IsFiniteSet(Task)
    /\ JobOf \in [Task -> Job] /\ HostOf \in [Origin -> Host]
    /\ First \in [Task -> Origin] /\ Obeys \subseteq Job
    /\ PerHost \in [Job -> Nat1] /\ {HostCap, GlobalCap, TTL} \subseteq Nat1
    /\ Interval \in [Job -> 0..MaxAge] /\ Delays \subseteq 0..MaxAge
    /\ {MaxAge, MaxFollows} \subseteq Nat

Resource ==
    {<<"robots", j, o>> : j \in Job, o \in Origin}
    \cup {<<"job", j, h>> : j \in Job, h \in Host}
    \cup {<<"host", h>> : h \in Host} \cup {<<"lock", h>> : h \in Host}
    \cup {<<"global">>}

Capacity(r) ==
    CASE r[1] = "job" -> PerHost[r[2]] [] r[1] = "host" -> HostCap
      [] r[1] = "global" -> GlobalCap [] OTHER -> 1

Ages == 0..MaxAge
NoRules == [allow |-> FALSE, delay |-> -1]
Rules == [allow : BOOLEAN, delay : Delays \cup {0}]

VARIABLES
    at,           \* where each task stands
    target,       \* origin of the request it makes
    key,          \* origin whose robots.txt it loads
    loading,      \* tasks that load a robots.txt, and hold its lock
    stage,        \* how many of the four resources it holds
    delay,        \* the crawl delay authorize returned
    wait,         \* what is left of its sleep
    follows,      \* redirects and retries so far
    queue,        \* FIFO of each semaphore and lock
    rules, ttl,   \* RobotsCache.entries, and what is left of their life
    age, gap      \* per host: since last_request, next_request - last_request

exchange == <<target, key, loading, delay, follows>>
cache    == <<rules, ttl>>
pacing   == <<age, gap>>
vars     == <<at, exchange, stage, wait, queue, cache, pacing>>

HostAt(t) == HostOf[target[t]]
BugPath(j, h) == <<<<"job", j, h>>, <<"global">>, <<"host", h>>, <<"lock", h>>>>
\* the order in which _attempt and slot nest what they acquire
Path(j, h) == <<<<"job", j, h>>, <<"host", h>>, <<"global">>, <<"lock", h>>>>
PathOf(t) == Path(JobOf[t], HostAt(t))

Robots(t) == <<"robots", JobOf[t], key[t]>>
Holds(t) == {PathOf(t)[i] : i \in 1..stage[t]}
            \cup (IF t \in loading THEN {Robots(t)} ELSE {})
Holders(r) == {t \in Task : r \in Holds(t)}

\* asyncio's semaphores and locks serve their waiters in order; one that is
\* free and awaited by nobody is taken at once
Available(t, r) == Cardinality(Holders(r) \ {t}) < Capacity(r)
Granted(t, r) == queue[r] # <<>> /\ Head(queue[r]) = t /\ Available(t, r)
Joined(q, t, r) == [q EXCEPT ![r] = Append(@, t)]
Served(q, r)    == [q EXCEPT ![r] = Tail(@)]

Spacing(t, d) == Max({Interval[JobOf[t]], d})
BugShortfall(t, h, d) == Max({0, Spacing(t, d) - age[h]})
Shortfall(t, h, d) == Max({0, gap[h] - age[h], Spacing(t, d) - age[h]})

\* t, with s resources of the path to host h and crawl delay d, goes on until
\* it must queue, or sleeps when it holds all four
Proceed(t, h, d, s, q) ==
    LET p == Path(JobOf[t], h)
        n == Max({m \in s..4 : \A i \in s + 1..m :
                     q[p[i]] = <<>> /\ Available(t, p[i])})
    IN  /\ stage' = [stage EXCEPT ![t] = n]
        /\ delay' = [delay EXCEPT ![t] = d]
        /\ IF n = 4
           THEN /\ at' = [at EXCEPT ![t] = "pace"] /\ queue' = q
                /\ wait' = [wait EXCEPT ![t] = Shortfall(t, h, d)]
           ELSE /\ at' = [at EXCEPT ![t] = "slots"]
                /\ queue' = Joined(q, t, p[n + 1]) /\ UNCHANGED wait

Init ==
    /\ at = [t \in Task |-> "idle"] /\ target = First /\ key = First
    /\ loading = {} /\ stage = [t \in Task |-> 0]
    /\ delay = [t \in Task |-> 0] /\ wait = [t \in Task |-> 0]
    /\ follows = [t \in Task |-> 0] /\ queue = [r \in Resource |-> <<>>]
    /\ rules = [k \in Job \X Origin |-> NoRules]
    /\ ttl = [k \in Job \X Origin |-> 0]
    /\ age = [h \in Host |-> MaxAge] /\ gap = [h \in Host |-> 0]

(***************************************************************************)
(* The next request of t, to origin o: authorized first, unless it is part *)
(* of a robots.txt load.                                                   *)
(***************************************************************************)
BugAuthorizes(t) == JobOf[t] \in Obeys
Authorizes(t) == JobOf[t] \in Obeys /\ t \notin loading

Approach(t, o) ==
    /\ target' = [target EXCEPT ![t] = o]
    /\ IF Authorizes(t)
       THEN /\ at' = [at EXCEPT ![t] = "robots"]
            /\ stage' = [stage EXCEPT ![t] = 0]
            /\ key' = [key EXCEPT ![t] = o]
            /\ queue' = Joined(queue, t, <<"robots", JobOf[t], o>>)
            /\ UNCHANGED <<delay, wait>>
       ELSE Proceed(t, HostOf[o], 0, 0, queue) /\ UNCHANGED key

Begin(t) ==
    /\ at[t] = "idle" /\ Approach(t, First[t])
    /\ UNCHANGED <<loading, follows, cache, pacing>>

\* the rest of authorize, with rules r for the origin and queues q
Apply(t, r, q) ==
    IF r.allow THEN Proceed(t, HostOf[key[t]], r.delay, 0, q)
    ELSE /\ at' = [at EXCEPT ![t] = "done"] /\ queue' = q
         /\ stage' = [stage EXCEPT ![t] = 0] /\ UNCHANGED <<delay, wait>>

Fresh(k) == rules[k] # NoRules /\ ttl[k] > 0

EnterRobots(t) ==
    LET k == <<JobOf[t], key[t]>>
        q == Served(queue, Robots(t))
    IN
    /\ at[t] = "robots" /\ Granted(t, Robots(t))
    /\ IF Fresh(k) THEN Apply(t, rules[k], q) /\ UNCHANGED <<loading, ttl>>
       ELSE /\ loading' = loading \cup {t} /\ ttl' = [ttl EXCEPT ![k] = TTL]
            /\ Proceed(t, HostAt(t), 0, 0, q)
    /\ UNCHANGED <<target, key, follows, rules, pacing>>

(***************************************************************************)
(* _attempt and Scheduler.slot.                                            *)
(***************************************************************************)
TakeSlot(t) ==
    LET r == PathOf(t)[stage[t] + 1] IN
    /\ at[t] = "slots" /\ Granted(t, r)
    /\ Proceed(t, HostAt(t), delay[t], stage[t] + 1, Served(queue, r))
    /\ UNCHANGED <<target, key, loading, follows, cache, pacing>>

\* the sleep is over: the host's clock restarts and its lock is released
Wake(t) ==
    /\ at[t] = "pace" /\ wait[t] = 0
    /\ at' = [at EXCEPT ![t] = "request"]
    /\ stage' = [stage EXCEPT ![t] = 3]
    /\ age' = [age EXCEPT ![HostAt(t)] = 0]
    /\ gap' = [gap EXCEPT ![HostAt(t)] = Spacing(t, delay[t])]
    /\ UNCHANGED <<exchange, wait, queue, cache>>

\* a redirect, or a retry of the request
Follow(t) ==
    /\ at[t] = "request" /\ follows[t] < MaxFollows
    /\ follows' = [follows EXCEPT ![t] = @ + 1]
    /\ \E o \in Origin : Approach(t, o)
    /\ UNCHANGED <<loading, cache, pacing>>

\* the robots.txt is there, or its failure stands for one
Loaded(t) ==
    /\ at[t] = "request" /\ t \in loading
    /\ loading' = loading \ {t}
    /\ target' = [target EXCEPT ![t] = key[t]]
    /\ \E r \in Rules :
         /\ rules' = [rules EXCEPT ![<<JobOf[t], key[t]>>] = r]
         /\ Apply(t, r, queue)
    /\ UNCHANGED <<key, follows, ttl, pacing>>

\* what an exception, a cancellation or the last answer leaves: nothing held
Over(t) ==
    /\ at' = [at EXCEPT ![t] = "done"] /\ stage' = [stage EXCEPT ![t] = 0]
    /\ loading' = loading \ {t} /\ target' = [target EXCEPT ![t] = First[t]]
    /\ wait' = [wait EXCEPT ![t] = 0]
    /\ queue' = [r \in Resource |-> SelectSeq(queue[r], LAMBDA u : u # t)]
    /\ ttl' = [k \in Job \X Origin |->
                 IF t \in loading /\ k = <<JobOf[t], key[t]>> THEN 0 ELSE ttl[k]]
    /\ UNCHANGED <<key, delay, follows, rules, pacing>>

Finish(t) == at[t] = "request" /\ Over(t)
Cancel(t) == at[t] \in {"robots", "slots", "pace"} /\ Over(t)

Tick ==
    /\ wait' = [t \in Task |-> Max({0, wait[t] - 1})]
    /\ ttl' = [k \in Job \X Origin |-> Max({0, ttl[k] - 1})]
    /\ age' = [h \in Host |-> IF age[h] + 1 \in Ages THEN age[h] + 1 ELSE age[h]]
    /\ UNCHANGED <<at, exchange, stage, queue, rules, gap>>

Run(t) == EnterRobots(t) \/ TakeSlot(t) \/ Wake(t)
Answer(t) == Follow(t) \/ Loaded(t) \/ Finish(t)
Next == \/ \E t \in Task : Begin(t) \/ Run(t) \/ Answer(t) \/ Cancel(t)
        \/ Tick
Spec == Init /\ [][Next]_vars

\* Ready coroutines run, time passes, request_timeout bounds every request.
LiveSpec ==
    /\ Spec /\ WF_vars(Tick)
    /\ \A t \in Task : WF_vars(Run(t)) /\ WF_vars(Answer(t))

(***************************************************************************)
(* Properties.                                                             *)
(***************************************************************************)
TypeOK ==
    /\ at \in [Task -> {"idle", "robots", "slots", "pace", "request", "done"}]
    /\ target \in [Task -> Origin] /\ key \in [Task -> Origin]
    /\ loading \subseteq Task /\ stage \in [Task -> 0..4]
    /\ delay \in [Task -> Delays \cup {0}] /\ wait \in [Task -> Ages]
    /\ follows \in [Task -> 0..MaxFollows]
    /\ queue \in [Resource -> Seq(Task)]
    /\ rules \in [Job \X Origin -> Rules \cup {NoRules}]
    /\ ttl \in [Job \X Origin -> 0..TTL]
    /\ age \in [Host -> Ages] /\ gap \in [Host -> Ages]

\* Whatever its pacing, one host never takes more of the global slots than
\* its own share: the rest stays usable for the others (scheduler.py:52-53).
HostShare ==
    \A h \in Host :
        Cardinality({t \in Holders(<<"global">>) : HostAt(t) = h}) <= HostCap

\* Two requests to a host, of one job or of several, are at least as far
\* apart as each of the two jobs and the robots delay of each ask, although
\* the sleep was computed before it (scheduler.py:55-65).
HostSpacing ==
    [][\A t \in Task : at[t] = "pace" /\ at'[t] = "request" =>
          age[HostAt(t)] >= Max({gap[HostAt(t)],
                                     Spacing(t, delay[t])})]_vars

\* No cycle of robots locks, slots and host locks: every task that starts
\* comes to its end.
EveryTaskEnds == \A t \in Task : at[t] # "idle" ~> at[t] = "done"
=============================================================================
