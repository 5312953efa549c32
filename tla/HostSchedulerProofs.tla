------------------------- MODULE HostSchedulerProofs -------------------------
(***************************************************************************)
(* Slots, locks and pacing, for any number of tasks, jobs and hosts: no    *)
(* semaphore is overdrawn, no host takes more than its share, and requests *)
(* to one host keep their distance.                                        *)
(***************************************************************************)
EXTENDS HostScheduler, FiniteSetTheorems, TLAPS

\* The types the argument needs; the queues are not among them.
Types ==
    /\ at \in [Task -> {"idle", "robots", "slots", "pace", "request", "done"}]
    /\ target \in [Task -> Origin] /\ key \in [Task -> Origin]
    /\ loading \subseteq Task /\ stage \in [Task -> 0..4]
    /\ delay \in [Task -> Delays \cup {0}] /\ wait \in [Task -> Ages]
    /\ rules \in [Job \X Origin -> Rules \cup {NoRules}]
    /\ age \in [Host -> Ages] /\ gap \in [Host -> Ages]

\* What each place of a task says of what it holds.
Positions == \A t \in Task :
    /\ at[t] \in {"idle", "robots", "done"} => stage[t] = 0 /\ t \notin loading
    /\ at[t] = "robots" => key[t] = target[t]
    /\ at[t] = "slots" => stage[t] \in 0..3
    /\ at[t] = "pace" <=> stage[t] = 4

\* No semaphore or lock has more holders than places.
Bounded == \A r \in Resource : Cardinality(Holders(r)) <= Capacity(r)

\* A task that sleeps sleeps long enough: what has passed since the last
\* request to its host and what is left of its sleep reach both intervals.
Paced == \A t \in Task : at[t] = "pace" =>
    /\ wait[t] + age[HostAt(t)] >= gap[HostAt(t)]
    /\ wait[t] + age[HostAt(t)] >= Spacing(t, delay[t])

SchedulerInv == Types /\ Positions /\ Bounded /\ Paced

-----------------------------------------------------------------------------
(* Maxima of small sets, and the capacities.                               *)
LEMMA MaxPair ==
    ASSUME NEW a \in Int, NEW b \in Int
    PROVE  Max({a, b}) \in {a, b} /\ Max({a, b}) >= a /\ Max({a, b}) >= b
<1>1. \E x \in {a, b} : \A y \in {a, b} : x >= y
  <2>1. CASE a >= b
    BY <2>1
  <2>2. CASE ~ (a >= b)
    BY <2>2
  <2>3. QED BY <2>1, <2>2
<1>2. QED BY <1>1 DEF Max

LEMMA MaxTriple ==
    ASSUME NEW b \in Int, NEW c \in Int
    PROVE  /\ Max({0, b, c}) \in {0, b, c}
           /\ Max({0, b, c}) >= 0 /\ Max({0, b, c}) >= b /\ Max({0, b, c}) >= c
<1>1. \E x \in {0, b, c} : \A y \in {0, b, c} : x >= y
  <2>1. CASE 0 >= b /\ 0 >= c
    BY <2>1
  <2>2. CASE b >= 0 /\ b >= c
    BY <2>2
  <2>3. CASE c >= 0 /\ c >= b
    BY <2>3
  <2>4. QED BY <2>1, <2>2, <2>3
<1>2. QED BY <1>1 DEF Max

LEMMA MaxStage ==
    ASSUME NEW S \in SUBSET (0..4), S # {}
    PROVE  Max(S) \in S
<1>1. \A m \in S : m \in {0, 1, 2, 3, 4}
  OBVIOUS
<1>2. \E x \in S : \A y \in S : x >= y
  <2>1. CASE 4 \in S
    BY <1>1, <2>1
  <2>2. CASE 4 \notin S /\ 3 \in S
    BY <1>1, <2>2
  <2>3. CASE {3, 4} \cap S = {} /\ 2 \in S
    BY <1>1, <2>3
  <2>4. CASE {2, 3, 4} \cap S = {} /\ 1 \in S
    BY <1>1, <2>4
  <2>5. CASE {1, 2, 3, 4} \cap S = {}
    <3>1. PICK x \in S : TRUE
      OBVIOUS
    <3>2. \A y \in S : y = 0
      BY <1>1, <2>5
    <3>3. QED BY <3>1, <3>2
  <2>6. QED BY <2>1, <2>2, <2>3, <2>4, <2>5
<1>3. QED BY <1>2 DEF Max

LEMMA SpacingType ==
    ASSUME NEW t \in Task, NEW d \in Delays \cup {0}
    PROVE  Spacing(t, d) \in Ages
<1>1. Interval[JobOf[t]] \in Ages /\ d \in Ages
  BY SchedulerAssumption DEF Ages
<1> DEFINE a == Interval[JobOf[t]]
<1>2. a \in Int /\ d \in Int
  BY <1>1 DEF Ages
<1>3. Max({a, d}) \in {a, d}
  <2> HIDE DEF a
  <2>1. QED BY <1>2, MaxPair
<1>4. QED BY <1>1, <1>3 DEF Spacing

LEMMA ShortfallType ==
    ASSUME Types, NEW t \in Task, NEW h \in Host, NEW d \in Delays \cup {0}
    PROVE  /\ Shortfall(t, h, d) \in Ages
           /\ Shortfall(t, h, d) + age[h] >= gap[h]
           /\ Shortfall(t, h, d) + age[h] >= Spacing(t, d)
<1>1. Spacing(t, d) \in Ages /\ age[h] \in Ages /\ gap[h] \in Ages /\ MaxAge \in Nat
  BY SpacingType, SchedulerAssumption DEF Types
<1> DEFINE x == gap[h] - age[h]
           y == Spacing(t, d) - age[h]
<1>2. x \in Int /\ y \in Int /\ x <= MaxAge /\ y <= MaxAge
  BY <1>1 DEF Ages
<1>3. Max({0, x, y}) \in {0, x, y} /\ Max({0, x, y}) >= 0 /\ Max({0, x, y}) >= x /\ Max({0, x, y}) >= y
  <2> HIDE DEF x, y
  <2>1. QED BY <1>2, MaxTriple
<1>4. QED BY <1>1, <1>2, <1>3 DEF Shortfall, Ages

LEMMA Capacities ==
    /\ \A r \in Resource : Capacity(r) \in Nat \ {0}
    /\ \A h \in Host : Capacity(<<"host", h>>) = HostCap /\ Capacity(<<"lock", h>>) = 1
BY SchedulerAssumption DEF Capacity, Resource, Nat1

LEMMA PathResources ==
    ASSUME NEW j \in Job, NEW h \in Host
    PROVE  /\ \A i \in 1..4 : Path(j, h)[i] \in Resource
           /\ Path(j, h)[2] = <<"host", h>> /\ Path(j, h)[3] = <<"global">>
           /\ Path(j, h)[4] = <<"lock", h>>
BY DEF Path, Resource

LEMMA HoldersFinite ==
    ASSUME NEW r
    PROVE  IsFiniteSet(Holders(r)) /\ Cardinality(Holders(r)) \in Nat
BY SchedulerAssumption, FS_Subset, FS_CardinalityType DEF Holders

\* The holder of the lock of a host is alone.
LEMMA LockAlone ==
    ASSUME Bounded, NEW h \in Host, NEW t \in Holders(<<"lock", h>>), NEW u \in Holders(<<"lock", h>>)
    PROVE  t = u
<1> DEFINE S == Holders(<<"lock", h>>)
<1>1. Cardinality(S) <= 1 /\ IsFiniteSet(S) /\ Cardinality(S) \in Nat
  <2>1. <<"lock", h>> \in Resource
    BY DEF Resource
  <2>2. Capacity(<<"lock", h>>) = 1
    BY Capacities
  <2>3. QED BY <2>1, <2>2, HoldersFinite DEF Bounded
<1>2. IsFiniteSet({u}) /\ Cardinality({u}) = 1
  BY FS_Singleton
<1>3. IsFiniteSet({u} \cup {t}) /\ Cardinality({u} \cup {t}) = IF t \in {u} THEN 1 ELSE 2
  BY <1>2, FS_AddElement
<1>4. Cardinality({u} \cup {t}) <= Cardinality(S)
  BY <1>1, FS_Subset
<1>5. QED BY <1>1, <1>3, <1>4

-----------------------------------------------------------------------------
(* A step of t that leaves what the others hold, and takes only what is    *)
(* available, overdraws nothing.                                           *)
Others(t) == \A u \in Task \ {t} :
    /\ at'[u] = at[u] /\ target'[u] = target[u] /\ key'[u] = key[u] /\ stage'[u] = stage[u]
    /\ u \in loading' <=> u \in loading

LEMMA OthersHold ==
    ASSUME NEW t \in Task, Others(t), NEW u \in Task \ {t}
    PROVE  Holds(u)' = Holds(u) /\ HostAt(u)' = HostAt(u)
<1>1. PathOf(u)' = PathOf(u) /\ Robots(u)' = Robots(u) /\ HostAt(u)' = HostAt(u)
  BY DEF Others, PathOf, HostAt, Robots
<1>2. QED BY <1>1 DEF Others, Holds

LEMMA ShareStep ==
    ASSUME Bounded, NEW t \in Task, Others(t),
           \A r \in Holds(t)' : r \in Holds(t) \/ Available(t, r)
    PROVE  Bounded'
<1> SUFFICES ASSUME NEW r \in Resource PROVE Cardinality(Holders(r)') <= Capacity(r)
  BY DEF Bounded, Capacity
<1>1. /\ IsFiniteSet(Holders(r)) /\ Cardinality(Holders(r)) \in Nat
      /\ IsFiniteSet(Holders(r) \ {t}) /\ Cardinality(Holders(r) \ {t}) \in Nat
  BY HoldersFinite, FS_RemoveElement, FS_CardinalityType
<1>2. Capacity(r) \in Nat /\ Cardinality(Holders(r)) <= Capacity(r)
  BY Capacities DEF Bounded
<1>3. \A u \in Task \ {t} : u \in Holders(r)' <=> u \in Holders(r)
  BY OthersHold DEF Holders
<1>4. Holders(r) \subseteq Task /\ Holders(r)' \subseteq Task
  BY DEF Holders
<1>5. CASE t \notin Holders(r)' \/ t \in Holders(r)
  <2>1. Holders(r)' \subseteq Holders(r)
    BY <1>3, <1>4, <1>5
  <2>2. Cardinality(Holders(r)') <= Cardinality(Holders(r)) /\ IsFiniteSet(Holders(r)')
    BY <1>1, <2>1, FS_Subset
  <2>3. Cardinality(Holders(r)') \in Nat
    BY <2>2, FS_CardinalityType
  <2>4. QED BY <1>1, <1>2, <2>2, <2>3
<1>6. CASE t \in Holders(r)' /\ t \notin Holders(r)
  <2>1. r \in Holds(t)' /\ r \notin Holds(t)
    BY <1>6 DEF Holders
  <2>2. Cardinality(Holders(r) \ {t}) < Capacity(r)
    BY <2>1 DEF Available
  <2>3. Holders(r)' = (Holders(r) \ {t}) \cup {t}
    BY <1>3, <1>4, <1>6
  <2>4. Cardinality((Holders(r) \ {t}) \cup {t}) = Cardinality(Holders(r) \ {t}) + 1
    BY <1>1, FS_AddElement
  <2>5. QED BY <1>1, <1>2, <2>2, <2>3, <2>4
<1>7. QED BY <1>5, <1>6

-----------------------------------------------------------------------------
(* How far Proceed gets.                                                   *)
LEMMA ProceedReaches ==
    ASSUME Types, NEW t \in Task, NEW h \in Host, NEW d, NEW s \in 0..4, NEW q, Proceed(t, h, d, s, q)
    PROVE  \E n \in s..4 :
             /\ stage' = [stage EXCEPT ![t] = n] /\ delay' = [delay EXCEPT ![t] = d]
             /\ \A i \in s + 1..n : Available(t, Path(JobOf[t], h)[i])
             /\ IF n = 4 THEN /\ at' = [at EXCEPT ![t] = "pace"]
                              /\ wait' = [wait EXCEPT ![t] = Shortfall(t, h, d)]
                ELSE at' = [at EXCEPT ![t] = "slots"] /\ UNCHANGED wait
<1> DEFINE p == Path(JobOf[t], h)
           S == {m \in s..4 : \A i \in s + 1..m : q[p[i]] = <<>> /\ Available(t, p[i])}
<1>1. S \in SUBSET (0..4) /\ s \in S
  OBVIOUS
<1>2. Max(S) \in S
  <2> HIDE DEF S
  <2>1. QED BY <1>1, MaxStage
<1>3. PICK n \in S : n = Max(S)
  BY <1>2
<1>4. /\ stage' = [stage EXCEPT ![t] = n] /\ delay' = [delay EXCEPT ![t] = d]
      /\ IF n = 4 THEN /\ at' = [at EXCEPT ![t] = "pace"]
                       /\ wait' = [wait EXCEPT ![t] = Shortfall(t, h, d)]
         ELSE at' = [at EXCEPT ![t] = "slots"] /\ UNCHANGED wait
  BY <1>3 DEF Proceed
<1>5. n \in s..4 /\ \A i \in s + 1..n : Available(t, p[i])
  BY <1>3
<1>6. QED BY <1>4, <1>5

\* A step of t that ends in Proceed, with s resources of the path to the
\* host of its target that it held or could take.
LEMMA ProceedHolds ==
    ASSUME SchedulerInv, NEW t \in Task, NEW h \in Host, NEW d \in Delays \cup {0}, NEW s \in 0..4, NEW q,
           Proceed(t, h, d, s, q), h = HostAt(t)', UNCHANGED pacing,
           \A u \in Task \ {t} : target'[u] = target[u] /\ key'[u] = key[u] /\ (u \in loading' <=> u \in loading),
           target' \in [Task -> Origin], key' \in [Task -> Origin], loading' \subseteq Task,
           rules' \in [Job \X Origin -> Rules \cup {NoRules}],
           \A i \in 1..s : LET r == Path(JobOf[t], h)[i] IN r \in Holds(t) \/ Available(t, r),
           t \in loading' => (t \in loading /\ key'[t] = key[t]) \/ Available(t, Robots(t)')
    PROVE  SchedulerInv'
<1>0. Types /\ Positions /\ Bounded /\ Paced
  BY DEF SchedulerInv
<1>1. PICK n \in s..4 :
        /\ stage' = [stage EXCEPT ![t] = n] /\ delay' = [delay EXCEPT ![t] = d]
        /\ \A i \in s + 1..n : Available(t, Path(JobOf[t], h)[i])
        /\ IF n = 4 THEN /\ at' = [at EXCEPT ![t] = "pace"]
                         /\ wait' = [wait EXCEPT ![t] = Shortfall(t, h, d)]
           ELSE at' = [at EXCEPT ![t] = "slots"] /\ UNCHANGED wait
  <2>1. Types /\ Proceed(t, h, d, s, q) /\ t \in Task /\ h \in Host /\ s \in 0..4
    BY <1>0
  <2>2. QED BY ONLY <2>1, ProceedReaches, SMTT(20)
<1>2. n \in 0..4 /\ s <= n
  OBVIOUS
<1>3. age' = age /\ gap' = gap
  BY DEF pacing
<1>4. Types'
  BY <1>0, <1>1, <1>2, <1>3, ShortfallType DEF Types
<1>5. Others(t)
  BY <1>0, <1>1 DEF Others, Types
<1>6. stage'[t] = n /\ delay'[t] = d /\ at'[t] = IF n = 4 THEN "pace" ELSE "slots"
  BY <1>0, <1>1 DEF Types
<1>7. Positions'
  BY <1>0, <1>2, <1>5, <1>6 DEF Positions, Others
<1>8. Bounded'
  <2>1. ASSUME NEW r \in Holds(t)' PROVE r \in Holds(t) \/ Available(t, r)
    <3>1. CASE t \in loading' /\ r = Robots(t)'
      BY <3>1 DEF Holds, Robots
    <3>2. CASE ~ (t \in loading' /\ r = Robots(t)')
      <4>1. PICK i \in 1..n : r = Path(JobOf[t], h)[i]
        BY <1>6, <2>1, <3>2 DEF Holds, PathOf
      <4>2. i \in 1..s \/ i \in s + 1..n
        BY <1>2
      <4>3. QED BY <1>1, <4>1, <4>2
    <3>3. QED BY <3>1, <3>2
  <2>2. QED BY <1>0, <1>5, <2>1, ShareStep
<1>9. Paced'
  <2>1. ASSUME NEW u \in Task \ {t}, at'[u] = "pace"
        PROVE  /\ wait'[u] + age'[HostAt(u)'] >= gap'[HostAt(u)']
               /\ wait'[u] + age'[HostAt(u)'] >= Spacing(u, delay'[u])
    <3>1. at[u] = "pace" /\ wait'[u] = wait[u] /\ delay'[u] = delay[u] /\ HostAt(u)' = HostAt(u)
      BY <1>0, <1>1, <1>5, <2>1, OthersHold DEF Types, Others
    <3>2. QED BY <1>0, <1>3, <3>1 DEF Paced
  <2>2. ASSUME at'[t] = "pace"
        PROVE  /\ wait'[t] + age'[HostAt(t)'] >= gap'[HostAt(t)']
               /\ wait'[t] + age'[HostAt(t)'] >= Spacing(t, delay'[t])
    <3>1. wait'[t] = Shortfall(t, h, d)
      BY <1>0, <1>1, <1>6, <2>2 DEF Types
    <3>2. QED BY <1>0, <1>3, <1>6, <3>1, ShortfallType
  <2>3. QED BY <2>1, <2>2 DEF Paced, Spacing
<1>10. QED BY <1>4, <1>7, <1>8, <1>9 DEF SchedulerInv

\* A step of t after which it holds nothing and does not sleep.
LEMMA RestHolds ==
    ASSUME SchedulerInv, NEW t \in Task, NEW place \in {"robots", "done"},
           at' = [at EXCEPT ![t] = place], stage' = [stage EXCEPT ![t] = 0],
           UNCHANGED <<delay, pacing>>, wait' \in [Task -> Ages], t \notin loading', loading' \subseteq Task,
           \A u \in Task \ {t} : /\ target'[u] = target[u] /\ key'[u] = key[u] /\ wait'[u] = wait[u]
                                 /\ u \in loading' <=> u \in loading,
           target' \in [Task -> Origin], key' \in [Task -> Origin],
           place = "robots" => key'[t] = target'[t],
           rules' \in [Job \X Origin -> Rules \cup {NoRules}]
    PROVE  SchedulerInv'
<1>0. Types /\ Positions /\ Bounded /\ Paced
  BY DEF SchedulerInv
<1>1. age' = age /\ gap' = gap /\ delay' = delay
  BY DEF pacing
<1>2. Types'
  BY <1>0, <1>1 DEF Types
<1>3. Others(t) /\ at'[t] = place /\ stage'[t] = 0
  BY <1>0 DEF Others, Types
<1>4. Positions'
  BY <1>0, <1>3 DEF Positions, Others
<1>5. Bounded'
  <2>1. Holds(t)' = {}
    BY <1>3 DEF Holds
  <2>2. QED BY <1>0, <1>3, <2>1, ShareStep
<1>6. Paced'
  <2>1. ASSUME NEW u \in Task, at'[u] = "pace" PROVE u # t /\ at[u] = "pace" /\ HostAt(u)' = HostAt(u)
    BY <1>3, <2>1, OthersHold DEF Others
  <2>2. QED BY <1>0, <1>1, <2>1 DEF Paced, Spacing
<1>7. QED BY <1>2, <1>4, <1>5, <1>6 DEF SchedulerInv

-----------------------------------------------------------------------------
(* The initial states, and one lemma per action.                           *)
LEMMA InitScheduler == Init => SchedulerInv
<1> SUFFICES ASSUME Init PROVE SchedulerInv
  OBVIOUS
<1>1. Types
  BY SchedulerAssumption DEF Init, Types, Ages
<1>2. Positions
  BY DEF Init, Positions
<1>3. Bounded
  <2>1. \A t \in Task : Holds(t) = {}
    BY DEF Init, Holds
  <2>2. \A r \in Resource : Holders(r) = {}
    BY <2>1 DEF Holders
  <2>3. QED BY <2>2, Capacities, FS_EmptySet DEF Bounded
<1>4. Paced
  BY DEF Init, Paced
<1>5. QED BY <1>1, <1>2, <1>3, <1>4 DEF SchedulerInv

LEMMA ApproachHolds ==
    ASSUME SchedulerInv, NEW t \in Task, NEW o \in Origin, Approach(t, o),
           UNCHANGED <<loading, rules, pacing>>
    PROVE  SchedulerInv'
<1>0. Types /\ loading' = loading /\ rules' = rules /\ target' = [target EXCEPT ![t] = o]
  BY DEF SchedulerInv, Approach
<1>1. /\ target' \in [Task -> Origin] /\ target'[t] = o
      /\ loading' \subseteq Task /\ rules' \in [Job \X Origin -> Rules \cup {NoRules}]
      /\ \A u \in Task \ {t} : target'[u] = target[u] /\ (u \in loading' <=> u \in loading)
  BY <1>0 DEF Types
<1>2. CASE Authorizes(t)
  <2>1. /\ at' = [at EXCEPT ![t] = "robots"] /\ stage' = [stage EXCEPT ![t] = 0]
        /\ key' = [key EXCEPT ![t] = o] /\ delay' = delay /\ wait' = wait /\ t \notin loading'
    BY <1>0, <1>2 DEF Approach, Authorizes
  <2>2. /\ wait' \in [Task -> Ages] /\ key' \in [Task -> Origin] /\ key'[t] = target'[t]
        /\ \A u \in Task \ {t} : key'[u] = key[u] /\ wait'[u] = wait[u]
    BY <1>0, <1>1, <2>1 DEF Types
  <2>3. QED BY <1>1, <2>1, <2>2, RestHolds
<1>3. CASE ~ Authorizes(t)
  <2>1. Proceed(t, HostOf[o], 0, 0, queue) /\ key' = key
    BY <1>3 DEF Approach
  <2>2. /\ HostOf[o] \in Host /\ HostOf[o] = HostAt(t)' /\ 0 \in Delays \cup {0} /\ 0 \in 0..4
        /\ key' \in [Task -> Origin] /\ \A u \in Task \ {t} : key'[u] = key[u]
        /\ t \in loading' => t \in loading /\ key'[t] = key[t]
        /\ UNCHANGED pacing
    BY <1>0, <1>1, <2>1, SchedulerAssumption DEF Types, HostAt
  <2>3. \A i \in 1..0 : LET r == Path(JobOf[t], HostOf[o])[i] IN r \in Holds(t) \/ Available(t, r)
    OBVIOUS
  <2>4. SchedulerInv
    OBVIOUS
  <2>5. QED BY ONLY <1>1, <2>1, <2>2, <2>3, <2>4, ProceedHolds, t \in Task
<1>4. QED BY <1>2, <1>3

LEMMA ApplyHolds ==
    ASSUME SchedulerInv, NEW t \in Task, NEW r \in Rules, NEW q, Apply(t, r, q),
           t \notin loading', loading' \subseteq loading \cup {t}, loading \subseteq loading' \cup {t},
           key' = key, target' = [target EXCEPT ![t] = key[t]],
           rules' \in [Job \X Origin -> Rules \cup {NoRules}], UNCHANGED pacing
    PROVE  SchedulerInv'
<1>0. Types
  BY DEF SchedulerInv
<1>1. /\ target' \in [Task -> Origin] /\ target'[t] = key[t] /\ key' \in [Task -> Origin]
      /\ loading' \subseteq Task
      /\ \A u \in Task \ {t} : /\ target'[u] = target[u] /\ key'[u] = key[u]
                               /\ u \in loading' <=> u \in loading
  BY <1>0 DEF Types
<1>2. CASE r.allow
  <2>1. Proceed(t, HostOf[key[t]], r.delay, 0, q) /\ SchedulerInv /\ UNCHANGED pacing /\ t \notin loading'
        /\ rules' \in [Job \X Origin -> Rules \cup {NoRules}]
    BY <1>2 DEF Apply
  <2>2. /\ HostOf[key[t]] \in Host /\ HostOf[key[t]] = HostAt(t)'
        /\ r.delay \in Delays \cup {0} /\ 0 \in 0..4
    BY <1>0, <1>1, SchedulerAssumption DEF Types, HostAt, Rules
  <2>3. \A i \in 1..0 : LET x == Path(JobOf[t], HostOf[key[t]])[i] IN x \in Holds(t) \/ Available(t, x)
    OBVIOUS
  <2>4. QED BY ONLY <1>1, <2>1, <2>2, <2>3, ProceedHolds, t \in Task
<1>3. CASE ~ r.allow
  <2>1. at' = [at EXCEPT ![t] = "done"] /\ stage' = [stage EXCEPT ![t] = 0] /\ delay' = delay /\ wait' = wait
    BY <1>3 DEF Apply
  <2>2. wait' \in [Task -> Ages] /\ \A u \in Task \ {t} : wait'[u] = wait[u]
    BY <1>0, <2>1 DEF Types
  <2>3. QED BY <1>1, <2>1, <2>2, RestHolds
<1>4. QED BY <1>2, <1>3

LEMMA EnterRobotsHolds ==
    ASSUME SchedulerInv, NEW t \in Task, EnterRobots(t)
    PROVE  SchedulerInv'
<1> DEFINE k == <<JobOf[t], key[t]>>
           q == Served(queue, Robots(t))
<1>0. Types /\ t \notin loading /\ key[t] = target[t] /\ k \in Job \X Origin
  BY SchedulerAssumption DEF SchedulerInv, Types, Positions, EnterRobots
<1>1. target' = target /\ key' = key /\ rules' = rules /\ UNCHANGED pacing
  BY DEF EnterRobots
<1>2. CASE Fresh(k)
  <2>1. Apply(t, rules[k], q) /\ loading' = loading
    BY <1>2 DEF EnterRobots
  <2>2. rules[k] \in Rules
    BY <1>0, <1>2 DEF Types, Fresh
  <2>3. /\ t \notin loading' /\ loading' \subseteq loading \cup {t} /\ loading \subseteq loading' \cup {t}
        /\ target' = [target EXCEPT ![t] = key[t]]
        /\ rules' \in [Job \X Origin -> Rules \cup {NoRules}]
    BY <1>0, <1>1, <2>1 DEF Types
  <2>4. SchedulerInv
    OBVIOUS
  <2>5. QED BY ONLY <1>1, <2>1, <2>2, <2>3, <2>4, ApplyHolds, t \in Task
<1>3. CASE ~ Fresh(k)
  <2>1. Proceed(t, HostAt(t), 0, 0, q) /\ loading' = loading \cup {t}
    BY <1>3 DEF EnterRobots
  <2>2. Available(t, Robots(t)) /\ Robots(t)' = Robots(t)
    BY <1>1 DEF EnterRobots, Granted, Robots
  <2>3. /\ HostAt(t) \in Host /\ HostAt(t) = HostAt(t)' /\ 0 \in Delays \cup {0} /\ 0 \in 0..4
        /\ target' \in [Task -> Origin] /\ key' \in [Task -> Origin] /\ loading' \subseteq Task
        /\ rules' \in [Job \X Origin -> Rules \cup {NoRules}]
        /\ \A u \in Task \ {t} : /\ target'[u] = target[u] /\ key'[u] = key[u]
                                 /\ u \in loading' <=> u \in loading
    BY <1>0, <1>1, <2>1, SchedulerAssumption DEF Types, HostAt
  <2>4. Available(t, Robots(t)')
    BY <2>2
  <2>5. \A i \in 1..0 : LET r == Path(JobOf[t], HostAt(t))[i] IN r \in Holds(t) \/ Available(t, r)
    OBVIOUS
  <2>6. SchedulerInv
    OBVIOUS
  <2>7. QED BY ONLY <1>1, <2>1, <2>3, <2>4, <2>5, <2>6, ProceedHolds, t \in Task
<1>4. QED BY <1>2, <1>3

LEMMA TakeSlotHolds ==
    ASSUME SchedulerInv, NEW t \in Task, TakeSlot(t)
    PROVE  SchedulerInv'
<1> DEFINE s == stage[t] + 1
           r == PathOf(t)[s]
           h == HostAt(t)
<1>0. Types /\ stage[t] \in 0..3
  BY DEF SchedulerInv, Positions, TakeSlot
<1>1. target' = target /\ key' = key /\ loading' = loading /\ rules' = rules /\ UNCHANGED pacing
  BY DEF TakeSlot, cache
<1>2. Proceed(t, h, delay[t], s, Served(queue, r)) /\ Available(t, r)
  BY DEF TakeSlot, Granted
<1>3. /\ h \in Host /\ h = HostAt(t)' /\ delay[t] \in Delays \cup {0}
      /\ target' \in [Task -> Origin] /\ key' \in [Task -> Origin] /\ loading' \subseteq Task
      /\ rules' \in [Job \X Origin -> Rules \cup {NoRules}]
      /\ \A u \in Task \ {t} : /\ target'[u] = target[u] /\ key'[u] = key[u]
                               /\ u \in loading' <=> u \in loading
      /\ t \in loading' => t \in loading /\ key'[t] = key[t]
  BY <1>0, <1>1, SchedulerAssumption DEF Types, HostAt
<1>4. s \in 0..4
  BY <1>0
<1>5. \A i \in 1..s : Path(JobOf[t], h)[i] \in Holds(t) \/ Available(t, Path(JobOf[t], h)[i])
  <2>1. ASSUME NEW i \in 1..s PROVE i \in 1..stage[t] \/ i = s
    BY <1>0
  <2>2. QED BY <1>2, <2>1 DEF Holds, PathOf
<1>6. SchedulerInv
  OBVIOUS
<1>7. QED BY ONLY <1>1, <1>2, <1>3, <1>4, <1>5, <1>6, ProceedHolds, t \in Task

LEMMA WakeHolds ==
    ASSUME SchedulerInv, NEW t \in Task, Wake(t)
    PROVE  SchedulerInv'
<1>0. Types /\ Positions /\ Bounded /\ Paced
  BY DEF SchedulerInv
<1>1. /\ at[t] = "pace" /\ at' = [at EXCEPT ![t] = "request"] /\ stage' = [stage EXCEPT ![t] = 3]
      /\ age' = [age EXCEPT ![HostAt(t)] = 0]
      /\ gap' = [gap EXCEPT ![HostAt(t)] = Spacing(t, delay[t])]
      /\ target' = target /\ key' = key /\ loading' = loading /\ delay' = delay
      /\ wait' = wait /\ rules' = rules
  BY DEF Wake, exchange, cache
<1>2. HostAt(t) \in Host /\ Spacing(t, delay[t]) \in Ages /\ 0 \in Ages
  <2>1. HostAt(t) \in Host /\ delay[t] \in Delays \cup {0} /\ MaxAge \in Nat
    BY <1>0, SchedulerAssumption DEF Types, HostAt
  <2>2. Spacing(t, delay[t]) \in Ages
    BY <2>1, SpacingType
  <2>3. QED BY <2>1, <2>2 DEF Ages
<1>3. Types'
  BY <1>0, <1>1, <1>2 DEF Types
<1>4. Others(t) /\ at'[t] = "request" /\ stage'[t] = 3 /\ stage[t] = 4
  BY <1>0, <1>1 DEF Others, Types, Positions
<1>5. Positions'
  BY <1>0, <1>1, <1>4 DEF Positions, Others
<1>6. Bounded'
  <2>1. PathOf(t)' = PathOf(t) /\ Robots(t)' = Robots(t)
    BY <1>1 DEF PathOf, HostAt, Robots
  <2>2. Holds(t)' \subseteq Holds(t)
    BY <1>1, <1>4, <2>1 DEF Holds
  <2>3. QED BY <1>0, <1>4, <2>2, ShareStep
<1>7. Paced'
  <2> SUFFICES ASSUME NEW u \in Task, at'[u] = "pace"
               PROVE  /\ wait'[u] + age'[HostAt(u)'] >= gap'[HostAt(u)']
                      /\ wait'[u] + age'[HostAt(u)'] >= Spacing(u, delay'[u])
    BY DEF Paced, Spacing
  <2>1. u # t /\ at[u] = "pace" /\ HostAt(u)' = HostAt(u) /\ HostAt(u) \in Host
    BY <1>0, <1>1, <1>4, SchedulerAssumption DEF Others, Types, HostAt
  <2>2. HostAt(u) # HostAt(t)
    <3>1. ASSUME NEW v \in Task, at[v] = "pace" PROVE v \in Holders(<<"lock", HostAt(v)>>)
      <4>1. stage[v] = 4 /\ 4 \in 1..4
        BY <1>0, <3>1 DEF Positions
      <4>2. PathOf(v)[4] = <<"lock", HostAt(v)>>
        BY DEF PathOf, Path
      <4>3. QED BY <4>1, <4>2 DEF Holders, Holds
    <3>2. QED BY <1>0, <1>1, <1>2, <2>1, <3>1, LockAlone
  <2>3. age'[HostAt(u)] = age[HostAt(u)] /\ gap'[HostAt(u)] = gap[HostAt(u)]
    BY <1>0, <1>1, <2>1, <2>2 DEF Types
  <2>4. QED BY <1>0, <1>1, <2>1, <2>3 DEF Paced
<1>8. QED BY <1>3, <1>5, <1>6, <1>7 DEF SchedulerInv

LEMMA FollowHolds ==
    ASSUME SchedulerInv, NEW t \in Task, Follow(t)
    PROVE  SchedulerInv'
<1>1. PICK o \in Origin : Approach(t, o)
  BY DEF Follow
<1>2. UNCHANGED <<loading, rules, pacing>>
  BY DEF Follow, cache
<1>3. QED BY <1>1, <1>2, ApproachHolds

LEMMA LoadedHolds ==
    ASSUME SchedulerInv, NEW t \in Task, Loaded(t)
    PROVE  SchedulerInv'
<1>1. PICK r \in Rules : /\ rules' = [rules EXCEPT ![<<JobOf[t], key[t]>>] = r]
                         /\ Apply(t, r, queue)
  BY DEF Loaded
<1>2. /\ loading' = loading \ {t} /\ target' = [target EXCEPT ![t] = key[t]]
      /\ key' = key /\ UNCHANGED pacing
  BY DEF Loaded
<1>3. Types
  BY DEF SchedulerInv
<1>4. /\ t \notin loading' /\ loading' \subseteq loading \cup {t} /\ loading \subseteq loading' \cup {t}
      /\ rules' \in [Job \X Origin -> Rules \cup {NoRules}] /\ SchedulerInv
  BY <1>1, <1>2, <1>3 DEF Types
<1>5. QED BY ONLY <1>1, <1>2, <1>4, ApplyHolds, t \in Task

LEMMA OverHolds ==
    ASSUME SchedulerInv, NEW t \in Task, Over(t)
    PROVE  SchedulerInv'
<1>0. Types /\ 0 \in Ages
  BY SchedulerAssumption DEF SchedulerInv, Ages
<1>1. /\ at' = [at EXCEPT ![t] = "done"] /\ stage' = [stage EXCEPT ![t] = 0]
      /\ loading' = loading \ {t} /\ target' = [target EXCEPT ![t] = First[t]]
      /\ wait' = [wait EXCEPT ![t] = 0] /\ key' = key /\ delay' = delay /\ rules' = rules
      /\ UNCHANGED pacing
  BY DEF Over
<1>2. /\ wait' \in [Task -> Ages] /\ t \notin loading' /\ loading' \subseteq Task
      /\ target' \in [Task -> Origin] /\ key' \in [Task -> Origin]
      /\ rules' \in [Job \X Origin -> Rules \cup {NoRules}]
      /\ \A u \in Task \ {t} : /\ target'[u] = target[u] /\ key'[u] = key[u] /\ wait'[u] = wait[u]
                               /\ u \in loading' <=> u \in loading
  BY <1>0, <1>1, SchedulerAssumption DEF Types
<1>3. QED BY <1>1, <1>2, RestHolds

LEMMA TickHolds ==
    ASSUME SchedulerInv, Tick
    PROVE  SchedulerInv'
<1>0. Types /\ Positions /\ Bounded /\ Paced /\ MaxAge \in Nat
  BY SchedulerAssumption DEF SchedulerInv
<1>1. /\ wait' = [t \in Task |-> Max({0, wait[t] - 1})]
      /\ age' = [h \in Host |-> IF age[h] + 1 \in Ages THEN age[h] + 1 ELSE age[h]]
      /\ at' = at /\ target' = target /\ key' = key /\ loading' = loading /\ delay' = delay
      /\ stage' = stage /\ rules' = rules /\ gap' = gap
  BY DEF Tick, exchange
<1>2. ASSUME NEW t \in Task
      PROVE  wait[t] \in Ages /\ wait'[t] \in Ages /\ wait'[t] >= wait[t] - 1
  <2>1. wait[t] \in 0..MaxAge
    BY <1>0 DEF Types, Ages
  <2> DEFINE w == wait[t] - 1
  <2>2. w \in Int /\ 0 \in Int /\ w <= MaxAge
    BY <1>0, <2>1
  <2>3. Max({0, w}) \in {0, w} /\ Max({0, w}) >= 0 /\ Max({0, w}) >= w
    <3> HIDE DEF w
    <3>1. QED BY <2>2, MaxPair
  <2>4. wait'[t] = Max({0, w})
    BY <1>1
  <2>5. QED BY <1>0, <2>1, <2>2, <2>3, <2>4 DEF Ages
<1>3. ASSUME NEW h \in Host
      PROVE  /\ age[h] \in Ages /\ age'[h] \in Ages /\ gap[h] \in Ages
             /\ age'[h] = age[h] + 1 \/ age'[h] = MaxAge
  <2>1. age[h] \in Ages /\ gap[h] \in Ages
    BY <1>0 DEF Types
  <2>2. age'[h] = IF age[h] + 1 \in Ages THEN age[h] + 1 ELSE age[h]
    BY <1>1
  <2>3. age[h] + 1 \notin Ages => age[h] = MaxAge
    BY <1>0, <2>1 DEF Ages
  <2>4. QED BY <2>1, <2>2, <2>3
<1>4. Types'
  <2>1. wait' \in [Task -> Ages]
    BY <1>1, <1>2
  <2>2. age' \in [Host -> Ages]
    BY <1>1, <1>3
  <2>3. QED BY <1>0, <1>1, <2>1, <2>2 DEF Types
<1>5. Positions'
  BY <1>0, <1>1 DEF Positions
<1>6. Bounded'
  <2>1. \A t \in Task : Holds(t)' = Holds(t)
    BY <1>1 DEF Holds, PathOf, HostAt, Robots
  <2>2. \A r : Holders(r)' = Holders(r)
    BY <2>1 DEF Holders
  <2>3. QED BY <1>0, <2>2 DEF Bounded, Capacity
<1>7. Paced'
  <2> SUFFICES ASSUME NEW t \in Task, at'[t] = "pace"
               PROVE  /\ wait'[t] + age'[HostAt(t)'] >= gap'[HostAt(t)']
                      /\ wait'[t] + age'[HostAt(t)'] >= Spacing(t, delay'[t])
    BY DEF Paced, Spacing
  <2>1. HostAt(t)' = HostAt(t) /\ HostAt(t) \in Host /\ delay[t] \in Delays \cup {0}
    BY <1>0, <1>1, SchedulerAssumption DEF HostAt, Types
  <2>2. Spacing(t, delay[t]) \in Ages
    BY <2>1, SpacingType
  <2> DEFINE h == HostAt(t)
             s == Spacing(t, delay[t])
  <2>3. wait[t] + age[h] >= gap[h] /\ wait[t] + age[h] >= s
    BY <1>0, <1>1 DEF Paced
  <2>4. /\ wait[t] \in Ages /\ wait'[t] \in Ages /\ wait'[t] >= wait[t] - 1
        /\ age[h] \in Ages /\ age'[h] \in Ages /\ gap[h] \in Ages
        /\ age'[h] = age[h] + 1 \/ age'[h] = MaxAge
    BY <1>2, <1>3, <2>1
  <2>5. wait'[t] + age'[h] >= gap[h] /\ wait'[t] + age'[h] >= s
    <3> HIDE DEF h, s
    <3>1. s \in Ages
      BY <2>2 DEF s
    <3>2. QED BY <1>0, <2>3, <2>4, <3>1 DEF Ages
  <2>6. QED BY <1>1, <2>1, <2>5
<1>8. QED BY <1>4, <1>5, <1>6, <1>7 DEF SchedulerInv

LEMMA StepScheduler == SchedulerInv /\ [Next]_vars => SchedulerInv'
<1> SUFFICES ASSUME SchedulerInv, [Next]_vars PROVE SchedulerInv'
  OBVIOUS
<1>1. ASSUME NEW t \in Task, Begin(t) PROVE SchedulerInv'
  <2>1. First[t] \in Origin /\ Approach(t, First[t]) /\ UNCHANGED <<loading, rules, pacing>>
    BY <1>1, SchedulerAssumption DEF Begin, cache
  <2>2. QED BY <2>1, ApproachHolds
<1>2. ASSUME NEW t \in Task, EnterRobots(t) PROVE SchedulerInv'
  BY <1>2, EnterRobotsHolds
<1>3. ASSUME NEW t \in Task, TakeSlot(t) PROVE SchedulerInv'
  BY <1>3, TakeSlotHolds
<1>4. ASSUME NEW t \in Task, Wake(t) PROVE SchedulerInv'
  BY <1>4, WakeHolds
<1>5. ASSUME NEW t \in Task, Follow(t) PROVE SchedulerInv'
  BY <1>5, FollowHolds
<1>6. ASSUME NEW t \in Task, Loaded(t) PROVE SchedulerInv'
  BY <1>6, LoadedHolds
<1>7. ASSUME NEW t \in Task, Finish(t) \/ Cancel(t) PROVE SchedulerInv'
  BY <1>7, OverHolds DEF Finish, Cancel
<1>8. CASE Tick
  BY <1>8, TickHolds
<1>9. CASE UNCHANGED vars
  <2>1. /\ at' = at /\ target' = target /\ key' = key /\ loading' = loading /\ delay' = delay
        /\ stage' = stage /\ rules' = rules /\ gap' = gap /\ age' = age /\ wait' = wait
    BY <1>9 DEF vars, exchange, cache, pacing
  <2>2. \A r : Holders(r)' = Holders(r)
    BY <2>1 DEF Holders, Holds, PathOf, HostAt, Robots
  <2>3. Types' /\ Positions'
    BY <2>1 DEF SchedulerInv, Types, Positions
  <2>4. Bounded'
    BY <2>2 DEF SchedulerInv, Bounded, Capacity
  <2>5. Paced'
    BY <2>1 DEF SchedulerInv, Paced, HostAt, Spacing
  <2>6. QED BY <2>3, <2>4, <2>5 DEF SchedulerInv
<1>10. QED BY <1>1, <1>2, <1>3, <1>4, <1>5, <1>6, <1>7, <1>8, <1>9 DEF Next, Run, Answer

THEOREM SchedulerIsInductive == Spec => []SchedulerInv
<1>1. QED BY InitScheduler, StepScheduler, PTL DEF Spec

-----------------------------------------------------------------------------
(* The theorems.                                                           *)

\* No semaphore and no lock of the scheduler, of a job or of the robots
\* cache ever has more holders than it has places (scheduler.py:52-66).
THEOREM SlotsBounded == Spec => []Bounded
<1>1. SchedulerInv => Bounded
  BY DEF SchedulerInv
<1>2. QED BY <1>1, SchedulerIsInductive, PTL

\* A task in a global slot for a host also holds one of the host's own.
LEMMA GlobalWithinHost ==
    ASSUME NEW h \in Host, NEW t \in Holders(<<"global">>), HostAt(t) = h, Types
    PROVE  t \in Holders(<<"host", h>>)
<1>1. t \in Task /\ <<"global">> \in Holds(t)
  BY DEF Holders
<1>2. <<"global">> # Robots(t)
  BY DEF Robots
<1>3. PICK i \in 1..stage[t] : PathOf(t)[i] = <<"global">>
  BY <1>1, <1>2 DEF Holds
<1>4. stage[t] \in 0..4
  BY <1>1 DEF Types
<1>5. PathOf(t)[1] # <<"global">> /\ PathOf(t)[2] = <<"host", h>>
  BY DEF PathOf, Path
<1>6. i # 1 /\ i >= 1 /\ i <= stage[t]
  BY <1>3, <1>4, <1>5
<1>7. 2 \in 1..stage[t]
  BY <1>4, <1>6
<1>8. QED BY <1>1, <1>5, <1>7 DEF Holds, Holders

\* One host never takes more of the global slots than its own share, for any
\* number of jobs, tasks and hosts (scheduler.py:52-53).
THEOREM HostShareHolds == Spec => []HostShare
<1>1. SchedulerInv => HostShare
  <2> SUFFICES ASSUME SchedulerInv, NEW h \in Host
               PROVE  Cardinality({t \in Holders(<<"global">>) : HostAt(t) = h}) <= HostCap
    BY DEF HostShare
  <2> DEFINE S == {t \in Holders(<<"global">>) : HostAt(t) = h}
             H == Holders(<<"host", h>>)
  <2>1. Types /\ Bounded
    BY DEF SchedulerInv
  <2>2. S \subseteq H
    BY <2>1, GlobalWithinHost
  <2>3. IsFiniteSet(H) /\ Cardinality(H) \in Nat
    BY HoldersFinite
  <2>4. Cardinality(S) <= Cardinality(H) /\ IsFiniteSet(S)
    BY <2>2, <2>3, FS_Subset
  <2>5. <<"host", h>> \in Resource
    BY DEF Resource
  <2>6. Capacity(<<"host", h>>) = HostCap
    BY Capacities
  <2>7. Cardinality(H) <= HostCap /\ HostCap \in Nat
    BY <2>1, <2>5, <2>6, SchedulerAssumption DEF Bounded, Nat1
  <2>8. Cardinality(S) \in Nat
    BY <2>4, FS_CardinalityType
  <2>9. QED BY <2>3, <2>4, <2>7, <2>8
<1>2. QED BY <1>1, SchedulerIsInductive, PTL

\* A step that sends a task's request is the end of its own sleep.
LEMMA SentOnWaking ==
    ASSUME Types, NEW t \in Task, at[t] = "pace", at'[t] = "request", Next
    PROVE  wait[t] = 0
<1>1. ASSUME NEW u \in Task, Begin(u) \/ Follow(u) PROVE FALSE
  BY <1>1 DEF Begin, Follow, Approach, Proceed, Types
<1>2. ASSUME NEW u \in Task, EnterRobots(u) PROVE FALSE
  BY <1>2 DEF EnterRobots, Apply, Proceed, Types
<1>3. ASSUME NEW u \in Task, TakeSlot(u) PROVE FALSE
  BY <1>3 DEF TakeSlot, Proceed, Types
<1>4. ASSUME NEW u \in Task, Loaded(u) PROVE FALSE
  BY <1>4 DEF Loaded, Apply, Proceed, Types
<1>5. ASSUME NEW u \in Task, Finish(u) \/ Cancel(u) PROVE FALSE
  BY <1>5 DEF Finish, Cancel, Over, Types
<1>6. ASSUME NEW u \in Task, Wake(u) PROVE wait[t] = 0
  BY <1>6 DEF Wake, Types
<1>7. CASE Tick
  BY <1>7 DEF Tick
<1>8. QED BY <1>1, <1>2, <1>3, <1>4, <1>5, <1>6, <1>7 DEF Next, Run, Answer

\* Two requests to a host keep the distance that both ask for, however their
\* tasks, jobs and crawl delays interleave (scheduler.py:55-65).
THEOREM SpacingHolds == Spec => HostSpacing
<1>1. SchedulerInv /\ [Next]_vars =>
        [\A t \in Task : at[t] = "pace" /\ at'[t] = "request" =>
            age[HostAt(t)] >= Max({gap[HostAt(t)], Spacing(t, delay[t])})]_vars
  <2> SUFFICES ASSUME SchedulerInv, Next, NEW t \in Task, at[t] = "pace", at'[t] = "request"
               PROVE  age[HostAt(t)] >= Max({gap[HostAt(t)], Spacing(t, delay[t])})
    OBVIOUS
  <2> DEFINE g == gap[HostAt(t)]
             s == Spacing(t, delay[t])
  <2>1. Types /\ Paced
    BY DEF SchedulerInv
  <2>2. wait[t] = 0
    BY <2>1, SentOnWaking
  <2>3. HostAt(t) \in Host /\ delay[t] \in Delays \cup {0}
    BY <2>1, SchedulerAssumption DEF Types, HostAt
  <2>4. s \in Ages /\ g \in Ages /\ age[HostAt(t)] \in Ages
    BY <2>1, <2>3, SpacingType DEF Types
  <2>5. wait[t] + age[HostAt(t)] >= g /\ wait[t] + age[HostAt(t)] >= s
    BY <2>1 DEF Paced
  <2>6. age[HostAt(t)] >= g /\ age[HostAt(t)] >= s /\ g \in Int /\ s \in Int
    BY <2>2, <2>4, <2>5 DEF Ages
  <2>7. Max({g, s}) \in {g, s}
    <3> HIDE DEF g, s
    <3>1. QED BY <2>6, MaxPair
  <2>8. QED BY <2>6, <2>7
<1>2. QED BY <1>1, SchedulerIsInductive, PTL DEF Spec, HostSpacing
==============================================================================
