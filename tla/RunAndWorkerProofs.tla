------------------------- MODULE RunAndWorkerProofs --------------------------
(***************************************************************************)
(* The two parts of an extraction that outlive a call.  The run            *)
(* directories, for any number of runs, stops and faults: only the holder  *)
(* of a directory's lock writes there, and what is found when the lock is  *)
(* free is one whole success or a failure without a document.  The model   *)
(* worker, for any number of processes, pages, interrupts and kills that   *)
(* fail: nothing runs that the client does not know, and what is accepted  *)
(* for a page was computed for it.                                         *)
(***************************************************************************)
EXTENDS RunOutput, ProcessWorker, SequenceTheorems, TLAPS

\* Where a run writes, or removes, it holds the lock of its directory; one
\* that is about to fail holds it or has no directory yet.
Working == ToSet(Writes) \cup Cleanup \cup {"work"}
LockedIn(r) ==
    /\ at[r] \in Working => Owns(r)
    /\ at[r] = "new" => dir[r] = Absent
    /\ at[r] = "preflight" => IF r \in Rooted THEN dir[r] = Absent ELSE Owns(r)
    /\ at[r] = "failing" => Owns(r) \/ dir[r] = Absent

\* What the holder has made of its directory so far.
By(r, kind) == [run |-> r, kind |-> kind]
Progress(r) ==
    LET f == files[dir[r]] IN
    /\ at[r] \in {"document.md", "metadata.json", "check", "metadata.json again"} =>
          f["json"] = By(r, "draft")
    /\ at[r] \in {"metadata.json", "check", "metadata.json again", "document.json again", "diagnostics"} =>
          f["md"] = By(r, "draft")
    /\ at[r] \in {"document.json again", "diagnostics"} => f["metadata"] = By(r, "final")
    /\ at[r] = "diagnostics" => f["json"] = By(r, "final")
    /\ at[r] \in {"unpublish md", "metadata failed"} => f["json"] = Absent
    /\ at[r] = "metadata failed" => f["md"] = Absent

OutputInv ==
    /\ TypeOK
    /\ \A r \in Run : LockedIn(r) /\ Progress(r)
    /\ WholeOrNothing

-----------------------------------------------------------------------------
LEMMA WritesFacts ==
    /\ DOMAIN Writes = 1..7 /\ Len(Writes) = 7
    /\ Writes[1] = "document.json" /\ Writes[2] = "document.md" /\ Writes[3] = "metadata.json"
    /\ Writes[4] = "check" /\ Writes[5] = "metadata.json again"
    /\ Writes[6] = "document.json again" /\ Writes[7] = "diagnostics"
BY DEF Writes

LEMMA WritesAre ==
    ToSet(Writes) = {"document.json", "document.md", "metadata.json", "check",
                     "metadata.json again", "document.json again", "diagnostics"}
<1>1. \A i \in 1..7 : i \in {1, 2, 3, 4, 5, 6, 7}
  OBVIOUS
<1>2. ToSet(Writes) = {Writes[i] : i \in 1..7}
  BY WritesFacts DEF ToSet
<1>3. ToSet(Writes) = {Writes[1], Writes[2], Writes[3], Writes[4], Writes[5], Writes[6], Writes[7]}
  BY <1>1, <1>2
<1>4. QED BY <1>3, WritesFacts

\* The order of the writes, as pairs of a place and the next one.
Successive(p, q) ==
    \/ p = "document.json" /\ q = "document.md"
    \/ p = "document.md" /\ q = "metadata.json"
    \/ p = "metadata.json" /\ q = "check"
    \/ p = "check" /\ q = "metadata.json again"
    \/ p = "metadata.json again" /\ q = "document.json again"
    \/ p = "document.json again" /\ q = "diagnostics"
LEMMA SuccessiveWrites ==
    ASSUME NEW i \in 1..7
    PROVE  IF i = 7 THEN Writes[i] = "diagnostics" ELSE Successive(Writes[i], Writes[i + 1])
<1>1. i = 1 \/ i = 2 \/ i = 3 \/ i = 4 \/ i = 5 \/ i = 6 \/ i = 7
  OBVIOUS
<1>2. CASE i = 1
  <2>1. i + 1 = 2 /\ i # 7
    BY <1>2
  <2>2. Writes[i] = "document.json" /\ Writes[i + 1] = Writes[2]
    BY <2>1, <1>2, WritesFacts
  <2>3. QED BY <2>1, <2>2, WritesFacts DEF Successive
<1>3. CASE i = 2
  <2>1. i + 1 = 3 /\ i # 7
    BY <1>3
  <2>2. Writes[i] = "document.md" /\ Writes[i + 1] = Writes[3]
    BY <2>1, <1>3, WritesFacts
  <2>3. QED BY <2>1, <2>2, WritesFacts DEF Successive
<1>4. CASE i = 3
  <2>1. i + 1 = 4 /\ i # 7
    BY <1>4
  <2>2. Writes[i] = "metadata.json" /\ Writes[i + 1] = Writes[4]
    BY <2>1, <1>4, WritesFacts
  <2>3. QED BY <2>1, <2>2, WritesFacts DEF Successive
<1>5. CASE i = 4
  <2>1. i + 1 = 5 /\ i # 7
    BY <1>5
  <2>2. Writes[i] = "check" /\ Writes[i + 1] = Writes[5]
    BY <2>1, <1>5, WritesFacts
  <2>3. QED BY <2>1, <2>2, WritesFacts DEF Successive
<1>6. CASE i = 5
  <2>1. i + 1 = 6 /\ i # 7
    BY <1>6
  <2>2. Writes[i] = "metadata.json again" /\ Writes[i + 1] = Writes[6]
    BY <2>1, <1>6, WritesFacts
  <2>3. QED BY <2>1, <2>2, WritesFacts DEF Successive
<1>7. CASE i = 6
  <2>1. i + 1 = 7 /\ i # 7
    BY <1>7
  <2>2. Writes[i] = "document.json again" /\ Writes[i + 1] = Writes[7]
    BY <2>1, <1>7, WritesFacts
  <2>3. QED BY <2>1, <2>2, WritesFacts DEF Successive
<1>8. CASE i = 7
  BY <1>8, WritesFacts DEF Successive
<1>9. QED BY <1>1, <1>2, <1>3, <1>4, <1>5, <1>6, <1>7, <1>8

\* What WritesAre says of the places of a run.
Written == {"document.json", "document.md", "metadata.json", "check",
            "metadata.json again", "document.json again", "diagnostics"}
LEMMA PlacesAre ==
    /\ Working = Written \cup {"unpublish json", "unpublish md", "metadata failed", "work"}
    /\ Places = Working \cup {"new", "preflight", "hashed", "failing"} \cup Over
BY WritesAre DEF Working, Places, Cleanup, Over, Written

LEMMA InitOutput == Init => OutputInv
<1> SUFFICES ASSUME Init PROVE OutputInv
  OBVIOUS
<1>1. TypeOK
  <2>1. files \in [Dir -> [Name -> File \cup {Absent}]]
    BY DEF Init
  <2>2. lock \in [Dir -> Run \cup {Absent}]
    BY DEF Init
  <2>3. at \in [Run -> Places] /\ dir \in [Run -> Dir \cup {Absent}]
    BY PlacesAre DEF Init
  <2>4. stops \in 0..MaxStops /\ faults \in 0..MaxFaults /\ unsafes \in 0..MaxUnsafe
    BY OutputAssumption DEF Init
  <2>5. \A d \in Dir, r \in Run : lock[d] # r
    BY OutputAssumption DEF Init
  <2>6. QED BY <2>1, <2>2, <2>3, <2>4, <2>5 DEF Init, TypeOK
<1>2. \A r \in Run : LockedIn(r) /\ Progress(r)
  BY PlacesAre DEF Init, LockedIn, Progress, Written
<1>3. WholeOrNothing
  BY DEF Init, WholeOrNothing
<1>4. QED BY <1>1, <1>2, <1>3 DEF OutputInv

-----------------------------------------------------------------------------
\* What a step of r leaves to the others: their places, and the directories
\* they hold.
Elsewhere(r) ==
    /\ \A s \in Run \ {r} : at'[s] = at[s] /\ dir'[s] = dir[s]
    /\ \A d \in Dir : lock[d] \notin {Absent, r} => lock'[d] = lock[d] /\ files'[d] = files[d]

LEMMA OthersKeep ==
    ASSUME OutputInv, NEW r \in Run, Elsewhere(r), NEW s \in Run \ {r}
    PROVE  (LockedIn(s) /\ Progress(s))'
<1>1. LockedIn(s) /\ Progress(s) /\ at'[s] = at[s] /\ dir'[s] = dir[s]
  BY DEF OutputInv, Elsewhere
<1>2. Owns(s) => Owns(s)' /\ files'[dir[s]] = files[dir[s]]
  BY <1>1, OutputAssumption DEF OutputInv, TypeOK, Elsewhere, Owns
<1>3. LockedIn(s)'
  BY <1>1, <1>2 DEF LockedIn
<1>4. Progress(s)'
  <2>1. CASE at[s] \in Working
    <3>1. files'[dir'[s]] = files[dir[s]]
      BY <1>1, <1>2, <2>1 DEF LockedIn
    <3>2. QED BY <1>1, <3>1 DEF Progress, By
  <2>2. CASE at[s] \notin Working
    BY <1>1, <2>2, PlacesAre DEF Progress, Written
  <2>3. QED BY <2>1, <2>2
<1>5. QED BY <1>3, <1>4

\* What has to be shown of a step of r for the invariant to hold after it.
Fields ==
    /\ files \in [Dir -> [Name -> File \cup {Absent}]] /\ lock \in [Dir -> Run \cup {Absent}]
    /\ at \in [Run -> Places] /\ dir \in [Run -> Dir \cup {Absent}] /\ torn \subseteq Dir
    /\ stops \in 0..MaxStops /\ faults \in 0..MaxFaults /\ unsafes \in 0..MaxUnsafe
Held(r) == \A d \in Dir : lock[d] = r => dir[r] = d /\ at[r] \notin Over

LEMMA StepHolds ==
    ASSUME OutputInv, NEW r \in Run, Elsewhere(r), \A d \in Dir : lock'[d] \in {lock[d], r, Absent},
           Fields', Held(r)', (LockedIn(r) /\ Progress(r))', WholeOrNothing'
    PROVE  OutputInv'
<1>1. ASSUME NEW d \in Dir, NEW s \in Run, lock'[d] = s PROVE dir'[s] = d /\ at'[s] \notin Over
  <2>1. CASE s = r
    BY <1>1, <2>1 DEF Held
  <2>2. CASE s # r
    <3>1. lock[d] = s
      BY <1>1, <2>2, OutputAssumption
    <3>2. QED BY <2>2, <3>1 DEF OutputInv, TypeOK, Elsewhere
  <2>3. QED BY <2>1, <2>2
<1>2. TypeOK'
  BY <1>1 DEF Fields, TypeOK
<1>3. QED BY <1>2, OthersKeep DEF OutputInv

\* What the invariant says of one run.
LEMMA OutputFacts ==
    ASSUME OutputInv, NEW r \in Run
    PROVE  /\ Fields /\ Held(r) /\ LockedIn(r) /\ Progress(r) /\ WholeOrNothing
           /\ Owns(r) => dir[r] \in Dir /\ \A d \in Dir : lock[d] = r <=> d = dir[r]
           /\ ~ Owns(r) => \A d \in Dir : lock[d] # r
BY OutputAssumption DEF OutputInv, TypeOK, Fields, Held, Owns

-----------------------------------------------------------------------------
Counted == stops \in 0..MaxStops /\ faults \in 0..MaxFaults /\ unsafes \in 0..MaxUnsafe

\* A step of r that changes neither a file nor a lock.
LEMMA MoveHolds ==
    ASSUME OutputInv, NEW r \in Run, NEW next \in Places \ Over, Go(r, next),
           UNCHANGED <<files, lock, dir, torn>>, Counted', (LockedIn(r) /\ Progress(r))'
    PROVE  OutputInv'
<1>0. Fields /\ Held(r) /\ WholeOrNothing
  BY OutputFacts
<1>1. at' = [at EXCEPT ![r] = next]
  BY DEF Go
<1>2. Elsewhere(r) /\ \A d \in Dir : lock'[d] \in {lock[d], r, Absent}
  BY <1>0, <1>1 DEF Fields, Elsewhere
<1>3. Fields' /\ Held(r)'
  BY <1>0, <1>1 DEF Fields, Held, Counted
<1>4. WholeOrNothing'
  BY <1>0 DEF WholeOrNothing
<1>5. QED BY <1>2, <1>3, <1>4, StepHolds

\* A run that has no directory yet takes the lock of d, or is refused.
LEMMA TakeHolds ==
    ASSUME OutputInv, NEW r \in Run, NEW d \in Dir, dir[r] = Absent,
           NEW next \in {"preflight", "work", "unpublish json"}, next = "preflight" => r \notin Rooted,
           TakeLock(r, d, next), dir' = [dir EXCEPT ![r] = d],
           UNCHANGED <<files, torn>>, Counted'
    PROVE  OutputInv'
<1>0. Fields /\ WholeOrNothing /\ \A e \in Dir : lock[e] # r
  BY OutputFacts, OutputAssumption DEF Owns
<1>1. CASE lock[d] = Absent
  <2>1. at' = [at EXCEPT ![r] = next] /\ lock' = [lock EXCEPT ![d] = r]
    BY <1>1 DEF TakeLock, Go
  <2>2. Elsewhere(r) /\ \A e \in Dir : lock'[e] \in {lock[e], r, Absent}
    BY <1>0, <1>1, <2>1, OutputAssumption DEF Fields, Elsewhere
  <2>3. Fields'
    BY <1>0, <2>1, PlacesAre DEF Fields, Counted
  <2>4. Held(r)'
    BY <1>0, <2>1 DEF Fields, Held, Over
  <2>5. Owns(r)'
    BY <1>0, <2>1, OutputAssumption DEF Fields, Owns
  <2>6. (LockedIn(r) /\ Progress(r))'
    BY <1>0, <2>1, <2>5 DEF Fields, LockedIn, Progress
  <2>7. WholeOrNothing'
    BY <1>0, <2>1, OutputAssumption DEF Fields, WholeOrNothing
  <2>8. QED BY <2>2, <2>3, <2>4, <2>6, <2>7, StepHolds
<1>2. CASE lock[d] # Absent
  <2>1. at' = [at EXCEPT ![r] = "refused"] /\ lock' = lock
    BY <1>2 DEF TakeLock, Go
  <2>2. Elsewhere(r) /\ \A e \in Dir : lock'[e] \in {lock[e], r, Absent}
    BY <1>0, <2>1 DEF Fields, Elsewhere
  <2>3. Fields' /\ Held(r)'
    BY <1>0, <2>1, PlacesAre DEF Fields, Held, Counted, Over
  <2>4. (LockedIn(r) /\ Progress(r))'
    BY <1>0, <2>1, PlacesAre DEF Fields, LockedIn, Progress, Written
  <2>5. WholeOrNothing'
    BY <1>0, <2>1 DEF WholeOrNothing
  <2>6. QED BY <2>2, <2>3, <2>4, <2>5, StepHolds
<1>3. QED BY <1>1, <1>2

-----------------------------------------------------------------------------
(* Before the publication no file changes.                                 *)
LEMMA BeginOutput == ASSUME OutputInv, NEW r \in Run, Begin(r) PROVE OutputInv'
<1>0. Fields /\ LockedIn(r) /\ at[r] = "new" /\ dir[r] = Absent
  BY OutputFacts DEF Begin, LockedIn
<1>1. UNCHANGED <<files, torn>> /\ Counted'
  BY <1>0 DEF Begin, Quiet, Fields, Counted
<1>2. CASE r \in Rooted
  <2>1. Go(r, "preflight") /\ UNCHANGED <<dir, lock>>
    BY <1>2 DEF Begin
  <2>2. (LockedIn(r) /\ Progress(r))'
    BY <1>0, <1>2, <2>1, PlacesAre DEF Go, Fields, LockedIn, Progress, Written
  <2>3. "preflight" \in Places \ Over
    BY PlacesAre DEF Over
  <2>4. QED BY <1>1, <2>1, <2>2, <2>3, MoveHolds
<1>3. CASE r \notin Rooted
  BY <1>0, <1>1, <1>3, TakeHolds DEF Begin, Dir
<1>4. QED BY <1>2, <1>3

LEMMA PreflightOutput == ASSUME OutputInv, NEW r \in Run, Preflight(r) PROVE OutputInv'
<1>0. Fields /\ LockedIn(r) /\ at[r] = "preflight"
  BY OutputFacts DEF Preflight
<1>1. UNCHANGED <<files, torn>> /\ Counted'
  BY <1>0 DEF Preflight, Quiet, Fields, Counted
<1>2. CASE r \in Rooted /\ TakeLock(r, "document", "work") /\ dir' = [dir EXCEPT ![r] = "document"]
  BY <1>0, <1>1, <1>2, TakeHolds DEF Dir, LockedIn
<1>3. ASSUME NEW next \in {"work", "failing"}, Go(r, next), UNCHANGED <<dir, lock>>,
             next = "work" => r \notin Rooted
      PROVE  OutputInv'
  <2>1. (LockedIn(r) /\ Progress(r))'
    BY <1>0, <1>3, PlacesAre DEF Go, Fields, LockedIn, Progress, Owns, Written
  <2>2. next \in Places \ Over
    BY PlacesAre DEF Over
  <2>3. QED BY <1>1, <1>3, <2>1, <2>2, MoveHolds
<1>4. QED BY <1>2, <1>3 DEF Preflight

\* Routing and extraction; the deadline; a write that raises.
LEMMA WorkOutput ==
    ASSUME OutputInv, NEW r \in Run, Work(r) \/ CheckFails(r) \/ WriteFaults(r)
    PROVE  OutputInv'
<1>0. Fields /\ LockedIn(r) /\ Owns(r)
  BY OutputFacts, PlacesAre, WritesAre DEF Work, CheckFails, WriteFaults, LockedIn, Written
<1>1. UNCHANGED <<files, torn, dir, lock>>
  BY DEF Work, CheckFails, WriteFaults
<1>2. Counted'
  BY <1>0, OutputAssumption DEF Work, CheckFails, WriteFaults, Quiet, Fields, Counted
<1>3. PICK next \in {"document.json", "failing"} : Go(r, next)
  BY DEF Work, CheckFails, WriteFaults
<1>4. (LockedIn(r) /\ Progress(r))'
  BY <1>0, <1>1, <1>3 DEF Go, Fields, LockedIn, Progress, Owns
<1>5. next \in Places \ Over
  BY PlacesAre DEF Over, Written
<1>6. QED BY <1>1, <1>2, <1>3, <1>4, <1>5, MoveHolds

LEMMA FailOutput == ASSUME OutputInv, NEW r \in Run, Fail(r) PROVE OutputInv'
<1>0. Fields /\ LockedIn(r) /\ at[r] = "failing"
  BY OutputFacts DEF Fail
<1>1. UNCHANGED <<files, torn>> /\ Counted'
  BY <1>0 DEF Fail, Quiet, Fields, Counted
<1>2. CASE Owns(r)
  <2>1. Go(r, "unpublish json") /\ UNCHANGED <<dir, lock>>
    BY <1>0, <1>2 DEF Fail, Fields, Owns
  <2>2. (LockedIn(r) /\ Progress(r))'
    BY <1>0, <1>2, <2>1 DEF Go, Fields, LockedIn, Progress, Owns
  <2>3. "unpublish json" \in Places \ Over
    BY PlacesAre DEF Over
  <2>4. QED BY <1>1, <2>1, <2>2, <2>3, MoveHolds
<1>3. CASE ~ Owns(r)
  <2>1. dir[r] = Absent
    BY <1>0, <1>3 DEF LockedIn
  <2>2. dir' = [dir EXCEPT ![r] = "rejected"] /\ TakeLock(r, "rejected", "unpublish json")
    BY <1>0, <1>3, <2>1 DEF Fail, Fields
  <2>3. QED BY <1>1, <2>1, <2>2, TakeHolds DEF Dir
<1>4. QED BY <1>2, <1>3

-----------------------------------------------------------------------------
(* Publication and cleanup: one file of the run's own directory a step.    *)

\* r writes or removes a file and goes on.
LEMMA StoreHolds ==
    ASSUME OutputInv, NEW r \in Run, Owns(r), NEW n \in Name, NEW f \in File \cup {Absent},
           Store(r, n, f), NEW next \in Places \ Over, Go(r, next),
           UNCHANGED <<lock, dir, torn>>, Counted', (LockedIn(r) /\ Progress(r))'
    PROVE  OutputInv'
<1>0. Fields /\ Held(r) /\ WholeOrNothing /\ dir[r] \in Dir /\ lock[dir[r]] = r
  BY OutputFacts DEF Owns
<1>1. /\ at' = [at EXCEPT ![r] = next]
      /\ files' = [files EXCEPT ![dir[r]] = [files[dir[r]] EXCEPT ![n] = f]]
  BY <1>0 DEF Go, Store, Fields
<1>2. \A d \in Dir \ {dir[r]} : files'[d] = files[d]
  BY <1>0, <1>1 DEF Fields
<1>3. Elsewhere(r) /\ \A d \in Dir : lock'[d] \in {lock[d], r, Absent}
  BY <1>0, <1>1, <1>2 DEF Fields, Elsewhere
<1>4. Fields' /\ Held(r)'
  BY <1>0, <1>1 DEF Fields, Held, Counted
<1>5. WholeOrNothing'
  <2>1. \A d \in Dir : lock'[d] = Absent => d # dir[r]
    BY <1>0, OutputAssumption
  <2>2. QED BY <1>0, <1>2, <2>1 DEF WholeOrNothing
<1>6. QED BY <1>3, <1>4, <1>5, StepHolds

\* r ends and its locks go; its directory is torn, or as WholeOrNothing asks.
Sound(f) ==
    \/ \A n \in Name : f[n] = Absent
    \/ f["json"] = Absent /\ f["md"] = Absent /\ f["metadata"].kind = "failed"
    \/ /\ f["json"].kind = "final" /\ f["metadata"] = f["json"]
       /\ f["md"] # Absent /\ f["md"].run = f["json"].run

LEMMA EndHolds ==
    ASSUME OutputInv, NEW r \in Run, NEW place \in Over, Go(r, place), Release(r),
           UNCHANGED dir, Counted',
           files' \in [Dir -> [Name -> File \cup {Absent}]],
           \A d \in Dir : (d = dir[r] /\ Owns(r)) \/ files'[d] = files[d],
           torn' \subseteq Dir,
           \A d \in Dir : (d = dir[r] /\ Owns(r)) \/ (d \in torn' <=> d \in torn),
           Owns(r) => dir[r] \in torn' \/ Sound(files'[dir[r]])
    PROVE  OutputInv'
<1>0. /\ Fields /\ WholeOrNothing
      /\ Owns(r) => dir[r] \in Dir /\ \A d \in Dir : lock[d] = r <=> d = dir[r]
      /\ ~ Owns(r) => \A d \in Dir : lock[d] # r
  BY OutputFacts
<1>1. at' = [at EXCEPT ![r] = place] /\ place \in Places
  BY PlacesAre DEF Go
<1>2. \A d \in Dir : lock'[d] = IF lock[d] = r THEN Absent ELSE lock[d]
  BY DEF Release
<1>3. lock' \in [Dir -> Run \cup {Absent}]
  BY <1>0 DEF Release, Fields
<1>4. Elsewhere(r) /\ \A d \in Dir : lock'[d] \in {lock[d], r, Absent}
  BY <1>0, <1>1, <1>2 DEF Fields, Elsewhere
<1>5. Fields'
  BY <1>0, <1>1, <1>3 DEF Fields, Counted
<1>6. Held(r)'
  BY <1>2, OutputAssumption DEF Held
<1>7. (LockedIn(r) /\ Progress(r))'
  BY <1>0, <1>1, PlacesAre DEF Fields, LockedIn, Progress, Over, Written
<1>8. ASSUME NEW d \in Dir, lock'[d] = Absent, d \notin torn' PROVE Sound(files'[d])
  <2>1. CASE d = dir[r] /\ Owns(r)
    BY <1>8, <2>1
  <2>2. CASE ~ (d = dir[r] /\ Owns(r))
    <3>1. lock[d] = Absent /\ d \notin torn /\ files'[d] = files[d]
      BY <1>0, <1>2, <1>8, <2>2
    <3>2. QED BY <1>0, <3>1 DEF WholeOrNothing, Sound
  <2>3. QED BY <2>1, <2>2
<1>9. WholeOrNothing'
  BY <1>8 DEF WholeOrNothing, Sound
<1>10. QED BY <1>4, <1>5, <1>6, <1>7, <1>9, StepHolds

\* A run that is stopped, finds a path unsafe, or cannot clean up.
LEMMA TornOutput ==
    ASSUME OutputInv, NEW r \in Run, Stop(r) \/ Unsafe(r) \/ CleanupFaults(r)
    PROVE  OutputInv'
<1>0. Fields /\ LockedIn(r) /\ (Owns(r) => dir[r] \in Dir)
  BY OutputFacts
<1>1. PICK place \in Over : Go(r, place)
  BY DEF Stop, Unsafe, CleanupFaults, Over
<1>2. Release(r) /\ UNCHANGED <<files, dir>>
  BY DEF Stop, Unsafe, CleanupFaults
<1>3. Counted'
  BY <1>0, OutputAssumption DEF Stop, Unsafe, CleanupFaults, Fields, Counted
<1>4. torn' = IF Owns(r) THEN torn \cup {dir[r]} ELSE torn
  BY <1>0, PlacesAre, WritesAre DEF Stop, Unsafe, CleanupFaults, LockedIn, Cleanup, Written
<1>5. /\ files' \in [Dir -> [Name -> File \cup {Absent}]] /\ torn' \subseteq Dir
      /\ \A d \in Dir : (d = dir[r] /\ Owns(r)) \/ (d \in torn' <=> d \in torn)
      /\ Owns(r) => dir[r] \in torn'
  BY <1>0, <1>2, <1>4 DEF Fields
<1>6. QED BY <1>1, <1>2, <1>3, <1>5, EndHolds

LEMMA PublishOutput == ASSUME OutputInv, NEW r \in Run, Publish(r) PROVE OutputInv'
<1>0. Fields /\ LockedIn(r) /\ Progress(r)
  BY OutputFacts
<1>1. PICK i \in 1..7 :
        /\ at[r] = Writes[i]
        /\ IF at[r] \in Other THEN UNCHANGED files
           ELSE Store(r, Target(at[r]), By(r, Kind(at[r])))
        /\ IF i = 7 THEN Finish(r, "done")
           ELSE Go(r, Writes[i + 1]) /\ UNCHANGED <<lock, torn>>
        /\ UNCHANGED dir /\ Quiet
  BY WritesFacts DEF Publish, Following, By
<1>2. at[r] \in Written /\ Owns(r) /\ dir[r] \in Dir
  <2>1. at[r] \in Written
    BY <1>1, SuccessiveWrites DEF Written, Successive
  <2>2. QED BY <1>0, <2>1, PlacesAre, OutputFacts DEF LockedIn
<1>3. Counted'
  BY <1>0, <1>1 DEF Quiet, Fields, Counted
<1>4. CASE i = 7
  <2>1. at[r] = "diagnostics" /\ UNCHANGED files /\ torn' = torn \ {dir[r]}
    BY <1>1, <1>4, SuccessiveWrites DEF Other, Finish
  <2>2. Go(r, "done") /\ Release(r) /\ "done" \in Over
    BY <1>1, <1>4 DEF Finish, Over
  <2>3. By(r, "draft") # Absent
    BY OutputAssumption DEF By, File
  <2>4. Sound(files[dir[r]])
    BY <1>0, <2>1, <2>3 DEF Progress, Sound, By
  <2>5. QED BY <1>0, <1>1, <1>2, <1>3, <2>1, <2>2, <2>4, EndHolds DEF Fields
<1>5. CASE i # 7
  <2> DEFINE next == Writes[i + 1]
  <2>1. Go(r, next) /\ UNCHANGED <<lock, torn, dir>> /\ Successive(at[r], next)
    BY <1>1, <1>5, SuccessiveWrites
  <2> HIDE DEF next
  <2>2. next \in Places \ Over /\ at'[r] = next
    BY <1>0, <2>1, PlacesAre DEF Successive, Written, Over, Go, Fields
  <2>3. LockedIn(r)'
    <3>1. Owns(r)'
      BY <1>2, <2>1 DEF Owns
    <3>2. next \notin {"new", "preflight", "failing"}
      BY <2>1 DEF Successive
    <3>3. QED BY <2>2, <3>1, <3>2 DEF LockedIn
  <2>4. CASE at[r] = "check"
    <3>1. next = "metadata.json again" /\ UNCHANGED files
      BY <1>1, <2>1, <2>4 DEF Successive, Other
    <3>2. Progress(r)'
      BY <1>0, <2>1, <2>2, <2>4, <3>1 DEF Progress
    <3>3. QED BY <1>3, <2>1, <2>2, <2>3, <3>1, <3>2, MoveHolds
  <2>5. CASE at[r] # "check"
    <3> DEFINE t == Target(at[r])
               f == By(r, Kind(at[r]))
    <3>1. Store(r, t, f)
      BY <1>1, <2>1, <2>5 DEF Other, Successive
    <3>2. t \in Name /\ f \in File \cup {Absent}
      BY DEF Target, Kind, By, Name, File
    <3>3. \A n \in Name : files'[dir'[r]][n] = IF n = t THEN f ELSE files[dir[r]][n]
      BY <1>0, <1>2, <2>1, <3>1 DEF Store, Fields
    <3>4. Progress(r)'
      BY <1>0, <2>1, <2>2, <2>5, <3>3 DEF Progress, Target, Kind, Name, Successive
    <3>5. QED BY <1>2, <1>3, <2>1, <2>2, <2>3, <3>1, <3>2, <3>4, StoreHolds
  <2>6. QED BY <2>4, <2>5
<1>6. QED BY <1>4, <1>5

LEMMA UnpublishOutput == ASSUME OutputInv, NEW r \in Run, Unpublish(r) PROVE OutputInv'
<1>0. Fields /\ LockedIn(r) /\ Progress(r) /\ Owns(r) /\ dir[r] \in Dir
  BY OutputFacts, PlacesAre DEF Unpublish, LockedIn
<1>1. Counted' /\ UNCHANGED <<lock, dir, torn>>
  BY <1>0 DEF Unpublish, Quiet, Fields, Counted
<1>2. PICK n \in Name, next \in {"unpublish md", "metadata failed"} :
        /\ Store(r, n, Absent) /\ Go(r, next)
        /\ n = IF at[r] = "unpublish json" THEN "json" ELSE "md"
        /\ next = IF at[r] = "unpublish json" THEN "unpublish md" ELSE "metadata failed"
  BY DEF Unpublish, Name
<1>3. next \in Places \ Over
  BY PlacesAre DEF Over
<1>4. at' = [at EXCEPT ![r] = next] /\ at[r] \in {"unpublish json", "unpublish md"}
  BY <1>2 DEF Go, Unpublish
<1>5. (LockedIn(r) /\ Progress(r))'
  BY <1>0, <1>1, <1>2, <1>4 DEF Store, Fields, LockedIn, Progress, Owns, Name
<1>6. QED BY <1>0, <1>1, <1>2, <1>3, <1>5, StoreHolds

LEMMA RecordFailureOutput == ASSUME OutputInv, NEW r \in Run, RecordFailure(r) PROVE OutputInv'
<1>0. Fields /\ LockedIn(r) /\ Progress(r) /\ Owns(r) /\ dir[r] \in Dir /\ at[r] = "metadata failed"
  BY OutputFacts, PlacesAre DEF RecordFailure, LockedIn
<1>1. /\ Counted' /\ UNCHANGED dir /\ Go(r, "failed") /\ Release(r) /\ "failed" \in Over
      /\ Store(r, "metadata", By(r, "failed")) /\ torn' = torn \ {dir[r]}
  BY <1>0 DEF RecordFailure, Finish, Quiet, Fields, Counted, Over, By
<1>2. By(r, "failed") \in File /\ By(r, "failed").kind = "failed"
  BY DEF By, File
<1>3. /\ files' \in [Dir -> [Name -> File \cup {Absent}]]
      /\ \A d \in Dir \ {dir[r]} : files'[d] = files[d]
      /\ files'[dir[r]]["json"] = Absent /\ files'[dir[r]]["md"] = Absent
      /\ files'[dir[r]]["metadata"] = By(r, "failed")
  BY <1>0, <1>1, <1>2 DEF Store, Fields, Name, Progress
<1>4. Sound(files'[dir[r]])
  BY <1>2, <1>3 DEF Sound
<1>5. QED BY <1>0, <1>1, <1>3, <1>4, EndHolds DEF Fields

LEMMA StepOutput == OutputInv /\ [Next]_vars => OutputInv'
<1> SUFFICES ASSUME OutputInv, [Next]_vars PROVE OutputInv'
  OBVIOUS
<1>1. CASE UNCHANGED vars
  <2>1. TypeOK' /\ WholeOrNothing'
    BY <1>1 DEF vars, OutputInv, TypeOK, WholeOrNothing
  <2>2. ASSUME NEW r \in Run PROVE (LockedIn(r) /\ Progress(r))'
    BY <1>1 DEF vars, OutputInv, LockedIn, Progress, Owns
  <2>3. QED BY <2>1, <2>2 DEF OutputInv
<1>2. ASSUME NEW r \in Run, Step(r) \/ Stop(r) PROVE OutputInv'
  BY <1>2, BeginOutput, PreflightOutput, WorkOutput, PublishOutput, FailOutput, UnpublishOutput,
     RecordFailureOutput, TornOutput DEF Step
<1>3. QED BY <1>1, <1>2 DEF Next

-----------------------------------------------------------------------------
(* The state has its types, and the lock of a directory is held by a run   *)
(* that works in it.  (process_file, run_lock.)                            *)
THEOREM OutputTypes == Spec => []TypeOK
<1>1. OutputInv => TypeOK
  BY DEF OutputInv
<1>2. QED BY <1>1, InitOutput, StepOutput, PTL DEF Spec

(* However many runs stop, fail or find an unsafe path, a directory whose  *)
(* last run could clean up holds one whole success or a failure without a  *)
(* document.  (process_file's publication and its except block.)           *)
THEOREM DirectoriesAreWhole == Spec => []WholeOrNothing
<1>1. OutputInv => WholeOrNothing
  BY DEF OutputInv
<1>2. QED BY <1>1, InitOutput, StepOutput, PTL DEF Spec

(* The files of a directory are changed only by the run that holds its     *)
(* lock.  (run_lock, and the order of acquisition in process_file.)        *)
LEMMA StepOneWriter ==
    ASSUME OutputInv, [Next]_vars
    PROVE  \A d \in Dir : files'[d] # files[d] => \E r \in Run : lock[d] = r /\ dir[r] = d
<1>1. ASSUME NEW r \in Run, Step(r) \/ Stop(r), NEW d \in Dir, files'[d] # files[d]
      PROVE  lock[d] = r /\ dir[r] = d
  <2>1. PICK n \in Name, f \in File \cup {Absent} : at[r] \in Working /\ Store(r, n, f)
    <3>1. CASE Publish(r)
      <4>1. PICK i \in DOMAIN Writes : at[r] = Writes[i] /\ Store(r, Target(at[r]), By(r, Kind(at[r])))
        BY <1>1, <3>1 DEF Publish, By
      <4>2. at[r] \in Working
        BY <4>1 DEF Working, ToSet
      <4>3. Target(at[r]) \in Name /\ By(r, Kind(at[r])) \in File
        BY DEF Target, Kind, By, Name, File
      <4>4. QED BY <4>1, <4>2, <4>3
    <3>2. CASE Unpublish(r)
      BY <3>2, PlacesAre DEF Unpublish, Name
    <3>3. CASE RecordFailure(r)
      BY <3>3, PlacesAre DEF RecordFailure, Name, File
    <3>4. QED
      BY <1>1, <3>1, <3>2, <3>3 DEF Step, Stop, Begin, Preflight, Work, CheckFails, WriteFaults,
         Fail, CleanupFaults, Unsafe
  <2>2. Owns(r) /\ Fields
    BY <2>1, OutputFacts DEF LockedIn
  <2>3. QED BY <1>1, <2>1, <2>2 DEF Store, Fields, Owns
<1>2. QED BY <1>1 DEF Next, vars

THEOREM WritesAreOwned == Spec => OneWriter
<1>1. OutputInv /\ [Next]_vars => [\A d \in Dir : files'[d] # files[d] =>
                                   \E r \in Run : lock[d] = r /\ dir[r] = d]_vars
  BY StepOneWriter
<1>2. QED BY <1>1, InitOutput, StepOutput, PTL DEF Spec, OneWriter

-----------------------------------------------------------------------------
\* The client: it holds nothing when it is about to spawn again, and the
\* process it holds when it waits for a frame.
ClientOK ==
    /\ parent = "respawn" => held = 0 /\ scratchDir = 0
    /\ parent \in {"starting", "waiting"} => held # 0
    /\ parent \in {"starting", "waiting", "respawn"} => cur \in Page
    /\ parent = "reaped" /\ again => cur \in Page
    /\ held <= spawned /\ scratchDir <= spawned

\* Whatever exists belongs to the process the client holds.
OwnOnly == live \cup zombie \cup kin \subseteq {held} \ {0}

WorkerInv == WorkerTypeOK /\ ClientOK /\ OwnOnly /\ AcceptedIsOwn

-----------------------------------------------------------------------------
(* Frames and the stream they travel in.                                   *)
Garbage == [kind |-> "garbage", page |-> None]

LEMMA Frames ==
    /\ Garbage \in Frame
    /\ [kind |-> "ready", page |-> None] \in Frame /\ [kind |-> "failed", page |-> None] \in Frame
    /\ \A p \in Page : [kind |-> "completed", page |-> p] \in Frame
BY DEF Garbage, Frame

LEMMA TornIsStream ==
    ASSUME pipe \in Seq(Frame), NEW s \in Torn
    PROVE  s \in Seq(Frame)
<1>1. CASE s = pipe
  BY <1>1
<1>2. CASE pipe # <<>> /\ s # pipe
  <2>1. Tail(pipe) \in Seq(Frame)
    BY <1>2, HeadTailProperties
  <2>2. <<Garbage>> \in Seq(Frame)
    BY Frames
  <2>3. <<Garbage>> \o Tail(pipe) \in Seq(Frame)
    BY <2>1, <2>2, ConcatProperties
  <2>4. QED BY <1>2, <2>1, <2>3 DEF Torn, Garbage
<1>3. QED BY <1>1, <1>2 DEF Torn

LEMMA InitWorker == WorkerInit => WorkerInv
<1> SUFFICES ASSUME WorkerInit PROVE WorkerInv
  OBVIOUS
<1>1. WorkerTypeOK
  <2>1. stdin \in Seq(Page) /\ pipe \in Seq(Frame)
    BY EmptySeq DEF WorkerInit
  <2>2. 0 \in 0..MaxInterrupts /\ 0 \in 0..MaxStuck /\ 0 \in 0..MaxRmFaults
    BY WorkerAssumption
  <2>3. QED BY <2>1, <2>2 DEF WorkerInit, WorkerTypeOK
<1>2. ClientOK
  BY DEF WorkerInit, ClientOK
<1>3. OwnOnly /\ AcceptedIsOwn
  BY DEF WorkerInit, OwnOnly, AcceptedIsOwn
<1>4. QED BY <1>1, <1>2, <1>3 DEF WorkerInv

-----------------------------------------------------------------------------
(* What terminate() leaves.                                                *)
LEMMA TerminateLeaves ==
    ASSUME WorkerInv, Terminate, UNCHANGED spawned
    PROVE  /\ held' \in Proc \cup {0} /\ scratchDir' \in Proc \cup {0} /\ disk' \subseteq Proc
           /\ live' \subseteq Proc /\ zombie' \subseteq Proc /\ kin' \subseteq Proc
           /\ doing' \in {"none", "dying"} /\ stdin' \in Seq(Page) /\ pipe' \in Seq(Frame)
           /\ stuck' \in 0..MaxStuck /\ rmFaults' \in 0..MaxRmFaults
           /\ held' <= spawned' /\ scratchDir' <= spawned' /\ OwnOnly'
<1>1. WorkerTypeOK /\ ClientOK /\ OwnOnly /\ {MaxStuck, MaxRmFaults} \subseteq Nat
  BY WorkerAssumption DEF WorkerInv
<1>2. spawned \in 0..MaxProcs /\ MaxProcs \in Nat
  BY <1>1, WorkerAssumption DEF WorkerTypeOK, Proc
<1>3. CASE Verified
  <2>1. /\ live' = live \ {held} /\ zombie' = zombie \ {held} /\ kin' = kin \ {held} /\ held' = 0
        /\ doing' = "none" /\ stdin' = <<>> /\ pipe' = <<>> /\ stuck' = stuck
    BY <1>3 DEF Verified
  <2>2. OwnOnly'
    BY <1>1, <2>1 DEF OwnOnly
  <2>3. /\ scratchDir' \in {0, scratchDir} /\ disk' \subseteq disk
        /\ rmFaults' = rmFaults \/ (rmFaults < MaxRmFaults /\ rmFaults' = rmFaults + 1)
    BY <1>3 DEF Verified
  <2>4. rmFaults' \in 0..MaxRmFaults
    BY <1>1, <2>3 DEF WorkerTypeOK
  <2>5. stdin' \in Seq(Page) /\ pipe' \in Seq(Frame)
    BY <2>1, EmptySeq
  <2>6. scratchDir' <= spawned' /\ held' <= spawned'
    BY <1>1, <1>2, <2>1, <2>3 DEF ClientOK
  <2>7. QED BY <1>1, <2>1, <2>2, <2>3, <2>4, <2>5, <2>6 DEF WorkerTypeOK
<1>4. CASE Unverified
  <2>1. /\ live' \in {live, live \ {held}} /\ zombie' = zombie \ {held} /\ kin' = kin /\ held' = held
        /\ doing' = "dying" /\ stdin' = stdin /\ pipe' \in Torn
        /\ scratchDir' = scratchDir /\ disk' = disk /\ rmFaults' = rmFaults
    BY <1>4 DEF Unverified, StillHeld
  <2>2. stuck < MaxStuck /\ stuck' = stuck + 1
    BY <1>4 DEF Unverified
  <2>3. stuck' \in 0..MaxStuck
    BY <1>1, <2>2 DEF WorkerTypeOK
  <2>4. pipe' \in Seq(Frame)
    BY <1>1, <2>1, TornIsStream DEF WorkerTypeOK
  <2>5. OwnOnly'
    BY <1>1, <2>1 DEF OwnOnly
  <2>6. QED BY <1>1, <2>1, <2>3, <2>4, <2>5 DEF WorkerTypeOK, ClientOK
<1>5. QED BY <1>3, <1>4 DEF Terminate

\* What spawning a process makes.
LEMMA StartMakes ==
    ASSUME WorkerInv, NEW p \in Page, Start(p), held = 0,
           UNCHANGED <<again, zombie, kin, stdin, pipe, accepted, bounds>>
    PROVE  WorkerInv'
<1>1. WorkerTypeOK /\ ClientOK /\ OwnOnly /\ AcceptedIsOwn /\ MaxProcs \in Nat
  BY WorkerAssumption DEF WorkerInv
<1> DEFINE n == spawned + 1
<1>2. /\ cur' = p /\ scratchDir' = n /\ disk' = disk \cup {n} /\ spawned' = n /\ held' = n
      /\ live' = live \cup {n} /\ doing' = "loading" /\ parent' = "starting"
      /\ again' = again /\ zombie' = zombie /\ kin' = kin /\ stdin' = stdin /\ pipe' = pipe
      /\ accepted' = accepted /\ interrupts' = interrupts /\ stuck' = stuck /\ rmFaults' = rmFaults
  BY DEF Start, bounds
<1>3. n \in Proc /\ n # 0 /\ n <= n
  BY <1>1 DEF Start, WorkerTypeOK, Proc
<1>4. WorkerTypeOK'
  <2> HIDE DEF n
  <2>1. QED BY <1>1, <1>2, <1>3 DEF WorkerTypeOK
<1>5. ClientOK'
  <2> HIDE DEF n
  <2>1. QED BY <1>2, <1>3 DEF ClientOK
<1>6. OwnOnly' /\ AcceptedIsOwn'
  <2> HIDE DEF n
  <2>1. QED BY <1>1, <1>2, <1>3 DEF OwnOnly, AcceptedIsOwn
<1>7. QED BY <1>4, <1>5, <1>6 DEF WorkerInv

-----------------------------------------------------------------------------
(* The steps of the client.                                                *)
LEMMA SpawnFailsHolds ==
    ASSUME WorkerInv, SpawnFails
    PROVE  WorkerInv'
<1>1. WorkerTypeOK /\ ClientOK /\ OwnOnly /\ AcceptedIsOwn /\ MaxProcs \in Nat /\ MaxRmFaults \in Nat
  BY WorkerAssumption DEF WorkerInv
<1>2. /\ spawned < MaxProcs /\ spawned' = spawned + 1 /\ parent = "idle" /\ held = 0
      /\ parent' = parent /\ cur' = cur /\ again' = again /\ held' = held /\ live' = live
      /\ zombie' = zombie /\ kin' = kin /\ doing' = doing /\ stdin' = stdin /\ pipe' = pipe
      /\ accepted' = accepted /\ interrupts' = interrupts /\ stuck' = stuck
  BY DEF SpawnFails, channel
<1>3. spawned \in 0..MaxProcs
  BY <1>1 DEF WorkerTypeOK, Proc
<1>4. spawned' \in Proc /\ held' <= spawned'
  BY <1>1, <1>2, <1>3 DEF Proc
<1>5. /\ scratchDir' \in {0, spawned'} /\ disk' \in {disk, disk \cup {spawned'}}
      /\ rmFaults' = rmFaults \/ (rmFaults < MaxRmFaults /\ rmFaults' = rmFaults + 1)
  BY DEF SpawnFails
<1>6. rmFaults' \in 0..MaxRmFaults
  BY <1>1, <1>5 DEF WorkerTypeOK
<1>7. WorkerTypeOK'
  BY <1>1, <1>2, <1>4, <1>5, <1>6 DEF WorkerTypeOK
<1>8. scratchDir' <= spawned'
  BY <1>2, <1>3, <1>5
<1>9. ClientOK'
  BY <1>2, <1>4, <1>8 DEF ClientOK
<1>10. OwnOnly' /\ AcceptedIsOwn'
  BY <1>1, <1>2 DEF OwnOnly, AcceptedIsOwn
<1>11. QED BY <1>7, <1>9, <1>10 DEF WorkerInv

LEMMA RequestHolds ==
    ASSUME WorkerInv, NEW p \in Page, RequestReuse(p) \/ RequestRespawn(p)
    PROVE  WorkerInv'
<1>1. WorkerTypeOK /\ ClientOK /\ OwnOnly /\ AcceptedIsOwn
  BY DEF WorkerInv
<1>2. CASE RequestReuse(p)
  <2>1. /\ held \in live /\ cur' = p /\ stdin' = Append(stdin, p) /\ parent' = "waiting"
        /\ again' = again /\ held' = held /\ scratchDir' = scratchDir /\ disk' = disk
        /\ spawned' = spawned /\ live' = live /\ zombie' = zombie /\ kin' = kin
        /\ doing' = doing /\ pipe' = pipe /\ accepted' = accepted
        /\ interrupts' = interrupts /\ stuck' = stuck /\ rmFaults' = rmFaults
    BY <1>2 DEF RequestReuse, system, bounds
  <2>2. stdin' \in Seq(Page)
    BY <1>1, <2>1, AppendProperties DEF WorkerTypeOK
  <2>3. WorkerTypeOK'
    BY <1>1, <2>1, <2>2 DEF WorkerTypeOK
  <2>4. held # 0
    BY <1>1, <2>1 DEF OwnOnly
  <2>5. ClientOK' /\ OwnOnly' /\ AcceptedIsOwn'
    BY <1>1, <2>1, <2>4 DEF ClientOK, OwnOnly, AcceptedIsOwn
  <2>6. QED BY <2>3, <2>5 DEF WorkerInv
<1>3. CASE RequestRespawn(p)
  <2>1. /\ zombie' = zombie \ {held} /\ parent' = "reaped" /\ again' = TRUE /\ cur' = p
        /\ held' = held /\ scratchDir' = scratchDir /\ disk' = disk /\ spawned' = spawned
        /\ live' = live /\ kin' = kin /\ doing' = doing /\ stdin' = stdin /\ pipe' = pipe
        /\ accepted' = accepted /\ interrupts' = interrupts /\ stuck' = stuck /\ rmFaults' = rmFaults
    BY <1>3 DEF RequestRespawn, channel, bounds
  <2>2. WorkerTypeOK'
    BY <1>1, <2>1 DEF WorkerTypeOK
  <2>3. ClientOK' /\ OwnOnly' /\ AcceptedIsOwn'
    BY <1>1, <2>1 DEF ClientOK, OwnOnly, AcceptedIsOwn
  <2>4. QED BY <2>2, <2>3 DEF WorkerInv
<1>4. QED BY <1>2, <1>3

LEMMA ReadHolds ==
    ASSUME WorkerInv, ReadReady \/ ReadReply \/ SeeExit
    PROVE  WorkerInv'
<1>1. WorkerTypeOK /\ ClientOK /\ OwnOnly /\ AcceptedIsOwn
  BY DEF WorkerInv
<1>2. CASE ReadReady
  <2>1. /\ parent = "starting" /\ pipe # <<>> /\ pipe' = Tail(pipe) /\ stdin' = Append(stdin, cur)
        /\ parent' = "waiting" /\ cur' = cur /\ again' = again /\ held' = held
        /\ scratchDir' = scratchDir /\ disk' = disk /\ spawned' = spawned /\ live' = live
        /\ zombie' = zombie /\ kin' = kin /\ doing' = doing /\ accepted' = accepted
        /\ interrupts' = interrupts /\ stuck' = stuck /\ rmFaults' = rmFaults
    BY <1>2 DEF ReadReady, system, bounds
  <2>2. cur \in Page /\ held # 0
    BY <1>1, <2>1 DEF ClientOK
  <2>3. stdin' \in Seq(Page) /\ pipe' \in Seq(Frame)
    BY <1>1, <2>1, <2>2, AppendProperties, HeadTailProperties DEF WorkerTypeOK
  <2>4. WorkerTypeOK'
    BY <1>1, <2>1, <2>3 DEF WorkerTypeOK
  <2>5. ClientOK' /\ OwnOnly' /\ AcceptedIsOwn'
    BY <1>1, <2>1, <2>2 DEF ClientOK, OwnOnly, AcceptedIsOwn
  <2>6. QED BY <2>4, <2>5 DEF WorkerInv
<1>3. CASE ReadReply
  <2>1. /\ parent = "waiting" /\ pipe # <<>> /\ Head(pipe).kind = "completed"
        /\ pipe' = Tail(pipe) /\ parent' = "idle" /\ cur' = None /\ again' = again /\ held' = held
        /\ scratchDir' = scratchDir /\ disk' = disk /\ spawned' = spawned /\ live' = live
        /\ zombie' = zombie /\ kin' = kin /\ doing' = doing /\ stdin' = stdin
        /\ interrupts' = interrupts /\ stuck' = stuck /\ rmFaults' = rmFaults
    BY <1>3 DEF ReadReply, system, bounds
  <2>2. /\ cur = Head(pipe).page => accepted' = accepted \cup {<<cur, Head(pipe).page>>}
        /\ cur # Head(pipe).page => accepted' = accepted
    BY <1>3 DEF ReadReply, Matches
  <2>3. cur \in Page /\ pipe' \in Seq(Frame)
    BY <1>1, <2>1, HeadTailProperties DEF WorkerTypeOK, ClientOK
  <2>4. accepted' \subseteq Page \X Page /\ AcceptedIsOwn'
    BY <1>1, <2>2, <2>3 DEF WorkerTypeOK, AcceptedIsOwn
  <2>5. WorkerTypeOK'
    BY <1>1, <2>1, <2>3, <2>4 DEF WorkerTypeOK
  <2>6. ClientOK' /\ OwnOnly'
    BY <1>1, <2>1 DEF ClientOK, OwnOnly
  <2>7. QED BY <2>4, <2>5, <2>6 DEF WorkerInv
<1>4. CASE SeeExit
  <2>1. /\ zombie' = zombie \ {held} /\ parent' = "reaped" /\ again' = FALSE /\ cur' = cur
        /\ held' = held /\ scratchDir' = scratchDir /\ disk' = disk /\ spawned' = spawned
        /\ live' = live /\ kin' = kin /\ doing' = doing /\ stdin' = stdin /\ pipe' = pipe
        /\ accepted' = accepted /\ interrupts' = interrupts /\ stuck' = stuck /\ rmFaults' = rmFaults
    BY <1>4 DEF SeeExit, channel, bounds
  <2>2. WorkerTypeOK'
    BY <1>1, <2>1 DEF WorkerTypeOK
  <2>3. ClientOK' /\ OwnOnly' /\ AcceptedIsOwn'
    BY <1>1, <2>1 DEF ClientOK, OwnOnly, AcceptedIsOwn
  <2>4. QED BY <2>2, <2>3 DEF WorkerInv
<1>5. QED BY <1>2, <1>3, <1>4

\* Every way in which a kill ends a request, a worker, or the client.
LEMMA KillHolds ==
    ASSUME WorkerInv, AfterExit \/ GiveUp \/ (Close /\ held # 0)
    PROVE  WorkerInv'
<1>1. WorkerTypeOK /\ ClientOK /\ OwnOnly /\ AcceptedIsOwn
  BY DEF WorkerInv
<1>2. Terminate /\ spawned' = spawned /\ again' = again /\ accepted' = accepted /\ interrupts' = interrupts
  BY DEF AfterExit, GiveUp, Close
<1>3. /\ held' \in Proc \cup {0} /\ scratchDir' \in Proc \cup {0} /\ disk' \subseteq Proc
      /\ live' \subseteq Proc /\ zombie' \subseteq Proc /\ kin' \subseteq Proc
      /\ doing' \in {"none", "dying"} /\ stdin' \in Seq(Page) /\ pipe' \in Seq(Frame)
      /\ stuck' \in 0..MaxStuck /\ rmFaults' \in 0..MaxRmFaults
      /\ held' <= spawned' /\ scratchDir' <= spawned' /\ OwnOnly'
  BY <1>2, TerminateLeaves
<1>4. /\ parent' \in {"respawn", "idle", "closed"}
      /\ parent' = "respawn" => held' = 0 /\ scratchDir' = 0 /\ cur' = cur /\ cur \in Page
      /\ cur' \in {cur, None}
  BY <1>1 DEF AfterExit, GiveUp, Close, ClientOK
<1>5. WorkerTypeOK'
  BY <1>1, <1>2, <1>3, <1>4 DEF WorkerTypeOK
<1>6. ClientOK'
  BY <1>3, <1>4 DEF ClientOK
<1>7. AcceptedIsOwn'
  BY <1>1, <1>2 DEF AcceptedIsOwn
<1>8. QED BY <1>3, <1>5, <1>6, <1>7 DEF WorkerInv

LEMMA LeaveHolds ==
    ASSUME WorkerInv, Interrupt \/ (Close /\ held = 0)
    PROVE  WorkerInv'
<1>1. WorkerTypeOK /\ ClientOK /\ OwnOnly /\ AcceptedIsOwn /\ MaxInterrupts \in Nat
  BY WorkerAssumption DEF WorkerInv
<1>2. /\ again' = again /\ held' = held /\ scratchDir' = scratchDir /\ disk' = disk
      /\ spawned' = spawned /\ live' = live /\ zombie' = zombie /\ kin' = kin /\ doing' = doing
      /\ stdin' = stdin /\ accepted' = accepted /\ stuck' = stuck /\ rmFaults' = rmFaults
      /\ parent' \in {"idle", "closed"} /\ cur' \in {cur, None}
  BY DEF Interrupt, Close, system, channel
<1>3. interrupts' = interrupts \/ (interrupts < MaxInterrupts /\ interrupts' = interrupts + 1)
  BY DEF Interrupt, Close
<1>4. interrupts' \in 0..MaxInterrupts
  BY <1>1, <1>3 DEF WorkerTypeOK
<1>5. pipe' = pipe \/ pipe' \in Torn
  BY DEF Interrupt, Close, channel
<1>6. pipe' \in Seq(Frame)
  BY <1>1, <1>5, TornIsStream DEF WorkerTypeOK
<1>7. WorkerTypeOK'
  BY <1>1, <1>2, <1>4, <1>6 DEF WorkerTypeOK
<1>8. ClientOK' /\ OwnOnly' /\ AcceptedIsOwn'
  BY <1>1, <1>2 DEF ClientOK, OwnOnly, AcceptedIsOwn
<1>9. QED BY <1>7, <1>8 DEF WorkerInv

-----------------------------------------------------------------------------
(* The child, and all steps together.                                      *)
LEMMA ChildHolds ==
    ASSUME WorkerInv, Child
    PROVE  WorkerInv'
<1>1. WorkerTypeOK /\ ClientOK /\ OwnOnly /\ AcceptedIsOwn
  BY DEF WorkerInv
<1>2. /\ parent' = parent /\ cur' = cur /\ again' = again /\ held' = held /\ scratchDir' = scratchDir
      /\ accepted' = accepted /\ interrupts' = interrupts /\ stuck' = stuck /\ rmFaults' = rmFaults
      /\ disk' = disk /\ spawned' = spawned
  BY DEF Child, Load, Take, Reply, Fork, Exit, Alone, client, bounds, system
<1>3. /\ live' \subseteq live /\ zombie' \subseteq zombie \cup (live \cap {held})
      /\ kin' \subseteq kin \cup (live \cap {held})
  BY DEF Child, Load, Take, Reply, Fork, Exit, system
<1>4. doing' \in Page \cup {"none", "loading", "idle", "dying"} /\ stdin' \in Seq(Page)
  <2>1. ASSUME Take PROVE Head(stdin) \in Page /\ Tail(stdin) \in Seq(Page)
    BY <1>1, <2>1, HeadTailProperties DEF Take, WorkerTypeOK
  <2>2. CASE Take
    BY <2>1, <2>2 DEF Take
  <2>3. CASE Load \/ Reply \/ Fork \/ Exit
    BY <1>1, <2>3 DEF Load, Reply, Fork, Exit, WorkerTypeOK, channel
  <2>4. QED BY <2>2, <2>3 DEF Child
<1>5. pipe' \in Seq(Frame)
  <2>1. CASE Load
    <3>1. PICK f \in Frame : pipe' = Append(pipe, f)
      BY <2>1, Frames DEF Load, Put
    <3>2. QED BY <1>1, <3>1, AppendProperties DEF WorkerTypeOK
  <2>2. CASE Reply
    <3>1. PICK f \in Frame : pipe' = Append(pipe, f)
      BY <2>2, Frames DEF Reply, Put
    <3>2. QED BY <1>1, <3>1, AppendProperties DEF WorkerTypeOK
  <2>3. CASE Take \/ Fork \/ Exit
    BY <1>1, <2>3 DEF Take, Fork, Exit, WorkerTypeOK, channel
  <2>4. QED BY <2>1, <2>2, <2>3 DEF Child
<1>6. WorkerTypeOK'
  BY <1>1, <1>2, <1>3, <1>4, <1>5 DEF WorkerTypeOK
<1>7. ClientOK' /\ OwnOnly' /\ AcceptedIsOwn'
  BY <1>1, <1>2, <1>3 DEF ClientOK, OwnOnly, AcceptedIsOwn
<1>8. QED BY <1>6, <1>7 DEF WorkerInv

LEMMA StepWorker == WorkerInv /\ [WorkerNext]_workerVars => WorkerInv'
<1> SUFFICES ASSUME WorkerInv, [WorkerNext]_workerVars PROVE WorkerInv'
  OBVIOUS
<1>1. ASSUME NEW p \in Page, RequestSpawn(p) PROVE WorkerInv'
  <2>1. /\ Start(p) /\ held = 0
        /\ UNCHANGED <<again, zombie, kin, stdin, pipe, accepted, bounds>>
    BY <1>1 DEF RequestSpawn
  <2>2. QED BY <2>1, StartMakes
<1>2. ASSUME NEW p \in Page, RequestReuse(p) \/ RequestRespawn(p) PROVE WorkerInv'
  BY <1>2, RequestHolds
<1>3. CASE SpawnFails
  BY <1>3, SpawnFailsHolds
<1>4. CASE ReadReady \/ ReadReply \/ SeeExit
  BY <1>4, ReadHolds
<1>5. CASE AfterExit \/ GiveUp \/ (Close /\ held # 0)
  BY <1>5, KillHolds
<1>6. CASE Respawn
  <2>1. /\ Start(cur) /\ cur \in Page /\ held = 0
        /\ UNCHANGED <<again, zombie, kin, stdin, pipe, accepted, bounds>>
    BY <1>6 DEF Respawn, WorkerInv, ClientOK
  <2>2. QED BY <2>1, StartMakes
<1>7. CASE Interrupt \/ (Close /\ held = 0)
  BY <1>7, LeaveHolds
<1>8. CASE Child
  BY <1>8, ChildHolds
<1>9. CASE UNCHANGED workerVars
  <2>1. /\ parent' = parent /\ cur' = cur /\ again' = again /\ held' = held
        /\ scratchDir' = scratchDir /\ disk' = disk /\ spawned' = spawned /\ live' = live
        /\ zombie' = zombie /\ kin' = kin /\ doing' = doing /\ stdin' = stdin /\ pipe' = pipe
        /\ accepted' = accepted /\ interrupts' = interrupts /\ stuck' = stuck /\ rmFaults' = rmFaults
    BY <1>9 DEF workerVars, client, system, channel, bounds
  <2>2. QED BY <2>1 DEF WorkerInv, WorkerTypeOK, ClientOK, OwnOnly, AcceptedIsOwn
<1>10. QED BY <1>1, <1>2, <1>3, <1>4, <1>5, <1>6, <1>7, <1>8, <1>9 DEF WorkerNext, Request, Wait

THEOREM WorkerIsInductive == WorkerSpec => []WorkerInv
<1>1. QED BY InitWorker, StepWorker, PTL DEF WorkerSpec

-----------------------------------------------------------------------------
(* The theorems.                                                           *)

\* The state of the worker and its client is well typed in every reachable
\* state, the stream of torn frames included.
THEOREM WorkerTypes == WorkerSpec => []WorkerTypeOK
<1>1. WorkerInv => WorkerTypeOK
  BY DEF WorkerInv
<1>2. QED BY <1>1, WorkerIsInductive, PTL

\* Whatever a worker leaves running, after any kill, exit, interrupt or
\* failed removal, belongs to the process that the client holds
\* (process_worker.py:84-86).
THEOREM NothingIsOrphaned == WorkerSpec => []NoOrphan
<1>1. WorkerInv => NoOrphan
  BY DEF WorkerInv, OwnOnly, NoOrphan, Exists
<1>2. QED BY <1>1, WorkerIsInductive, PTL

\* No page is given a reply that was computed for another
\* (paddleocr_vl_backend.py:379-380).
THEOREM RepliesAreOwn == WorkerSpec => []AcceptedIsOwn
<1>1. WorkerInv => AcceptedIsOwn
  BY DEF WorkerInv
<1>2. QED BY <1>1, WorkerIsInductive, PTL

\* A scratch directory goes only when no process is left that could write
\* to it (process_worker.py:84-86).
THEOREM ScratchOutlivesProcesses == WorkerSpec => ScratchAfterDeath
<1>1. WorkerInv /\ [WorkerNext]_workerVars => [\A n \in disk \ disk' : n \notin live' \cup kin']_workerVars
  <2> SUFFICES ASSUME WorkerInv, WorkerNext, NEW n \in disk \ disk'
               PROVE  n \notin live' \cup kin'
    OBVIOUS
  <2>1. CASE Verified
    BY <2>1 DEF Verified, WorkerInv, OwnOnly
  <2>2. CASE ~ Verified
    <3>1. disk \subseteq disk'
      <4>1. Unverified => disk' = disk
        BY DEF Unverified
      <4>2. CASE Request \/ SpawnFails \/ Respawn
        BY <4>2 DEF Request, RequestSpawn, RequestReuse, RequestRespawn, SpawnFails, Respawn, Start, system
      <4>3. CASE ReadReady \/ ReadReply \/ SeeExit \/ Interrupt
        BY <4>3 DEF ReadReady, ReadReply, SeeExit, Interrupt, system
      <4>4. CASE AfterExit \/ GiveUp \/ Close
        BY <2>2, <4>1, <4>4 DEF AfterExit, GiveUp, Close, Terminate
      <4>5. CASE Child
        BY <4>5 DEF Child, Load, Take, Reply, Fork, Exit, system
      <4>6. QED BY <4>2, <4>3, <4>4, <4>5 DEF WorkerNext, Wait
    <3>2. QED BY <3>1
  <2>3. QED BY <2>1, <2>2
<1>2. QED BY <1>1, WorkerIsInductive, PTL DEF WorkerSpec, ScratchAfterDeath
=============================================================================
