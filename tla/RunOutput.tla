------------------------------ MODULE RunOutput ------------------------------
(***************************************************************************)
(* process_file and the files of a run directory: the run lock, the order  *)
(* in which assemble_document and process_file publish document.json,      *)
(* document.md and metadata.json, what a failed run removes, and what is   *)
(* left when a run stops between two writes.                               *)
(*                                                                         *)
(* Every write replaces its file atomically (output_file).  A file is      *)
(* [run, kind]: the run that wrote it, and "draft" (no runtime_seconds     *)
(* yet), "final" or "failed".  A run called with output_dir locks it       *)
(* first; one called with output_root locks the directory named after the  *)
(* input's hash, or a "rejected" directory when the input never got that   *)
(* far.                                                                    *)
(***************************************************************************)
EXTENDS Integers, Sequences, SequencesExt

CONSTANTS
    Run,              \* invocations of process_file
    Rooted,           \* those called with output_root
    Absent,           \* no file, no run
    MaxStops,         \* bound: crashes and KeyboardInterrupts
    MaxFaults,        \* bound: file operations that raise OSError
    MaxUnsafe         \* bound: file operations that raise UnsafeOutputPath

Dir  == {"document", "rejected"}
Name == {"json", "md", "metadata"}
File == [run : Run, kind : {"draft", "final", "failed"}]

ASSUME OutputAssumption ==
    /\ Rooted \subseteq Run /\ Absent \notin Run \cup Dir \cup File
    /\ {MaxStops, MaxFaults, MaxUnsafe} \subseteq Nat

VARIABLES
    files,     \* directory -> name -> file
    lock,      \* holder of each directory's .run.lock
    at,        \* where each run stands
    dir,       \* its output_dir, Absent until it is known
    torn,      \* directories whose last run could not clean up
    stops, faults, unsafes

vars == <<files, lock, at, dir, torn, stops, faults, unsafes>>

\* what a run does while it holds its lock, in order
Writes == <<"document.json", "document.md", "metadata.json", "check",
            "metadata.json again", "document.json again", "diagnostics">>
Other == {"check", "diagnostics"}       \* these touch none of the three files
Cleanup == {"unpublish json", "unpublish md", "metadata failed"}
Places == {"new", "preflight", "hashed", "work", "failing", "done", "failed",
           "refused", "unsafe", "aborted"} \cup ToSet(Writes) \cup Cleanup
Over == {"done", "failed", "refused", "unsafe", "aborted"}

Owns(r) == dir[r] # Absent /\ lock[dir[r]] = r

Init ==
    /\ files = [d \in Dir |-> [n \in Name |-> Absent]]
    /\ lock = [d \in Dir |-> Absent]
    /\ at = [r \in Run |-> "new"] /\ dir = [r \in Run |-> Absent]
    /\ torn = {} /\ stops = 0 /\ faults = 0 /\ unsafes = 0

Go(r, place) == at' = [at EXCEPT ![r] = place]

\* resources.close(): the lock goes however the run ends
Release(r) == lock' = [d \in Dir |-> IF lock[d] = r THEN Absent ELSE lock[d]]
Quiet == UNCHANGED <<stops, faults, unsafes>>

\* run_lock: the run owns d, or is refused without having written anything;
\* a refused run closes what it holds
TakeLock(r, d, next) ==
    IF lock[d] = Absent
    THEN Go(r, next) /\ lock' = [lock EXCEPT ![d] = r]
    ELSE Go(r, "refused") /\ UNCHANGED lock

Begin(r) ==
    /\ at[r] = "new"
    /\ IF r \in Rooted THEN Go(r, "preflight") /\ UNCHANGED <<dir, lock>>
       ELSE dir' = [dir EXCEPT ![r] = "document"] /\ TakeLock(r, "document", "preflight")
    /\ UNCHANGED <<files, torn>> /\ Quiet

\* snapshot, limits, hash: the directory of a rooted run is known afterwards
Preflight(r) ==
    /\ at[r] = "preflight"
    /\ \/ IF r \in Rooted
          THEN dir' = [dir EXCEPT ![r] = "document"] /\ TakeLock(r, "document", "work")
          ELSE Go(r, "work") /\ UNCHANGED <<dir, lock>>
       \/ Go(r, "failing") /\ UNCHANGED <<dir, lock>>
    /\ UNCHANGED <<files, torn>> /\ Quiet

\* routing and extraction, which write nothing of the publication
Work(r) ==
    /\ at[r] = "work"
    /\ Go(r, "document.json") \/ Go(r, "failing")
    /\ UNCHANGED <<files, lock, dir, torn>> /\ Quiet

(***************************************************************************)
(* Publication.                                                            *)
(***************************************************************************)
Target(place) == CASE place \in {"document.json", "document.json again"} -> "json"
                   [] place = "document.md" -> "md"
                   [] OTHER -> "metadata"
Kind(place) == IF place \in {"metadata.json again", "document.json again"}
               THEN "final" ELSE "draft"
Store(r, n, f) == files' = [files EXCEPT ![dir[r]][n] = f]

Finish(r, place) ==
    Go(r, place) /\ Release(r) /\ torn' = torn \ {dir[r]}

\* the order of the writes; the slip keeps what assemble_document wrote
BugFollowing(i) == IF Writes[i] = "check" THEN Len(Writes) ELSE i + 1
Following(i) == i + 1

Publish(r) ==
    \E i \in DOMAIN Writes :
        /\ at[r] = Writes[i]
        /\ IF at[r] \in Other THEN UNCHANGED files
           ELSE Store(r, Target(at[r]), [run |-> r, kind |-> Kind(at[r])])
        /\ IF i = Len(Writes) THEN Finish(r, "done")
           ELSE Go(r, Writes[Following(i)]) /\ UNCHANGED <<lock, torn>>
        /\ UNCHANGED dir /\ Quiet

\* the deadline is found passed, once the document has been published
CheckFails(r) ==
    /\ at[r] = "check" /\ Go(r, "failing")
    /\ UNCHANGED <<files, lock, dir, torn>> /\ Quiet

WriteFaults(r) ==
    /\ at[r] \in ToSet(Writes) \ {"check"}
    /\ faults < MaxFaults /\ faults' = faults + 1 /\ Go(r, "failing")
    /\ UNCHANGED <<files, lock, dir, torn, stops, unsafes>>

(***************************************************************************)
(* The except block: own a directory, unpublish, record the failure.       *)
(***************************************************************************)
BugFail(r) ==
    /\ at[r] = "failing"
    /\ dir' = [dir EXCEPT ![r] = IF @ = Absent THEN "rejected" ELSE @]
    /\ Go(r, "unpublish json") /\ UNCHANGED <<files, torn, lock>> /\ Quiet
Fail(r) ==
    /\ at[r] = "failing"
    /\ dir' = [dir EXCEPT ![r] = IF @ = Absent THEN "rejected" ELSE @]
    /\ IF Owns(r) THEN Go(r, "unpublish json") /\ UNCHANGED lock
       ELSE TakeLock(r, dir'[r], "unpublish json")
    /\ UNCHANGED <<files, torn>> /\ Quiet

Unpublish(r) ==
    /\ at[r] \in {"unpublish json", "unpublish md"}
    /\ LET n == IF at[r] = "unpublish json" THEN "json" ELSE "md" IN
       Store(r, n, Absent)
    /\ Go(r, IF at[r] = "unpublish json" THEN "unpublish md" ELSE "metadata failed")
    /\ UNCHANGED <<lock, dir, torn>> /\ Quiet

RecordFailure(r) ==
    /\ at[r] = "metadata failed"
    /\ Store(r, "metadata", [run |-> r, kind |-> "failed"])
    /\ Finish(r, "failed")
    /\ UNCHANGED dir /\ Quiet

\* the cleanup itself raises
CleanupFaults(r) ==
    /\ at[r] \in Cleanup /\ faults < MaxFaults /\ faults' = faults + 1
    /\ Go(r, "failed") /\ Release(r) /\ torn' = torn \cup {dir[r]}
    /\ UNCHANGED <<files, dir, stops, unsafes>>

\* UnsafeOutputPath is raised again as it is, also that of a log, an image or
\* an intermediate file during the work: nothing is removed or recorded
Unsafe(r) ==
    /\ at[r] \in (ToSet(Writes) \ {"check"}) \cup Cleanup \cup {"work"}
    /\ unsafes < MaxUnsafe /\ unsafes' = unsafes + 1
    /\ Go(r, "unsafe") /\ Release(r) /\ torn' = torn \cup {dir[r]}
    /\ UNCHANGED <<files, dir, stops, faults>>

\* the process dies, or a KeyboardInterrupt passes the except clauses: the
\* lock goes, the files stay
Stop(r) ==
    /\ at[r] \notin Over \cup {"new"} /\ stops < MaxStops /\ stops' = stops + 1
    /\ Go(r, "aborted") /\ Release(r)
    /\ torn' = IF Owns(r) THEN torn \cup {dir[r]} ELSE torn
    /\ UNCHANGED <<files, dir, faults, unsafes>>

Step(r) == \/ Begin(r) \/ Preflight(r) \/ Work(r) \/ Publish(r) \/ CheckFails(r)
           \/ WriteFaults(r) \/ Fail(r) \/ Unpublish(r) \/ RecordFailure(r)
           \/ CleanupFaults(r) \/ Unsafe(r)
Next == \E r \in Run : Step(r) \/ Stop(r)
Spec == Init /\ [][Next]_vars

(***************************************************************************)
(* Properties.                                                             *)
(***************************************************************************)
\* The lock of a directory is held by a run that works in it.
TypeOK ==
    /\ files \in [Dir -> [Name -> File \cup {Absent}]]
    /\ lock \in [Dir -> Run \cup {Absent}]
    /\ at \in [Run -> Places] /\ dir \in [Run -> Dir \cup {Absent}]
    /\ torn \subseteq Dir
    /\ \A d \in Dir, r \in Run : lock[d] = r => dir[r] = d /\ at[r] \notin Over
    /\ stops \in 0..MaxStops /\ faults \in 0..MaxFaults /\ unsafes \in 0..MaxUnsafe

\* Whatever earlier runs left, a directory whose last run could clean up
\* after itself holds either one whole success, the same run in all three
\* files, or a failure and no document (cli.py:465-469, 494-497).
WholeOrNothing ==
    \A d \in Dir : lock[d] = Absent /\ d \notin torn =>
        LET f == files[d] IN
        \/ \A n \in Name : f[n] = Absent
        \/ f["json"] = Absent /\ f["md"] = Absent /\ f["metadata"].kind = "failed"
        \/ /\ f["json"].kind = "final" /\ f["metadata"] = f["json"]
           /\ f["md"] # Absent /\ f["md"].run = f["json"].run

\* Only the holder of a directory's lock changes its files: a competing
\* writer is rejected without writing (cli.py:362-363).
OneWriter ==
    [][\A d \in Dir : files'[d] # files[d] =>
          \E r \in Run : lock[d] = r /\ dir[r] = d]_vars
=============================================================================
