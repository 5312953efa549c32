------------------------------ MODULE Listings -------------------------------
(***************************************************************************)
(* The rows that running jobs leave in SQLiteRepository (repository.py)    *)
(* and the listings of the API over them (api.py), read page by page while *)
(* the jobs go on, or die between two transactions.                        *)
(*                                                                         *)
(* A table is the sequence of its rows by rowid.  A row of "resources" is  *)
(* [id, job, body]: body is the artifact of an acquired resource.  A row   *)
(* of "attempts" or "discoveries" names its resource.  The client asks for *)
(* Limit rows from the offset it has reached, until a page is short; the   *)
(* API leaves that to it.                                                  *)
(***************************************************************************)
EXTENDS Integers, FiniteSets, Sequences, SequencesExt

CONSTANTS
    Job, Resource,
    Digest,          \* digests: the ids of artifacts, in the order of text
    Nothing,         \* no resource, no artifact
    Limit,           \* the rows of a page
    MaxAttempts,     \* bound: attempts of all jobs
    MaxDiscoveries   \* bound: discoveries of all jobs

ASSUME ListingsAssumption ==
    /\ Nothing \notin Resource \cup Digest /\ Digest \subseteq Nat /\ Limit \in Nat \ {0}
    /\ {MaxAttempts, MaxDiscoveries} \subseteq Nat

VARIABLES
    resources, attempts, discoveries,   \* tables
    artifacts, acquisitions,            \* ids; [resource, body] with resource as the key
    saving,    \* the resource whose discovery a job has still to save
    pass       \* the client's reading of one listing

db == <<resources, attempts, discoveries, artifacts, acquisitions>>
listVars == <<resources, attempts, discoveries, artifacts, acquisitions, saving, pass>>

ListInit ==
    /\ resources = <<>> /\ attempts = <<>> /\ discoveries = <<>>
    /\ artifacts = {} /\ acquisitions = {}
    /\ saving = [j \in Job |-> Nothing]
    /\ pass = [at |-> "idle"]

Ids(rows) == {rows[i].id : i \in DOMAIN rows}
At(rows, j) == {i \in DOMAIN rows : rows[i].job = j}
Of(rows, j) == {rows[i].id : i \in At(rows, j)}

\* INSERT ... ON CONFLICT(id) DO UPDATE: a known row keeps its rowid
BugUpsert(rows, row) == Append(SelectSeq(rows, LAMBDA old : old.id # row.id), row)
Upsert(rows, row) ==
    IF row.id \in Ids(rows)
    THEN [i \in DOMAIN rows |-> IF rows[i].id = row.id THEN row ELSE rows[i]]
    ELSE Append(rows, row)

-----------------------------------------------------------------------------
(* The jobs.  Each transaction is a step: another process that has the     *)
(* same file open may read between any two.  A job whose process died is   *)
(* one that takes no further step.                                         *)
Writes(j) == saving[j] = Nothing

BodyOf(r) == IF \E a \in acquisitions : a.resource = r
             THEN (CHOOSE a \in acquisitions : a.resource = r).body ELSE Nothing

\* discover: the resource, new or seen again, then the discovery
SaveResource(j, r) ==
    /\ Writes(j) /\ Len(discoveries) < MaxDiscoveries
    /\ r \notin UNION {Of(resources, k) : k \in Job \ {j}}
    /\ resources' = Upsert(resources, [id |-> r, job |-> j, body |-> BodyOf(r)])
    /\ saving' = [saving EXCEPT ![j] = r]
    /\ UNCHANGED <<attempts, discoveries, artifacts, acquisitions, pass>>
SaveDiscovery(j) ==
    /\ saving[j] # Nothing
    /\ discoveries' = Append(discoveries,
                             [id |-> Len(discoveries) + 1, job |-> j, resource |-> saving[j]])
    /\ saving' = [saving EXCEPT ![j] = Nothing]
    /\ UNCHANGED <<resources, attempts, artifacts, acquisitions, pass>>

\* save_attempt at the start of an attempt, and at its end
StartAttempt(j, r) ==
    /\ Writes(j) /\ r \in Of(resources, j) /\ BodyOf(r) = Nothing /\ Len(attempts) < MaxAttempts
    /\ attempts' = Upsert(attempts, [id |-> Len(attempts) + 1, job |-> j, resource |-> r, done |-> FALSE])
    /\ UNCHANGED <<resources, discoveries, artifacts, acquisitions, saving, pass>>
EndAttempt(j, i) ==
    /\ Writes(j) /\ attempts[i].job = j /\ ~ attempts[i].done
    /\ attempts' = Upsert(attempts, [attempts[i] EXCEPT !.done = TRUE])
    /\ UNCHANGED <<resources, discoveries, artifacts, acquisitions, saving, pass>>

\* publish, one transaction
BugCited(r, b) == IF b \in artifacts THEN {} ELSE {[resource |-> r, body |-> b]}
Cited(r, b) == {[resource |-> r, body |-> b]}
PublishArtifact(j, r, b) ==
    /\ Writes(j) /\ r \in Of(resources, j) /\ BodyOf(r) = Nothing
    /\ artifacts' = artifacts \cup {b}
    /\ acquisitions' = acquisitions \cup Cited(r, b)
    /\ resources' = Upsert(resources, [id |-> r, job |-> j, body |-> b])
    /\ UNCHANGED <<attempts, discoveries, saving, pass>>

-----------------------------------------------------------------------------
\* ORDER BY: the numbers of a set, from the least up.
Nth(S, k) == CHOOSE i \in S : Cardinality({m \in S : m < i}) = k - 1
Rising(S) == [k \in 1..Cardinality(S) |-> Nth(S, k)]

\* resources, attempts, discoveries: WHERE job=? ORDER BY rowid
RowsOf(rows, j) == LET order == Rising(At(rows, j)) IN [k \in DOMAIN order |-> rows[order[k]]]
Tables == [resources |-> resources, attempts |-> attempts, discoveries |-> discoveries]

\* artifacts: SELECT DISTINCT ... ORDER BY a.id
Acquired(j) == {a.body : a \in {a \in acquisitions : a.resource \in Of(resources, j)}} \cap artifacts
Kinds == DOMAIN Tables \cup {"artifacts"}
Listing(kind, j) ==
    IF kind = "artifacts"
    THEN LET order == Rising(Acquired(j)) IN [k \in DOMAIN order |-> [id |-> order[k]]]
    ELSE RowsOf(Tables[kind], j)

\* LIMIT ? OFFSET ?
PageAt(rows, offset) == SubSeq(rows, offset + 1, Min({offset + Limit, Len(rows)}))

BeginReading(kind, j) ==
    /\ pass.at = "idle"
    /\ pass' = [at |-> "reading", kind |-> kind, job |-> j, got |-> <<>>,
                before |-> Ids(Listing(kind, j))]
    /\ UNCHANGED <<db, saving>>
Ask ==
    /\ pass.at = "reading"
    /\ LET page == PageAt(Listing(pass.kind, pass.job), Len(pass.got))
       IN  pass' = [pass EXCEPT !.got = @ \o page,
                                !.at = IF Len(page) < Limit THEN "read" ELSE "reading"]
    /\ UNCHANGED <<db, saving>>
Forget ==
    /\ pass.at = "read" /\ pass' = [at |-> "idle"]
    /\ UNCHANGED <<db, saving>>

ListNext ==
    \/ \E j \in Job : \/ SaveDiscovery(j)
                      \/ \E r \in Resource : SaveResource(j, r) \/ StartAttempt(j, r)
                      \/ \E i \in DOMAIN attempts : EndAttempt(j, i)
                      \/ \E r \in Resource, b \in Digest : PublishArtifact(j, r, b)
    \/ \E kind \in Kinds, j \in Job : BeginReading(kind, j)
    \/ Ask \/ Forget

ListSpec == ListInit /\ [][ListNext]_listVars

-----------------------------------------------------------------------------
(* What a client has read of a table is, at every moment, how the table    *)
(* begins: no row twice, none out of order, none of another job, although  *)
(* rows are added and rewritten between its pages.  A finished reading of  *)
(* any listing has all that was there when it began; an artifact can come  *)
(* twice, but only if the job published one with a smaller digest since.   *)
(* (save_resource, save_attempt, the four queries; listing in api.py.)     *)
PassIsWhole ==
    pass.at # "idle" =>
        LET got == [i \in DOMAIN pass.got |-> pass.got[i].id]
            all == Listing(pass.kind, pass.job)
            new == Ids(all) \ pass.before
        IN  /\ pass.at = "read" => pass.before \subseteq ToSet(got)
            /\ ToSet(got) \subseteq Ids(all)
            /\ pass.kind # "artifacts" => IsPrefix(got, [i \in DOMAIN all |-> all[i].id])
            /\ \A i, k \in DOMAIN got : i < k /\ got[i] = got[k] =>
                  pass.kind = "artifacts" /\ \E b \in new : b < got[i]

(* What a row or a page names is there, whenever a job dies: the resource  *)
(* of an attempt or a discovery, in the same job; the artifact of an       *)
(* acquired resource, among those of its job, also when another job stored *)
(* it first; and a resource has its discovery, unless its job stands, or   *)
(* died, between the two.  (discover, publish.)                            *)
Discovered(r) == \E i \in DOMAIN discoveries : discoveries[i].resource = r
NamesResolve ==
    /\ \A row \in ToSet(attempts) \cup ToSet(discoveries) : row.resource \in Of(resources, row.job)
    /\ \A row \in ToSet(resources) :
          /\ row.body # Nothing => row.body \in Acquired(row.job)
          /\ Discovered(row.id) \/ saving[row.job] = row.id
    /\ pass.at # "idle" /\ pass.kind = "resources" =>
          \A row \in ToSet(pass.got) : row.body # Nothing => row.body \in Acquired(pass.job)
=============================================================================
