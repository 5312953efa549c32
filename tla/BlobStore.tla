------------------------------ MODULE BlobStore ------------------------------
(***************************************************************************)
(* What the artifact store and its repository promise together: bodies are *)
(* stored whole, a body is cited only once it is stored, and whatever stops *)
(* the service loses at most bodies that nothing cites.                    *)
(***************************************************************************)
CONSTANT Content
VARIABLES stored, cited

Init == stored = {} /\ cited = {}

Store(c) == stored' = stored \cup {c} /\ UNCHANGED cited

Cite(c) == c \in stored /\ cited' = cited \cup {c} /\ UNCHANGED stored

\* a crash, or a power cut: uncited bodies may be gone
Lose == stored' \in SUBSET stored /\ cited \subseteq stored' /\ UNCHANGED cited

Next == Lose \/ \E c \in Content : Store(c) \/ Cite(c)

Spec == Init /\ [][Next]_<<stored, cited>>

\* Nothing is cited that is not stored.
CitedIsStored == cited \subseteq stored
==============================================================================
