---------------------------- MODULE FetchPromise ----------------------------
(***************************************************************************)
(* What CrawlEngine._fetch and RobotsCache._load rely on from a call of    *)
(* HttpFetcher.fetch: it asks only URLs the policy admits, never leaves    *)
(* TLS once it started with it, and while it runs or when it has returned  *)
(* a result at most one body is the caller's to discard or to keep; a call *)
(* that raises leaves none.                                                *)
(***************************************************************************)
CONSTANTS Url, Admitted, Secure
VARIABLES start, asked, holds, outcome

Init ==
    /\ start \in Url /\ asked = {} /\ holds = FALSE /\ outcome = "running"

Ask(u) ==
    /\ outcome = "running" /\ ~holds /\ u \in Admitted
    /\ start \in Secure => u \in Secure
    /\ asked' = asked \cup {u} /\ UNCHANGED <<start, holds, outcome>>

Take ==
    /\ outcome = "running" /\ asked # {} /\ holds' = TRUE
    /\ UNCHANGED <<start, asked, outcome>>

Drop ==
    /\ outcome = "running" /\ holds' = FALSE /\ UNCHANGED <<start, asked, outcome>>

Deliver ==
    /\ outcome = "running" /\ holds /\ outcome' = "result"
    /\ UNCHANGED <<start, asked, holds>>

Raise(o) ==
    /\ outcome = "running" /\ outcome' = o /\ holds' = FALSE
    /\ UNCHANGED <<start, asked>>

Next == \/ Take \/ Drop \/ Deliver
        \/ \E u \in Admitted : Ask(u)
        \/ \E o \in {"error", "budget", "cancelled", "internal"} : Raise(o)

Spec == Init /\ [][Next]_<<start, asked, holds, outcome>>
==============================================================================
