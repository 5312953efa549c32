------------------------------ MODULE HttpFetch ------------------------------
(***************************************************************************)
(* One call of HttpFetcher.fetch (services/web-acquisition): retries of a  *)
(* chain of redirects, each hop one attempt with a row of its own, one     *)
(* exchange and one body in .pending.                                      *)
(*                                                                         *)
(* at is the await the coroutine stands at; "hop", "open", "settle" and    *)
(* "decide" are the stretches of code in between, which nothing else can   *)
(* interrupt.  A cancellation, a timeout or another task's spending of the *)
(* job's byte budget may come at every await.                              *)
(***************************************************************************)
EXTENDS Integers

CONSTANTS
    Url, Secure,     \* normalized URLs, those of scheme https
    Admitted,        \* those PolicyEngine.check and validate_url pass
    None,
    MaxRetries, MaxRedirects,
    MaxBody,         \* maximum, in pieces
    MaxTotal,        \* ByteBudget.maximum, in pieces
    MaxCancels, MaxFaults

ASSUME FetchAssumption ==
    /\ Secure \subseteq Url /\ Admitted \subseteq Url /\ None \notin Url
    /\ {MaxRetries, MaxRedirects, MaxBody, MaxTotal, MaxCancels, MaxFaults}
         \subseteq Nat

Exchange  == {"headers", "body", "closing"}
InAttempt == {"slots", "connect", "settle"} \cup Exchange
Awaits    == {"authorize", "slots", "connect", "asleep"} \cup Exchange
Places    == {"hop", "open", "decide", "over"} \cup InAttempt \cup Awaits

\* codes by what fetch does with them: "network" stands for network_error and
\* request_timeout, which are retried; "error" for every other AcquisitionError
Outcomes == {"running", "result", "error", "budget", "cancelled", "internal"}
Endings  == {"none", "completed", "network", "error", "budget", "cancelled"}
Attempts == 1..((MaxRetries + 1) * (MaxRedirects + 1))
RowStatus == {"absent", "started", "received", "failed", "cancelled"}

\* response classes fetch tells apart
Response == [kind : {"none", "redirect", "busy", "other"}, location : Url \cup {None}]
NoResponse == [kind |-> "none", location |-> None]

VARIABLES
    at, robots,      \* robots: a load of robots.txt, which needs no authorization
    start, current,  \* the URL asked for, the URL of this hop
    retry, hop, seen,
    attempt,         \* number of attempts so far; also names the current one
    row,             \* FetchAttempt.status in the attempts table
    ending,          \* what the exchange ends with
    response,
    size, used,      \* pieces of the body; ByteBudget.used
    overran,         \* JobBudgetExceeded was raised in this call
    asked,           \* URLs a request was made for
    pending,         \* attempts whose body is a file of .pending
    lost, unsaved,   \* attempts whose discard, whose last save_attempt raised
    outcome, cancels, faults

where  == <<at, robots, start, current, retry, hop, seen>>
table  == <<attempt, row, unsaved>>
wire   == <<response, size, asked>>
budget == <<used, overran>>
bodies == <<pending, lost>>
bounds == <<cancels, faults>>
vars   == <<where, table, ending, wire, budget, bodies, outcome, bounds>>

Init ==
    /\ at = "hop" /\ robots \in BOOLEAN
    /\ start \in Url /\ current = start
    /\ retry = 0 /\ hop = 0 /\ seen = {}
    /\ attempt = 0 /\ row = [a \in Attempts |-> "absent"] /\ unsaved = {}
    /\ ending = "none" /\ response = NoResponse /\ size = 0 /\ asked = {}
    /\ used = 0 /\ overran = FALSE /\ pending = {} /\ lost = {}
    /\ outcome = "running" /\ cancels = 0 /\ faults = 0

(***************************************************************************)
(* Operators named Bug... are plausible slips in the code; each replaces   *)
(* the definition that follows it to show that a property can fail.        *)
(***************************************************************************)
Go(place) == at' = place
End(o) == at' = "over" /\ outcome' = o
Fault == faults < MaxFaults /\ faults' = faults + 1

\* Download.discard() of the current body, which may raise an OSError after
\* the handle counts as closed; then(raised) is what the caller does next
Discard(then(_)) ==
    \/ /\ pending' = pending \ ({attempt} \ lost) /\ then(FALSE)
       /\ UNCHANGED <<lost, faults>>
    \/ /\ attempt \in pending \ lost /\ Fault /\ lost' = lost \cup {attempt}
       /\ then(TRUE) /\ UNCHANGED pending

(***************************************************************************)
(* fetch: the hop, the decision about its answer, the retry.               *)
(***************************************************************************)
\* a redirect loop, a URL outside the policy, then the robots rules
Hop ==
    /\ at = "hop"
    /\ IF current \in seen \/ current \notin Admitted
       THEN End("error") /\ UNCHANGED seen
       ELSE /\ Go(IF robots THEN "open" ELSE "authorize")
            /\ seen' = seen \cup {current} /\ UNCHANGED outcome
    /\ UNCHANGED <<robots, start, current, retry, hop, table, ending, wire,
                   budget, bodies, bounds>>

\* RobotsCache.authorize returns, refuses, or its own load overran the budget
Authorized ==
    /\ at = "authorize"
    /\ \/ Go("open") /\ UNCHANGED <<outcome, overran>>
       \/ End("error") /\ UNCHANGED overran
       \/ used = MaxTotal /\ End("budget") /\ overran' = TRUE
    /\ UNCHANGED <<robots, start, current, retry, hop, seen, table, ending,
                   wire, used, bodies, bounds>>

\* the first save_attempt
Open ==
    /\ at = "open" /\ attempt' = attempt + 1
    /\ ending' = "none" /\ response' = NoResponse /\ size' = 0
    /\ \/ /\ row' = [row EXCEPT ![attempt'] = "started"] /\ Go("slots")
          /\ UNCHANGED <<outcome, faults>>
       \/ Fault /\ End("internal") /\ UNCHANGED row
    /\ UNCHANGED <<robots, start, current, retry, hop, seen, unsaved, asked,
                   budget, bodies, cancels>>

BugStatusOf(e) == IF e = "completed" THEN "received"
                  ELSE IF e = "cancelled" THEN "started" ELSE "failed"
StatusOf(e) == CASE e = "completed" -> "received"
                 [] e = "cancelled" -> "cancelled"
                 [] OTHER -> "failed"

\* _attempt's finally block: save_attempt again; when it raises, the result
\* of a completed exchange, and its body, reach nobody
Settle ==
    /\ at = "settle"
    /\ \/ /\ row' = [row EXCEPT ![attempt] = StatusOf(ending)] /\ Go("decide")
          /\ UNCHANGED <<unsaved, lost, outcome, faults>>
       \/ /\ Fault /\ unsaved' = unsaved \cup {attempt}
          /\ lost' = lost \cup (pending \cap {attempt})
          /\ End("internal") /\ UNCHANGED row
    /\ UNCHANGED <<robots, start, current, retry, hop, seen, attempt, ending,
                   wire, budget, pending, cancels>>

\* the target of a redirect may be asked next
BugFollows(u) == u # None /\ hop < MaxRedirects
Follows(u) ==
    /\ u # None /\ hop < MaxRedirects
    /\ start \in Secure => u \in Secure

\* a redirect: the body is discarded before the target is looked at
Redirect ==
    /\ at = "decide" /\ ending = "completed" /\ response.kind = "redirect"
    /\ Discard(LAMBDA raised :
         IF raised THEN End("internal") /\ UNCHANGED <<current, hop>>
         ELSE IF Follows(response.location)
         THEN /\ Go("hop") /\ hop' = hop + 1 /\ current' = response.location
              /\ UNCHANGED outcome
         ELSE End("error") /\ UNCHANGED <<current, hop>>)
    /\ UNCHANGED <<robots, start, retry, seen, table, ending, wire, budget,
                   cancels>>

MayRetry == retry < MaxRetries

\* 429, 502, 503, 504
Busy ==
    /\ at = "decide" /\ ending = "completed" /\ response.kind = "busy" /\ MayRetry
    /\ Discard(LAMBDA raised :
         IF raised THEN End("internal") ELSE Go("asleep") /\ UNCHANGED outcome)
    /\ UNCHANGED <<robots, start, current, retry, hop, seen, table, ending, wire,
                   budget, cancels>>

\* the last retry answered as busy is still an answer (the wrong variant first)
BugReturn ==
    /\ at = "decide" /\ ending = "completed" /\ response.kind = "other"
    /\ End("result")
    /\ UNCHANGED <<robots, start, current, retry, hop, seen, table, ending, wire,
                   budget, bodies, bounds>>
Return ==
    /\ at = "decide" /\ ending = "completed"
    /\ \/ response.kind = "other"
       \/ response.kind = "busy" /\ ~MayRetry
    /\ End("result")
    /\ UNCHANGED <<robots, start, current, retry, hop, seen, table, ending, wire,
                   budget, bodies, bounds>>

\* the exchange raised: a network failure is retried, anything else is not
Raised ==
    /\ at = "decide" /\ ending # "completed"
    /\ IF ending = "network" /\ MayRetry THEN Go("asleep") /\ UNCHANGED outcome
       ELSE End(IF ending = "network" THEN "error" ELSE ending)
    /\ UNCHANGED <<robots, start, current, retry, hop, seen, table, ending, wire,
                   budget, bodies, bounds>>

Wake ==
    /\ at = "asleep" /\ Go("hop")
    /\ retry' = retry + 1 /\ hop' = 0 /\ seen' = {} /\ current' = start
    /\ UNCHANGED <<robots, start, table, ending, wire, budget, bodies, outcome,
                   bounds>>

(***************************************************************************)
(* _attempt and _request: the slots, one exchange, the closing of the      *)
(* connection.                                                             *)
(***************************************************************************)
\* host_slots and Scheduler.slot are granted
GetSlots ==
    /\ at = "slots" /\ Go("connect")
    /\ UNCHANGED <<robots, start, current, retry, hop, seen, table, ending, wire,
                   budget, bodies, outcome, bounds>>

\* the name is resolved, its addresses are checked, the connection stands and
\* the request is sent; or not, and nothing has to be closed
Connect ==
    /\ at = "connect"
    /\ \/ Go("headers") /\ asked' = asked \cup {current} /\ UNCHANGED ending
       \/ Go("settle") /\ ending' \in {"network", "error"} /\ UNCHANGED asked
    /\ UNCHANGED <<robots, start, current, retry, hop, seen, table, response,
                   size, budget, bodies, outcome, bounds>>

\* ByteBudget.consume
Spend == IF used < MaxTotal THEN used' = used + 1 /\ UNCHANGED overran
         ELSE overran' = TRUE /\ UNCHANGED used

\* a response whose headers pass, and the file of its body is made; or one
\* that is refused, or a peer that fails, or a file that cannot be made
Headers ==
    /\ at = "headers"
    /\ \/ /\ Spend /\ used' # used /\ \E r \in Response :
               r.kind # "none" /\ response' = r
          /\ Go("body") /\ pending' = pending \cup {attempt} /\ UNCHANGED <<ending, faults>>
       \/ /\ Spend /\ Go("closing")
          /\ ending' = (IF used' = used THEN "budget" ELSE "error")
          /\ UNCHANGED <<response, pending, faults>>
       \/ /\ Go("closing") /\ ending' \in {"network", "error"}
          /\ UNCHANGED <<response, budget, pending, faults>>
       \/ /\ Spend /\ used' # used /\ Fault /\ Go("closing") /\ ending' = "network"
          /\ UNCHANGED <<response, pending>>
    /\ UNCHANGED <<robots, start, current, retry, hop, seen, table, size, asked,
                   lost, outcome, cancels>>

\* the handlers of _request that discard the body and raise; a discard that
\* raises an OSError itself replaces what was raised by a network_error
Fail(e) ==
    /\ Go("closing")
    /\ Discard(LAMBDA raised : ending' = IF raised THEN "network" ELSE e)

\* a piece arrives and is counted; it overruns the budget, is one too many,
\* cannot be written, or is written
Piece ==
    /\ at = "body" /\ Spend
    /\ CASE used' = used -> Fail("budget") /\ UNCHANGED size
         [] used' # used /\ size = MaxBody -> Fail("error") /\ UNCHANGED size
         [] OTHER -> \/ /\ size' = size + 1
                        /\ UNCHANGED <<at, ending, bodies, faults>>
                     \/ /\ Fault /\ Go("closing") /\ ending' = "network"
                        /\ \/ pending' = pending \ {attempt} /\ UNCHANGED lost
                           \/ lost' = lost \cup {attempt} /\ UNCHANGED pending
                        /\ UNCHANGED size
    /\ UNCHANGED <<robots, start, current, retry, hop, seen, table, response,
                   asked, outcome, cancels>>

\* the peer fails or sends what is not a body
Broken ==
    /\ at = "body" /\ \E e \in {"network", "error"} : Fail(e)
    /\ UNCHANGED <<robots, start, current, retry, hop, seen, table, wire, budget,
                   outcome, cancels>>

\* the end of the message: the result is kept until the connection is closed
Complete ==
    /\ at = "body" /\ Go("closing") /\ ending' = "completed"
    /\ UNCHANGED <<robots, start, current, retry, hop, seen, table, wire, budget,
                   bodies, outcome, bounds>>

\* writer.wait_closed() returns, fails, or its second is over
Closed ==
    /\ at = "closing" /\ Go("settle")
    /\ UNCHANGED <<robots, start, current, retry, hop, seen, table, ending, wire,
                   budget, bodies, outcome, bounds>>

(***************************************************************************)
(* A CancelledError at an await: a cancellation, or the timeout of the     *)
(* exchange (asyncio.timeout), which turns it into a TimeoutError.         *)
(***************************************************************************)
\* delivered at wait_closed it replaces whatever _request was raising, and a
\* completed result still belongs to _request.  A timeout does not take the
\* place of a cancellation.
BugAtClosing(e) ==
    /\ at = "closing" /\ Go("settle")
    /\ IF ending = "cancelled" THEN UNCHANGED ending ELSE ending' = e
    /\ UNCHANGED <<bodies, faults>>
AtClosing(e) ==
    /\ at = "closing" /\ Go("settle")
    /\ Discard(LAMBDA raised :
         ending' = IF raised THEN "network"
                   ELSE IF ending = "cancelled" THEN "cancelled" ELSE e)

InExchange(e) ==
    \/ at = "connect" /\ Go("settle") /\ ending' = e /\ UNCHANGED <<bodies, faults>>
    \/ at = "headers" /\ Go("closing") /\ ending' = e /\ UNCHANGED <<bodies, faults>>
    \/ at = "body" /\ Fail(e)
    \/ AtClosing(e)

\* connect_timeout, read_timeout or request_timeout
TimeOut ==
    /\ InExchange("network")
    /\ UNCHANGED <<robots, start, current, retry, hop, seen, table, wire, budget,
                   outcome, cancels>>

Cancel ==
    /\ at \in Awaits /\ cancels < MaxCancels /\ cancels' = cancels + 1
    /\ \/ /\ at \in {"authorize", "asleep"} /\ End("cancelled")
          /\ UNCHANGED <<ending, bodies, faults>>
       \/ /\ at = "slots" /\ Go("settle") /\ ending' = "cancelled"
          /\ UNCHANGED <<outcome, bodies, faults>>
       \/ InExchange("cancelled") /\ UNCHANGED outcome
    /\ UNCHANGED <<robots, start, current, retry, hop, seen, table, wire, budget>>

\* another fetch of the job counts a piece
OthersSpend ==
    /\ at \in Awaits /\ used < MaxTotal /\ used' = used + 1
    /\ UNCHANGED <<where, table, ending, wire, overran, bodies, outcome, bounds>>

Decide == Redirect \/ Busy \/ Return \/ Raised
Answer == Headers \/ Piece \/ Broken \/ Complete
Progress == \/ Hop \/ Authorized \/ Open \/ GetSlots \/ Connect \/ Answer
            \/ Closed \/ Settle \/ Decide \/ Wake
Next == Progress \/ TimeOut \/ Cancel \/ OthersSpend
Spec == Init /\ [][Next]_vars

\* The event loop resumes the call, each await of the exchange has a timeout,
\* and HostScheduler shows that slots are granted.
FairSpec == Spec /\ WF_vars(Progress \/ TimeOut)

(***************************************************************************)
(* Properties.                                                             *)
(***************************************************************************)
TypeOK ==
    /\ at \in Places /\ robots \in BOOLEAN
    /\ start \in Url /\ current \in Url /\ seen \subseteq Url
    /\ retry \in 0..MaxRetries /\ hop \in 0..MaxRedirects
    /\ attempt \in Attempts \cup {0} /\ row \in [Attempts -> RowStatus]
    /\ ending \in Endings /\ response \in Response
    /\ size \in 0..MaxBody /\ used \in 0..MaxTotal /\ overran \in BOOLEAN
    /\ asked \subseteq Url
    /\ pending \subseteq Attempts /\ lost \subseteq pending /\ unsaved \subseteq Attempts
    /\ outcome \in Outcomes
    /\ cancels \in 0..MaxCancels /\ faults \in 0..MaxFaults

\* the body of the current attempt has an owner: _request while it reads and
\* closes, fetch until it has decided, the caller of a call that returned
Owned == \/ at = "body"
         \/ at \in {"closing", "settle", "decide"} /\ ending = "completed"
         \/ outcome = "result"

\* Whenever a call stands or has ended, a file of .pending is the body of the
\* current attempt and somebody is going to discard or keep it
\* (fetcher.py:372-392, 160-179); excused are only bodies whose discard, or
\* whose attempt's last save, raised (fetcher.py:240-242).
BodyHasOwner == \A a \in pending \ lost : a = attempt /\ Owned

\* Every attempt gets its final status, whatever ends it (fetcher.py:240-242),
\* and a result is returned only by an attempt that says "received".
AttemptsSettled ==
    /\ \A a \in Attempts : row[a] = "started" =>
          a \in unsaved \/ (a = attempt /\ at \in InAttempt)
    /\ outcome = "result" => row[attempt] = "received"

holds == pending \ lost # {}
Promise == INSTANCE FetchPromise WITH
    start <- start, asked <- asked, holds <- holds, outcome <- outcome

\* The call implements FetchPromise: it asks only admitted URLs, never leaves
\* TLS, and leaves a body only with a result (fetcher.py:128-192).
Refines == Promise!Spec

\* Redirects and retries are bounded: a call that is left alone ends, whatever
\* the servers answer (fetcher.py:139-192).
FetchEnds == <>(outcome # "running")

\* "A total-byte failure aborts the whole level, rather than making admission
\* depend on completion order" (engine.py:165-167): a call in which the budget
\* was overrun ends as overrun, if nobody cancelled it.
OverrunAborts ==
    overran /\ outcome # "running" => outcome \in {"budget", "cancelled", "internal"}
==============================================================================
