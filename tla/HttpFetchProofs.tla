--------------------------- MODULE HttpFetchProofs ---------------------------
(***************************************************************************)
(* A call of HttpFetcher.fetch, for any servers, budget, number of retries, *)
(* redirects, cancellations and faults.                                    *)
(***************************************************************************)
EXTENDS HttpFetch, TLAPS

Hops == MaxRedirects + 1

\* attempts are counted by retry and hop, one hop at a time
Counted ==
    attempt <= retry * Hops + hop
               + (IF at \in {"hop", "open", "authorize"} THEN 0 ELSE 1)

\* what is known of the body and the row of the current attempt
Body ==
    /\ at \in InAttempt \cup {"decide"} => attempt \in Attempts
    /\ at \in {"slots", "connect", "headers"} => \A a \in pending : a < attempt
    /\ \A a \in pending : a <= attempt
    /\ at = "body" => attempt \in pending \ lost
    /\ at \in {"closing", "settle", "decide"} =>
         /\ ending # "none"
         /\ ending = "completed" => attempt \in pending \ lost
    /\ at = "decide" => row[attempt] = StatusOf(ending)
    /\ outcome = "result" => attempt \in pending \ lost

\* where the call may go
Route ==
    /\ outcome = "running" <=> at # "over"
    /\ at \notin {"hop", "over"} => current \in Admitted
    /\ start \in Secure => current \in Secure
    /\ at \in Exchange => asked # {}
    /\ at = "asleep" => retry < MaxRetries

FetchInv == TypeOK /\ Counted /\ Body /\ Route /\ BodyHasOwner /\ AttemptsSettled

\* The number of attempts a call makes is bounded, so each has a row.
LEMMA Bounded ==
    ASSUME NEW r \in 0..MaxRetries, NEW h \in 0..MaxRedirects
    PROVE  r * Hops + h + 1 <= (MaxRetries + 1) * Hops
<1>1. Hops \in Nat /\ h + 1 <= Hops /\ MaxRetries \in Nat
  BY FetchAssumption DEF Hops
<1>2. r * Hops <= MaxRetries * Hops
  <2>1. PICK d \in Nat : MaxRetries = r + d
    BY <1>1
  <2>2. MaxRetries * Hops = r * Hops + d * Hops /\ d * Hops \in Nat
    BY <1>1, <2>1
  <2>3. QED BY <1>1, <2>2
<1>3. (MaxRetries + 1) * Hops = MaxRetries * Hops + Hops
  BY <1>1
<1>4. QED BY <1>1, <1>2, <1>3

LEMMA SpendTypes ==
    ASSUME TypeOK, Spend \/ UNCHANGED budget
    PROVE  used' \in 0..MaxTotal /\ overran' \in BOOLEAN
<1>1. CASE used < MaxTotal /\ Spend
  <2>1. used' = used + 1 /\ overran' = overran
    BY <1>1 DEF Spend
  <2>2. used' \in 0..MaxTotal
    BY <1>1, <2>1, FetchAssumption DEF TypeOK
  <2>3. QED BY <2>1, <2>2 DEF TypeOK
<1>2. CASE ~(used < MaxTotal) /\ Spend
  BY <1>2 DEF Spend, TypeOK
<1>3. CASE UNCHANGED budget
  BY <1>3 DEF budget, TypeOK
<1>. QED BY <1>1, <1>2, <1>3

LEMMA InitFetch == Init => FetchInv
<1> SUFFICES ASSUME Init PROVE FetchInv
  OBVIOUS
<1>1. TypeOK
  <2>1. at \in Places /\ ending \in Endings /\ outcome \in Outcomes
    BY DEF Init, Places, Endings, Outcomes
  <2>2. response \in Response
    BY DEF Init, NoResponse, Response
  <2>3. row \in [Attempts -> RowStatus]
    BY DEF Init, RowStatus
  <2>4. /\ retry \in 0..MaxRetries /\ hop \in 0..MaxRedirects
        /\ size \in 0..MaxBody /\ used \in 0..MaxTotal
        /\ cancels \in 0..MaxCancels /\ faults \in 0..MaxFaults
    BY FetchAssumption DEF Init
  <2>5. /\ robots \in BOOLEAN /\ overran \in BOOLEAN
        /\ start \in Url /\ current \in Url /\ seen \subseteq Url
    BY DEF Init
  <2>6. attempt \in Attempts \cup {0} /\ asked \subseteq Url
    BY DEF Init
  <2>7. pending \subseteq Attempts /\ lost \subseteq pending /\ unsaved \subseteq Attempts
    BY DEF Init
  <2>. QED BY <2>1, <2>2, <2>3, <2>4, <2>5, <2>6, <2>7 DEF TypeOK
<1>2. Counted
  BY FetchAssumption DEF Init, Counted, Hops
<1>3. QED
  BY <1>1, <1>2 DEF Init, FetchInv, Body, Route, BodyHasOwner,
     AttemptsSettled, InAttempt, Exchange

LEMMA StepFetch == FetchInv /\ [Next]_vars => FetchInv'
<1> SUFFICES ASSUME FetchInv, [Next]_vars PROVE FetchInv'
  OBVIOUS
<1> USE FetchAssumption DEF FetchInv, where, table, wire, budget, bodies, bounds, Go,
        End, InAttempt, Exchange, Awaits
<1>a. /\ attempt \in Nat /\ pending \subseteq Nat /\ retry \in Nat /\ hop \in Nat
      /\ Hops \in Nat /\ retry * Hops \in Nat
  <2>1. Attempts \subseteq Nat
    BY DEF Attempts
  <2>2. retry \in Nat /\ hop \in Nat /\ Hops \in Nat
    BY DEF TypeOK, Hops
  <2>3. \A r, h \in Nat : r * h \in Nat
    OBVIOUS
  <2>4. retry * Hops \in Nat
    BY <2>2, <2>3
  <2>5. attempt \in Attempts \cup {0} /\ pending \subseteq Attempts
    BY DEF TypeOK
  <2>. QED BY <2>1, <2>2, <2>4, <2>5
<1>1. CASE Hop
  <2>1. TypeOK'
    BY <1>1 DEF TypeOK, Body, Route, Hop, Places, Outcomes, Endings, RowStatus,
       Response
  <2>2. Counted'
    BY <1>1, <1>a DEF Counted, Hop
  <2>3. Body'
    BY <1>1 DEF TypeOK, Body, StatusOf, BodyHasOwner, Owned, Route, Hop
  <2>4. Route'
    BY <1>1 DEF TypeOK, Route, Hop
  <2>5. BodyHasOwner' /\ AttemptsSettled'
    BY <1>1 DEF TypeOK, BodyHasOwner, AttemptsSettled, Owned, Body, Route,
       StatusOf, Hop
  <2>6. QED BY <2>1, <2>2, <2>3, <2>4, <2>5
<1>2. CASE Authorized
  <2>1. TypeOK'
    BY <1>2 DEF TypeOK, Body, Route, Authorized, Places, Outcomes, Endings,
       RowStatus, Response
  <2>2. Counted'
    BY <1>2, <1>a DEF Counted, Authorized
  <2>3. Body'
    BY <1>2 DEF TypeOK, Body, StatusOf, BodyHasOwner, Owned, Route, Authorized
  <2>4. Route'
    BY <1>2 DEF TypeOK, Route, Authorized
  <2>5. BodyHasOwner' /\ AttemptsSettled'
    BY <1>2 DEF TypeOK, BodyHasOwner, AttemptsSettled, Owned, Body, Route,
       StatusOf, Authorized
  <2>6. QED BY <2>1, <2>2, <2>3, <2>4, <2>5
<1>3. CASE Open
  <2>1. TypeOK'
    <3>1. at = "open" /\ attempt <= retry * Hops + hop
      BY <1>3, <1>a DEF Open, Counted
    <3>2. attempt + 1 \in Attempts
      <4>1. retry * Hops + hop + 1 <= (MaxRetries + 1) * Hops
        BY Bounded DEF TypeOK
      <4>2. (MaxRetries + 1) * Hops \in Nat
        BY <1>a
      <4>3. QED BY <3>1, <4>1, <4>2, <1>a DEF Attempts, Hops
    <3>3. row' \in [Attempts -> RowStatus]
      BY <1>3, <3>2 DEF Open, TypeOK, RowStatus
    <3>4. NoResponse \in Response
      BY DEF NoResponse, Response
    <3>5. QED BY <1>3, <3>2, <3>3, <3>4, <1>a DEF TypeOK, Open, Fault, Places,
       Outcomes, Endings
  <2>2. Counted'
    BY <1>3, <1>a DEF Counted, Open, Fault, NoResponse
  <2>3. Body'
    <3>1. at = "open" /\ attempt' = attempt + 1 /\ at' \in {"slots", "over"}
      BY <1>3 DEF Open
    <3>2. attempt' \in Attempts
      BY <2>1, <3>1, <1>a DEF TypeOK
    <3>3. \A a \in pending' : a < attempt'
      BY <1>3, <3>1, <1>a DEF Open, Body
    <3>4. outcome' # "result"
      BY <1>3, <3>1 DEF Open, Route
    <3>5. QED BY <3>1, <3>2, <3>3, <3>4, <1>a, <2>1 DEF Body, TypeOK
  <2>4. Route'
    BY <1>3 DEF TypeOK, Route, Open, Fault, NoResponse
  <2>5. BodyHasOwner' /\ AttemptsSettled'
    BY <1>3 DEF TypeOK, BodyHasOwner, AttemptsSettled, Owned, Body, Route,
       StatusOf, Open, Fault, NoResponse
  <2>6. QED BY <2>1, <2>2, <2>3, <2>4, <2>5
<1>4. CASE GetSlots
  <2>1. TypeOK'
    BY <1>4 DEF TypeOK, Body, Route, GetSlots, Places, Outcomes, Endings,
       RowStatus, Response
  <2>2. Counted'
    BY <1>4, <1>a DEF Counted, GetSlots
  <2>3. Body'
    BY <1>4 DEF TypeOK, Body, StatusOf, BodyHasOwner, Owned, Route, GetSlots
  <2>4. Route'
    BY <1>4 DEF TypeOK, Route, GetSlots
  <2>5. BodyHasOwner' /\ AttemptsSettled'
    BY <1>4 DEF TypeOK, BodyHasOwner, AttemptsSettled, Owned, Body, Route,
       StatusOf, GetSlots
  <2>6. QED BY <2>1, <2>2, <2>3, <2>4, <2>5
<1>5. CASE Connect
  <2>1. TypeOK'
    BY <1>5 DEF TypeOK, Body, Route, Connect, Places, Outcomes, Endings,
       RowStatus, Response
  <2>2. Counted'
    BY <1>5, <1>a DEF Counted, Connect
  <2>3. Body'
    BY <1>5 DEF TypeOK, Body, StatusOf, BodyHasOwner, Owned, Route, Connect
  <2>4. Route'
    BY <1>5 DEF TypeOK, Route, Connect
  <2>5. BodyHasOwner' /\ AttemptsSettled'
    BY <1>5 DEF TypeOK, BodyHasOwner, AttemptsSettled, Owned, Body, Route,
       StatusOf, Connect
  <2>6. QED BY <2>1, <2>2, <2>3, <2>4, <2>5
<1>6. CASE Headers
  <2>1. TypeOK'
    <3>1. at = "headers" /\ attempt \in Attempts /\ at' \in {"body", "closing"}
      BY <1>6 DEF Headers, Body
    <3>2. ending' \in Endings
      BY <1>6 DEF Headers, TypeOK, Endings
    <3>3. used' \in 0..MaxTotal /\ overran' \in BOOLEAN
      <4>1. Spend \/ UNCHANGED budget
        BY <1>6 DEF Headers
      <4>2. QED BY <4>1, SpendTypes
    <3>4. pending' \subseteq Attempts /\ lost' \subseteq pending' /\ response' \in Response
      BY <1>6, <3>1 DEF Headers, TypeOK
    <3>5. faults' \in 0..MaxFaults
      BY <1>6 DEF Headers, Fault, TypeOK
    <3>6. QED BY <1>6, <3>1, <3>2, <3>3, <3>4, <3>5 DEF Headers, TypeOK, Places
  <2>2. Counted'
    BY <1>6, <1>a DEF Counted, Headers, Spend, Fault
  <2>3. Body'
    <3>1. /\ at = "headers" /\ attempt' = attempt /\ attempt \in Attempts
          /\ outcome' = outcome /\ lost' = lost /\ row' = row
      BY <1>6 DEF Headers, Body
    <3>2. attempt \notin lost /\ \A a \in pending : a <= attempt
      BY <3>1, <1>a DEF Body, TypeOK
    <3>3. \/ at' = "body" /\ pending' = pending \cup {attempt}
          \/ /\ at' = "closing" /\ pending' = pending
             /\ ending' \in {"budget", "error", "network"}
      BY <1>6 DEF Headers
    <3>4. outcome # "result"
      BY <3>1 DEF Route
    <3>5. CASE at' = "body"
      <4>1. pending' = pending \cup {attempt}
        BY <3>3, <3>5
      <4>2. \A a \in pending' : a <= attempt'
        BY <4>1, <3>1, <3>2, <1>a
      <4>3. attempt' \in pending' \ lost'
        BY <4>1, <3>1, <3>2
      <4>4. QED BY <4>2, <4>3, <3>1, <3>4, <3>5 DEF Body
    <3>6. CASE at' = "closing"
      BY <3>1, <3>2, <3>3, <3>4, <3>6, <1>a DEF Body
    <3>. QED BY <3>3, <3>5, <3>6
  <2>4. Route'
    BY <1>6 DEF TypeOK, Route, Headers, Spend, Fault
  <2>5. BodyHasOwner' /\ AttemptsSettled'
    BY <1>6 DEF TypeOK, BodyHasOwner, AttemptsSettled, Owned, Body, Route,
       StatusOf, Headers, Spend, Fault
  <2>6. QED BY <2>1, <2>2, <2>3, <2>4, <2>5
<1>7. CASE Piece
  <2>1. TypeOK'
    <3>1. /\ at = "body" /\ at' \in {"body", "closing"}
          /\ ending' \in Endings /\ size' \in 0..MaxBody
      BY <1>7 DEF Piece, Spend, TypeOK, Fail, Discard, Endings
    <3>2. used' \in 0..MaxTotal /\ overran' \in BOOLEAN
      BY <1>7, SpendTypes DEF Piece
    <3>3. pending' \subseteq pending /\ lost' \subseteq pending'
      BY <1>7, <3>1 DEF Piece, TypeOK, Fail, Discard, Body
    <3>4. faults' \in 0..MaxFaults
      BY <1>7 DEF Piece, TypeOK, Fail, Discard, Fault
    <3>5. QED BY <1>7, <3>1, <3>2, <3>3, <3>4 DEF Piece, TypeOK, Places
  <2>2. Counted'
    BY <1>7, <1>a DEF Counted, Piece, Spend, Fail, Discard, Fault
  <2>3. Body'
    BY <1>7 DEF TypeOK, Body, StatusOf, BodyHasOwner, Owned, Route, Piece,
       Spend, Fail, Discard, Fault
  <2>4. Route'
    BY <1>7 DEF TypeOK, Route, Piece, Spend, Fail, Discard, Fault
  <2>5. BodyHasOwner' /\ AttemptsSettled'
    BY <1>7 DEF TypeOK, BodyHasOwner, AttemptsSettled, Owned, Body, Route,
       StatusOf, Piece, Spend, Fail, Discard, Fault
  <2>6. QED BY <2>1, <2>2, <2>3, <2>4, <2>5
<1>8. CASE Broken
  <2>1. TypeOK'
    BY <1>8 DEF TypeOK, Body, Route, Broken, Fail, Discard, Fault, Places,
       Outcomes, Endings, RowStatus, Response
  <2>2. Counted'
    BY <1>8, <1>a DEF Counted, Broken, Fail, Discard, Fault
  <2>3. Body'
    BY <1>8 DEF TypeOK, Body, StatusOf, BodyHasOwner, Owned, Route, Broken,
       Fail, Discard, Fault
  <2>4. Route'
    BY <1>8 DEF TypeOK, Route, Broken, Fail, Discard, Fault
  <2>5. BodyHasOwner' /\ AttemptsSettled'
    BY <1>8 DEF TypeOK, BodyHasOwner, AttemptsSettled, Owned, Body, Route,
       StatusOf, Broken, Fail, Discard, Fault
  <2>6. QED BY <2>1, <2>2, <2>3, <2>4, <2>5
<1>9. CASE Complete
  <2>1. TypeOK'
    BY <1>9 DEF TypeOK, Body, Route, Complete, Places, Outcomes, Endings,
       RowStatus, Response
  <2>2. Counted'
    BY <1>9, <1>a DEF Counted, Complete
  <2>3. Body'
    BY <1>9 DEF TypeOK, Body, StatusOf, BodyHasOwner, Owned, Route, Complete
  <2>4. Route'
    BY <1>9 DEF TypeOK, Route, Complete
  <2>5. BodyHasOwner' /\ AttemptsSettled'
    BY <1>9 DEF TypeOK, BodyHasOwner, AttemptsSettled, Owned, Body, Route,
       StatusOf, Complete
  <2>6. QED BY <2>1, <2>2, <2>3, <2>4, <2>5
<1>10. CASE Closed
  <2>1. TypeOK'
    BY <1>10 DEF TypeOK, Body, Route, Closed, Places, Outcomes, Endings,
       RowStatus, Response
  <2>2. Counted'
    BY <1>10, <1>a DEF Counted, Closed
  <2>3. Body'
    BY <1>10 DEF TypeOK, Body, StatusOf, BodyHasOwner, Owned, Route, Closed
  <2>4. Route'
    BY <1>10 DEF TypeOK, Route, Closed
  <2>5. BodyHasOwner' /\ AttemptsSettled'
    BY <1>10 DEF TypeOK, BodyHasOwner, AttemptsSettled, Owned, Body, Route,
       StatusOf, Closed
  <2>6. QED BY <2>1, <2>2, <2>3, <2>4, <2>5
<1>11. CASE Settle
  <2>1. TypeOK'
    BY <1>11 DEF TypeOK, Body, Route, Settle, Fault, StatusOf, Places, Outcomes,
       Endings, RowStatus, Response
  <2>2. Counted'
    BY <1>11, <1>a DEF Counted, Settle, Fault, StatusOf
  <2>3. Body'
    BY <1>11 DEF TypeOK, Body, StatusOf, BodyHasOwner, Owned, Route, Settle,
       Fault
  <2>4. Route'
    BY <1>11 DEF TypeOK, Route, Settle, Fault, StatusOf
  <2>5. BodyHasOwner' /\ AttemptsSettled'
    BY <1>11 DEF TypeOK, BodyHasOwner, AttemptsSettled, Owned, Body, Route,
       StatusOf, Settle, Fault
  <2>6. QED BY <2>1, <2>2, <2>3, <2>4, <2>5
<1>12. CASE Redirect
  <2>1. TypeOK'
    BY <1>12 DEF TypeOK, Body, Route, Redirect, Discard, Fault, Follows, Places,
       Outcomes, Endings, RowStatus, Response
  <2>2. Counted'
    BY <1>12, <1>a DEF Counted, Redirect, Discard, Fault, Follows
  <2>3. Body'
    BY <1>12 DEF TypeOK, Body, StatusOf, BodyHasOwner, Owned, Route, Redirect,
       Discard, Fault, Follows
  <2>4. Route'
    BY <1>12 DEF TypeOK, Route, Redirect, Discard, Fault, Follows
  <2>5. BodyHasOwner' /\ AttemptsSettled'
    BY <1>12 DEF TypeOK, BodyHasOwner, AttemptsSettled, Owned, Body, Route,
       StatusOf, Redirect, Discard, Fault, Follows
  <2>6. QED BY <2>1, <2>2, <2>3, <2>4, <2>5
<1>13. CASE Busy
  <2>1. TypeOK'
    BY <1>13 DEF TypeOK, Body, Route, Busy, Discard, Fault, MayRetry, Places,
       Outcomes, Endings, RowStatus, Response
  <2>2. Counted'
    BY <1>13, <1>a DEF Counted, Busy, Discard, Fault, MayRetry
  <2>3. Body'
    BY <1>13 DEF TypeOK, Body, StatusOf, BodyHasOwner, Owned, Route, Busy,
       Discard, Fault, MayRetry
  <2>4. Route'
    BY <1>13 DEF TypeOK, Route, Busy, Discard, Fault, MayRetry
  <2>5. BodyHasOwner' /\ AttemptsSettled'
    BY <1>13 DEF TypeOK, BodyHasOwner, AttemptsSettled, Owned, Body, Route,
       StatusOf, Busy, Discard, Fault, MayRetry
  <2>6. QED BY <2>1, <2>2, <2>3, <2>4, <2>5
<1>14. CASE Return
  <2>1. TypeOK'
    BY <1>14 DEF TypeOK, Body, Route, Return, MayRetry, Places, Outcomes,
       Endings, RowStatus, Response
  <2>2. Counted'
    BY <1>14, <1>a DEF Counted, Return, MayRetry
  <2>3. Body'
    BY <1>14 DEF TypeOK, Body, StatusOf, BodyHasOwner, Owned, Route, Return,
       MayRetry
  <2>4. Route'
    BY <1>14 DEF TypeOK, Route, Return, MayRetry
  <2>5. BodyHasOwner' /\ AttemptsSettled'
    BY <1>14 DEF TypeOK, BodyHasOwner, AttemptsSettled, Owned, Body, Route,
       StatusOf, Return, MayRetry
  <2>6. QED BY <2>1, <2>2, <2>3, <2>4, <2>5
<1>15. CASE Raised
  <2>1. TypeOK'
    BY <1>15 DEF TypeOK, Body, Route, Raised, MayRetry, Endings, Places,
       Outcomes, RowStatus, Response
  <2>2. Counted'
    BY <1>15, <1>a DEF Counted, Raised, MayRetry, Endings
  <2>3. Body'
    BY <1>15 DEF TypeOK, Body, StatusOf, BodyHasOwner, Owned, Route, Raised,
       MayRetry, Endings
  <2>4. Route'
    BY <1>15 DEF TypeOK, Route, Raised, MayRetry, Endings
  <2>5. BodyHasOwner' /\ AttemptsSettled'
    BY <1>15 DEF TypeOK, BodyHasOwner, AttemptsSettled, Owned, Body, Route,
       StatusOf, Raised, MayRetry, Endings
  <2>6. QED BY <2>1, <2>2, <2>3, <2>4, <2>5
<1>16. CASE Wake
  <2>1. TypeOK'
    BY <1>16 DEF TypeOK, Body, Route, Wake, Places, Outcomes, Endings,
       RowStatus, Response
  <2>2. Counted'
    <3>1. (retry + 1) * Hops = retry * Hops + Hops
      BY <1>a
    <3>2. hop + 1 <= Hops
      BY DEF TypeOK, Hops
    <3>3. attempt' = attempt /\ retry' = retry + 1 /\ hop' = 0 /\ at = "asleep" /\ at' = "hop"
      BY <1>16 DEF Wake
    <3>4. QED BY <3>1, <3>2, <3>3, <1>a DEF Counted
  <2>3. Body'
    BY <1>16 DEF TypeOK, Body, StatusOf, BodyHasOwner, Owned, Route, Wake
  <2>4. Route'
    BY <1>16 DEF TypeOK, Route, Wake
  <2>5. BodyHasOwner' /\ AttemptsSettled'
    BY <1>16 DEF TypeOK, BodyHasOwner, AttemptsSettled, Owned, Body, Route,
       StatusOf, Wake
  <2>6. QED BY <2>1, <2>2, <2>3, <2>4, <2>5
<1>17. CASE TimeOut
  <2>1. TypeOK'
    BY <1>17 DEF TypeOK, Body, Route, TimeOut, InExchange, AtClosing, Fail,
       Discard, Fault, Places, Outcomes, Endings, RowStatus, Response
  <2>2. Counted'
    BY <1>17, <1>a DEF Counted, TimeOut, InExchange, AtClosing, Fail, Discard,
       Fault
  <2>3. Body'
    BY <1>17 DEF TypeOK, Body, StatusOf, BodyHasOwner, Owned, Route, TimeOut,
       InExchange, AtClosing, Fail, Discard, Fault
  <2>4. Route'
    BY <1>17 DEF TypeOK, Route, TimeOut, InExchange, AtClosing, Fail, Discard,
       Fault
  <2>5. BodyHasOwner' /\ AttemptsSettled'
    BY <1>17 DEF TypeOK, BodyHasOwner, AttemptsSettled, Owned, Body, Route,
       StatusOf, TimeOut, InExchange, AtClosing, Fail, Discard, Fault
  <2>6. QED BY <2>1, <2>2, <2>3, <2>4, <2>5
<1>18. CASE Cancel
  <2>1. TypeOK'
    BY <1>18 DEF TypeOK, Body, Route, Cancel, InExchange, AtClosing, Fail,
       Discard, Fault, Places, Outcomes, Endings, RowStatus, Response
  <2>2. Counted'
    BY <1>18, <1>a DEF Counted, Cancel, InExchange, AtClosing, Fail, Discard,
       Fault
  <2>3. Body'
    BY <1>18 DEF TypeOK, Body, StatusOf, BodyHasOwner, Owned, Route, Cancel,
       InExchange, AtClosing, Fail, Discard, Fault
  <2>4. Route'
    BY <1>18 DEF TypeOK, Route, Cancel, InExchange, AtClosing, Fail, Discard,
       Fault
  <2>5. BodyHasOwner' /\ AttemptsSettled'
    BY <1>18 DEF TypeOK, BodyHasOwner, AttemptsSettled, Owned, Body, Route,
       StatusOf, Cancel, InExchange, AtClosing, Fail, Discard, Fault
  <2>6. QED BY <2>1, <2>2, <2>3, <2>4, <2>5
<1>19. CASE OthersSpend
  <2>1. TypeOK'
    BY <1>19 DEF TypeOK, Body, Route, OthersSpend, Places, Outcomes, Endings,
       RowStatus, Response
  <2>2. Counted'
    BY <1>19, <1>a DEF Counted, OthersSpend
  <2>3. Body'
    BY <1>19 DEF TypeOK, Body, StatusOf, BodyHasOwner, Owned, Route, OthersSpend
  <2>4. Route'
    BY <1>19 DEF TypeOK, Route, OthersSpend
  <2>5. BodyHasOwner' /\ AttemptsSettled'
    BY <1>19 DEF TypeOK, BodyHasOwner, AttemptsSettled, Owned, Body, Route,
       StatusOf, OthersSpend
  <2>6. QED BY <2>1, <2>2, <2>3, <2>4, <2>5
<1>20. CASE UNCHANGED vars
  BY <1>20 DEF vars, TypeOK, Counted, Body, Route, BodyHasOwner,
     AttemptsSettled, Owned
<1>. QED BY <1>1, <1>2, <1>3, <1>4, <1>5, <1>6, <1>7, <1>8, <1>9, <1>10, <1>11,
   <1>12, <1>13, <1>14, <1>15, <1>16, <1>17, <1>18, <1>19, <1>20 DEF Next,
   Progress, Answer, Decide

THEOREM FetchHolds == Spec => []FetchInv
<1>1. Init => FetchInv
  BY InitFetch
<1>2. FetchInv /\ [Next]_vars => FetchInv'
  BY StepFetch
<1>3. QED BY <1>1, <1>2, PTL DEF Spec

\* The state of a call is well typed, its attempts are bounded
\* (fetcher.py:132-195).
THEOREM FetchTypes == Spec => []TypeOK
BY FetchHolds, PTL DEF FetchInv

\* No body is without an owner, wherever a cancellation, a timeout or a failure
\* strikes (fetcher.py:372-392).
THEOREM BodyIsOwned == Spec => []BodyHasOwner
BY FetchHolds, PTL DEF FetchInv

\* Each attempt's row gets its final status (fetcher.py:240-242).
THEOREM AttemptsSettle == Spec => []AttemptsSettled
BY FetchHolds, PTL DEF FetchInv

\* Each step of a call is a step of FetchPromise, or none.
LEMMA StepPromise ==
    ASSUME FetchInv, FetchInv', [Next]_vars
    PROVE  [Promise!Next]_<<start, asked, holds, outcome>>
<1> USE DEF FetchInv
<1> DEFINE Abs == Promise!Next \/ UNCHANGED <<start, asked, holds, outcome>>
<1> SUFFICES Abs
  OBVIOUS
<1>a. ASSUME UNCHANGED <<start, asked, outcome>>, outcome = "running",
             holds' = FALSE \/ holds' = holds \/ asked # {}
      PROVE  Abs
  <2>1. holds \in BOOLEAN /\ holds' \in BOOLEAN
    BY DEF holds
  <2>2. CASE holds' = holds
    BY <2>2, <1>a
  <2>3. CASE holds' = FALSE
    BY <2>3, <1>a DEF Promise!Next, Promise!Drop
  <2>4. CASE holds' = TRUE /\ asked # {}
    BY <2>4, <1>a DEF Promise!Next, Promise!Take
  <2>5. QED BY <2>1, <2>2, <2>3, <2>4, <1>a
<1>b. ASSUME UNCHANGED <<start, asked>>, outcome = "running",
             outcome' \in {"error", "budget", "cancelled", "internal"}
      PROVE  Abs
  <2>1. holds' = FALSE
    <3>1. outcome' # "running" /\ outcome' # "result"
      BY <1>b
    <3>2. at' = "over"
      BY <3>1 DEF Route, TypeOK
    <3>3. QED BY <3>1, <3>2 DEF BodyHasOwner, Owned, holds
  <2>2. QED BY <1>b, <2>1 DEF Promise!Next, Promise!Raise
<1>c. ASSUME UNCHANGED <<start, asked, pending, lost>>, outcome = "running",
             outcome' = "result"
      PROVE  Abs
  <2>1. holds' = holds /\ holds
    BY <1>c DEF Body, holds
  <2>2. QED BY <1>c, <2>1 DEF Promise!Next, Promise!Deliver
<1>d. ASSUME UNCHANGED <<start, asked, pending, lost, outcome>> PROVE Abs
  BY <1>d DEF holds
<1>1. CASE Hop
  <2>1. outcome = "running" /\ UNCHANGED <<start, asked, pending, lost>>
    BY <1>1 DEF Hop, Route, wire, bodies
  <2>2. outcome' \in {outcome, "error"}
    BY <1>1 DEF Hop, Go, End
  <2>3. QED BY <2>1, <2>2, <1>b, <1>d
<1>2. CASE Authorized
  <2>1. outcome = "running" /\ UNCHANGED <<start, asked, pending, lost>>
    BY <1>2 DEF Authorized, Route, wire, bodies
  <2>2. outcome' \in {outcome, "error", "budget"}
    BY <1>2 DEF Authorized, Go, End
  <2>3. QED BY <2>1, <2>2, <1>b, <1>d
<1>3. CASE Open
  <2>1. outcome = "running" /\ UNCHANGED <<start, asked, pending, lost>>
    BY <1>3 DEF Open, Route, bodies
  <2>2. outcome' \in {outcome, "internal"}
    BY <1>3 DEF Open, Go, End
  <2>3. QED BY <2>1, <2>2, <1>b, <1>d
<1>4. CASE Connect
  <2>1. /\ outcome = "running" /\ UNCHANGED <<start, pending, lost, outcome>>
        /\ current \in Admitted /\ (start \in Secure => current \in Secure)
    BY <1>4 DEF Connect, Route, bodies
  <2>2. holds = FALSE
    BY <1>4 DEF Connect, BodyHasOwner, Owned, Route, holds
  <2>3. holds' = holds
    BY <2>1 DEF holds
  <2>4. asked' = asked \/ asked' = asked \cup {current}
    BY <1>4 DEF Connect
  <2>5. QED BY <2>1, <2>2, <2>3, <2>4 DEF Promise!Next, Promise!Ask
<1>5. CASE Answer
  <2>1. outcome = "running" /\ asked # {} /\ UNCHANGED <<start, asked, outcome>>
    BY <1>5 DEF Answer, Headers, Piece, Broken, Complete, Route, Exchange, wire, bodies
  <2>2. QED BY <2>1, <1>a
<1>6. CASE Settle
  <2>1. outcome = "running" /\ UNCHANGED <<start, asked>>
    BY <1>6 DEF Settle, Route, wire
  <2>2. CASE outcome' = "internal"
    BY <2>1, <2>2, <1>b
  <2>3. CASE UNCHANGED <<pending, lost, outcome>>
    BY <2>1, <2>3, <1>d
  <2>4. QED BY <1>6, <2>2, <2>3 DEF Settle, Go, End
<1>7. CASE Redirect \/ Busy
  <2>1. outcome = "running" /\ UNCHANGED <<start, asked>>
    BY <1>7 DEF Redirect, Busy, Route, wire
  <2>2. CASE outcome' = outcome
    <3>1. pending' \subseteq pending /\ lost \subseteq lost'
      BY <1>7 DEF Redirect, Busy, Discard
    <3>2. holds' = FALSE \/ holds' = holds
      BY <3>1 DEF holds
    <3>3. QED BY <2>1, <2>2, <3>2, <1>a
  <2>3. CASE outcome' \in {"internal", "error"}
    BY <2>1, <2>3, <1>b
  <2>4. QED BY <1>7, <2>2, <2>3 DEF Redirect, Busy, Discard, Go, End
<1>8. CASE Return
  <2>1. /\ outcome = "running" /\ outcome' = "result"
        /\ UNCHANGED <<start, asked, pending, lost>>
    BY <1>8 DEF Return, End, Route, wire, bodies
  <2>2. QED BY <2>1, <1>c
<1>9. CASE Raised
  <2>1. outcome = "running" /\ UNCHANGED <<start, asked, pending, lost>>
    BY <1>9 DEF Raised, Route, wire, bodies
  <2>2. outcome' \in {outcome, "error", "budget", "cancelled"}
    BY <1>9 DEF Raised, Go, End, TypeOK, Endings, Body
  <2>3. QED BY <2>1, <2>2, <1>b, <1>d
<1>10. CASE Closed \/ GetSlots \/ Wake \/ OthersSpend
  <2>1. UNCHANGED <<start, asked, pending, lost, outcome>>
    BY <1>10 DEF Closed, GetSlots, Wake, OthersSpend, where, wire, bodies
  <2>2. QED BY <2>1, <1>d
<1>11. CASE TimeOut \/ Cancel
  <2>1. outcome = "running" /\ UNCHANGED <<start, asked>>
    BY <1>11 DEF TimeOut, Cancel, InExchange, AtClosing, Route, Awaits, Exchange, wire
  <2>2. CASE outcome' = outcome
    <3>1. pending' \subseteq pending /\ lost \subseteq lost'
      BY <1>11 DEF TimeOut, Cancel, InExchange, AtClosing, Fail, Discard, bodies
    <3>2. holds' = FALSE \/ holds' = holds
      <4>1. CASE pending' \ lost' = pending \ lost
        BY <4>1 DEF holds
      <4>2. CASE pending' \ lost' = {}
        BY <4>2 DEF holds
      <4>3. pending \ lost \subseteq {attempt}
        BY DEF BodyHasOwner
      <4>4. QED BY <3>1, <4>1, <4>2, <4>3
    <3>3. QED BY <2>1, <2>2, <3>2, <1>a
  <2>3. CASE outcome' = "cancelled"
    BY <2>1, <2>3, <1>b
  <2>4. QED BY <1>11, <2>2, <2>3 DEF TimeOut, Cancel, End
<1>12. CASE UNCHANGED vars
  <2>1. UNCHANGED <<start, asked, pending, lost, outcome>>
    BY <1>12 DEF vars, where, wire, bodies
  <2>2. QED BY <2>1, <1>d
<1>. QED BY <1>1, <1>2, <1>3, <1>4, <1>5, <1>6, <1>7, <1>8, <1>9, <1>10, <1>11, <1>12
        DEF Next, Progress, Decide

\* HttpFetcher.fetch implements FetchPromise for every server, policy and fault.
THEOREM FetchRefines == Spec => Refines
<1>1. Init => Promise!Init
  BY DEF Init, Promise!Init, holds
<1>2. FetchInv /\ FetchInv' /\ [Next]_vars
      => [Promise!Next]_<<start, asked, holds, outcome>>
  BY StepPromise
<1>3. QED BY <1>1, <1>2, FetchHolds, PTL DEF Spec, Refines, Promise!Spec
==============================================================================
