--------------------------- MODULE MCHostScheduler ---------------------------
(* x serves the origins xo and xp, y serves yo.                              *)
EXTENDS HostScheduler, TLC
CONSTANTS t1, t2, t3, j1, j2, x, y, xo, xp, yo
MCJobOf == t1 :> j1 @@ t2 :> j1 @@ t3 :> j2
MCHostOf == xo :> x @@ xp :> x
MCFirst == t1 :> xo @@ t2 :> xo @@ t3 :> xp
MCPerHost == j1 :> 2 @@ j2 :> 1
MCInterval == j1 :> 1 @@ j2 :> 2

LiveJobOf == t1 :> j1 @@ t2 :> j1
LiveHostOf == xo :> x @@ yo :> y
LiveFirst == t1 :> xo @@ t2 :> yo
LivePerHost == j1 :> 1
LiveInterval == j1 :> 1
==============================================================================
