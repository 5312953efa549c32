------------------------- MODULE ExtractionRunProofs -------------------------
(***************************************************************************)
(* What holds of one extraction, for any document and whatever the models  *)
(* answer, fail to answer or take: what is on disk was reserved before,    *)
(* and a deadline is overrun by a fixed number of calls only; a page whose *)
(* text is suspect is extracted again or marked; every page was made from  *)
(* its own unit by one of the routes, so there are never more pages than   *)
(* units; and on a page of the native route every text run is in one cell  *)
(* of a table at most and is lost only where a table covers its block.     *)
(*                                                                         *)
(* The last part needs what sorted() returns: the elements of a finite     *)
(* set with a linear order have the ranks 0 to Cardinality(S) - 1, each    *)
(* once (Rank), so a choice by rank lists the set (Enumerates).            *)
(***************************************************************************)
EXTENDS ExtractionRun, SequenceTheorems, FiniteSetTheorems, TLAPS

\* The steps between routing and the collection of warnings that the model
\* process has no part in.
Modular == {"office", "digital", "canonical", "fallback", "render", "image", "visual",
            "layout", "osd", "special", "compare", "ocr", "table", "merge"}

Bounds ==
    /\ doc \in Docs /\ pc \in Steps /\ n \in DOMAIN doc.units /\ todo \subseteq DOMAIN doc.units
    /\ reserved \in Nat /\ rendered \in Nat /\ scratch \in Nat /\ overrun \in Nat /\ late \in BOOLEAN

\* What is on disk was reserved; an image's raster by the preflight, before
\* its route was known; and only the model process leaves scratch files.
Reserved ==
    /\ rendered <= reserved /\ reserved <= MaxTemp
    /\ pc = "snapshot" => reserved = 0
    /\ pc \in {"snapshot", "preflight"} => rendered = 0
    /\ pc = "image" \/ (pc = "route" /\ doc.kind = "image") => rendered + unit.raster <= reserved
    /\ doc.engine # "e2e" => scratch = 0
    /\ pc \in Modular => doc.engine # "e2e"
    /\ pc = "e2e" => doc.engine = "e2e"
    /\ pc \in {"collect", "assemble", "done"} => reserved + scratch <= MaxTemp

\* How many calls may have begun late when the run stands at a step.
Allowed == CASE pc \in {"fallback", "collect", "failed"} -> IF doc.routed THEN 3 ELSE 1
             [] pc = "ocr" -> IF doc.routed THEN 2 ELSE 0
             [] pc = "compare" -> 1
             [] OTHER -> 0
Deadline ==
    /\ overrun <= Allowed
    /\ ~ late => overrun = 0
    /\ pc \in {"osd", "special", "compare"} => doc.routed

BudgetInv == Bounds /\ Reserved /\ Deadline

-----------------------------------------------------------------------------
LEMMA Documents ==
    /\ MaxTemp \in Nat /\ MaxScratch \in Nat
    /\ \A d \in Docs : d.size \in Nat /\ Len(d.units) \in Nat \ {0} /\ DOMAIN d.units = 1..Len(d.units)
    /\ \A d \in Docs : \A i \in DOMAIN d.units : d.units[i].raster \in Nat
BY BudgetsAssumption

LEMMA InitBudget == Init => BudgetInv
<1> SUFFICES ASSUME Init PROVE BudgetInv
  OBVIOUS
<1>1. Bounds
  <2>1. scratch \in Nat
    BY Documents DEF Init
  <2>2. 1 \in DOMAIN doc.units
    BY Documents DEF Init
  <2>3. QED BY <2>1, <2>2 DEF Init, Bounds, Steps
<1>2. Reserved
  BY Documents DEF Init, Reserved, Modular
<1>3. Deadline
  BY DEF Init, Deadline, Allowed
<1>4. QED BY <1>1, <1>2, <1>3 DEF BudgetInv

\* The clock does not go back.
LEMMA TimePasses ==
    ASSUME late \in BOOLEAN, Passing
    PROVE  late' \in BOOLEAN /\ (~ late' => ~ late)
BY DEF Passing

\* The steps before the route is known.
LEMMA BeforeHolds ==
    ASSUME BudgetInv, Tick \/ Snapshot \/ Preflight \/ Route
    PROVE  BudgetInv'
<1>1. /\ Bounds /\ Reserved /\ Deadline
  BY DEF BudgetInv
<1>2. doc.size \in Nat /\ unit.raster \in Nat /\ MaxTemp \in Nat
  BY <1>1, Documents DEF Bounds, unit
<1>3. CASE Tick
  BY <1>1, <1>3 DEF Tick, Bounds, Reserved, Deadline, Allowed, BudgetInv, work, temp, unit
<1>4. CASE Snapshot
  <2>1. /\ pc = "snapshot" /\ doc' = doc /\ n' = n /\ todo' = todo /\ rendered' = rendered
        /\ scratch' = scratch /\ overrun' = overrun /\ unit' = unit
    BY <1>4 DEF Snapshot, work, unit
  <2>2. /\ late' \in BOOLEAN /\ (~ late' => ~ late)
    BY <1>1, <1>4, TimePasses DEF Snapshot, Bounds
  <2>3. /\ pc' \in {"failed", "preflight"} /\ reserved = 0 /\ rendered = 0
        /\ reserved' \in Nat /\ reserved' <= MaxTemp
    BY <1>1, <1>2, <1>4 DEF Snapshot, Checked, Reserved
  <2>4. Bounds'
    BY <1>1, <1>2, <2>1, <2>2, <2>3 DEF Bounds, Steps
  <2>5. Reserved'
    <3>1. rendered' <= reserved' /\ (doc'.engine # "e2e" => scratch' = 0)
      BY <1>1, <2>1, <2>3 DEF Reserved
    <3>2. QED BY <2>1, <2>3, <3>1 DEF Reserved, Modular
  <2>6. Deadline'
    BY <1>1, <2>1, <2>2, <2>3 DEF Deadline, Allowed, Bounds
  <2>7. QED BY <2>4, <2>5, <2>6 DEF BudgetInv
<1>5. CASE Preflight
  <2>1. /\ pc = "preflight" /\ doc' = doc /\ n' = n /\ todo' = todo /\ rendered' = rendered
        /\ scratch' = scratch /\ overrun' = overrun /\ unit' = unit
    BY <1>5 DEF Preflight, work, unit
  <2>2. /\ late' \in BOOLEAN /\ (~ late' => ~ late)
    BY <1>1, <1>5, TimePasses DEF Preflight, Bounds
  <2>3. \/ pc' = "failed" /\ reserved' = reserved
        \/ /\ pc' \in {"failed", "route"}
           /\ doc.kind = "image" => reserved + unit.raster <= MaxTemp
           /\ reserved' = reserved + IF doc.kind = "image" THEN unit.raster ELSE 0
    BY <1>5 DEF Preflight, Checked, Affordable
  <2>4. Bounds'
    BY <1>1, <1>2, <2>1, <2>2, <2>3 DEF Bounds, Steps
  <2>5. Reserved'
    BY <1>1, <1>2, <2>1, <2>3 DEF Reserved, Bounds, Modular
  <2>6. Deadline'
    BY <1>1, <2>1, <2>2, <2>3 DEF Deadline, Allowed, Bounds
  <2>7. QED BY <2>4, <2>5, <2>6 DEF BudgetInv
<1>6. CASE Route
  <2>1. /\ pc = "route" /\ doc' = doc /\ n' = n /\ todo' = todo /\ rendered' = rendered
        /\ reserved' = reserved /\ scratch' = scratch /\ overrun' = overrun /\ unit' = unit
    BY <1>6 DEF Route, work, temp, unit
  <2>2. /\ late' \in BOOLEAN /\ (~ late' => ~ late)
    BY <1>1, <1>6, TimePasses DEF Route, Bounds
  <2>3. /\ pc' \in {"failed", "office", "digital", "render", "image", "e2e"}
        /\ pc' = "image" => doc.kind = "image"
        /\ pc' \in {"office", "digital", "render", "image"} => doc.engine # "e2e"
        /\ pc' = "e2e" => doc.engine = "e2e"
    <3>1. pc' = "failed" \/ pc' = StepOf(RouteOf)
      BY <1>6 DEF Route, Checked
    <3>2. CASE doc.engine = "e2e"
      BY <3>1, <3>2 DEF StepOf, RouteOf
    <3>3. CASE doc.engine # "e2e"
      <4>1. RouteOf \in {"native_office", "image", "digital_pdf", "scanned_pdf", "none"}
        BY <3>3 DEF RouteOf
      <4>2. RouteOf = "image" => doc.kind = "image"
        BY <3>3 DEF RouteOf
      <4>3. QED BY <3>1, <3>3, <4>1, <4>2 DEF StepOf
    <3>4. QED BY <3>2, <3>3
  <2>4. Bounds'
    BY <1>1, <2>1, <2>2, <2>3 DEF Bounds, Steps
  <2>5. Reserved'
    BY <1>1, <1>2, <2>1, <2>3 DEF Reserved, Bounds, Modular
  <2>6. Deadline'
    BY <1>1, <2>1, <2>2, <2>3 DEF Deadline, Allowed, Bounds
  <2>7. QED BY <2>4, <2>5, <2>6 DEF BudgetInv
<1>7. QED BY <1>3, <1>4, <1>5, <1>6

\* A step that takes nothing of the temporary budget, after the route is known.
Quiet ==
    /\ doc' = doc /\ reserved' = reserved /\ rendered' = rendered /\ scratch' = scratch
    /\ n' \in DOMAIN doc.units /\ todo' \subseteq DOMAIN doc.units
    /\ late' \in BOOLEAN /\ (~ late' => ~ late)
    /\ pc \notin {"snapshot", "preflight", "route"}
    /\ pc' \in (Steps \ {"snapshot", "preflight", "route", "image", "e2e"})
    /\ pc' \in Modular => pc \in Modular
    /\ pc' \in {"collect", "assemble", "done"} => pc \in Modular \cup {"collect", "assemble"}

LEMMA QuietHolds ==
    ASSUME BudgetInv, Quiet, Deadline', overrun' \in Nat
    PROVE  BudgetInv'
<1>1. /\ Bounds /\ Reserved
  BY DEF BudgetInv
<1>2. Bounds'
  BY <1>1 DEF Quiet, Bounds
<1>3. Reserved'
  BY <1>1 DEF Quiet, Reserved, Bounds, Modular, Steps
<1>4. QED BY <1>2, <1>3 DEF BudgetInv

\* The native routes, the end of the fallback, and what follows the pages.
LEMMA NativeHolds ==
    ASSUME BudgetInv,
           Office \/ Assess \/ Canonical \/ FallbackEnds \/ Refused \/ Collect \/ Assemble
    PROVE  BudgetInv'
<1>1. /\ Bounds /\ Deadline
  BY DEF BudgetInv
<1>2. \A m \in DOMAIN doc.units : m # Len(doc.units) => m + 1 \in DOMAIN doc.units
  <2> TAKE m \in DOMAIN doc.units
  <2>1. Len(doc.units) \in Nat /\ DOMAIN doc.units = 1..Len(doc.units)
    BY <1>1, Documents DEF Bounds
  <2>2. QED BY <2>1
<1>3. n + 1 \in DOMAIN doc.units \/ n = Len(doc.units)
  BY <1>1, <1>2 DEF Bounds
<1>4. Len(doc.units) \in Nat /\ n \in Nat /\ n <= Len(doc.units)
  BY <1>1, Documents DEF Bounds
<1>5. late' \in BOOLEAN /\ (~ late' => ~ late)
  BY <1>1, TimePasses DEF Office, Assess, Canonical, FallbackEnds, Refused, Collect, Assemble, Bounds
<1>o. overrun' = overrun
  BY DEF Office, Assess, Canonical, FallbackEnds, Refused, Collect, Assemble, temp
<1>6. CASE Office
  <2>1. Quiet
    BY <1>1, <1>5, <1>3, <1>6 DEF Office, Quiet, temp, Bounds, Steps, Modular
  <2>2. Deadline'
    BY <1>1, <1>5, <1>o, <1>6 DEF Office, Deadline, Allowed, Bounds
  <2>3. QED BY <1>1, <1>5, <1>o, <2>1, <2>2, QuietHolds DEF Bounds
<1>7. CASE Assess
  <2>1. Quiet
    BY <1>1, <1>5, <1>7 DEF Assess, Quiet, Checked, temp, work, Bounds, Steps, Modular
  <2>2. Deadline'
    BY <1>1, <1>5, <1>o, <1>7 DEF Assess, Deadline, Allowed, Checked, Bounds
  <2>3. QED BY <1>1, <1>5, <1>o, <2>1, <2>2, QuietHolds DEF Bounds
<1>8. CASE Canonical
  <2>1. /\ n' \in DOMAIN doc.units /\ todo' \subseteq DOMAIN doc.units
        /\ pc = "canonical" /\ pc' \in {"failed", "canonical", "fallback"}
    BY <1>1, <1>3, <1>4, <1>8 DEF Canonical, Suspicious, work, Bounds
  <2>2. Quiet
    BY <1>1, <1>5, <1>8, <2>1 DEF Canonical, Quiet, temp, Bounds, Steps, Modular
  <2>3. Deadline'
    BY <1>1, <1>5, <1>o, <1>8, <2>1 DEF Canonical, Deadline, Allowed, Bounds
  <2>4. QED BY <1>1, <1>5, <1>o, <2>2, <2>3, QuietHolds DEF Bounds
<1>9. CASE FallbackEnds
  <2>1. Quiet
    BY <1>1, <1>9 DEF FallbackEnds, Quiet, temp, Bounds, Steps, Modular
  <2>2. Deadline'
    BY <1>1, <1>5, <1>o, <1>9 DEF FallbackEnds, Deadline, Allowed, Bounds
  <2>3. QED BY <1>1, <1>5, <1>o, <2>1, <2>2, QuietHolds DEF Bounds
<1>10. CASE Refused
  <2>1. Quiet
    BY <1>1, <1>10 DEF Refused, Quiet, temp, work, Bounds, Steps, Modular
  <2>2. Deadline'
    BY <1>1, <1>5, <1>o, <1>10 DEF Refused, Deadline, Allowed, Bounds
  <2>3. QED BY <1>1, <1>5, <1>o, <2>1, <2>2, QuietHolds DEF Bounds
<1>11. CASE Collect
  <2>1. Quiet
    BY <1>1, <1>5, <1>11 DEF Collect, Quiet, Checked, temp, work, Bounds, Steps, Modular
  <2>2. Deadline'
    BY <1>1, <1>5, <1>o, <1>11 DEF Collect, Deadline, Allowed, Checked, Bounds
  <2>3. QED BY <1>1, <1>5, <1>o, <2>1, <2>2, QuietHolds DEF Bounds
<1>12. CASE Assemble
  <2>1. /\ pc = "assemble" /\ pc' \in {"failed", "done"}
    BY <1>12 DEF Assemble, Checked
  <2>2. Quiet
    BY <1>1, <1>5, <1>12, <2>1 DEF Assemble, Quiet, temp, Bounds, Steps, Modular
  <2>3. Deadline'
    BY <1>1, <1>5, <1>o, <1>12, <2>1 DEF Assemble, Deadline, Allowed, Checked, Bounds
  <2>4. QED BY <1>1, <1>5, <1>o, <2>2, <2>3, QuietHolds DEF Bounds
<1>13. QED BY <1>6, <1>7, <1>8, <1>9, <1>10, <1>11, <1>12

\* A model call that raises: the run ends, or the next page of the fallback.
LEMMA BrokenIs ==
    ASSUME Broken
    PROVE  /\ n' = n /\ (todo' = todo \/ todo' = todo \ {n})
           /\ pc' \in {"fallback", "failed"}
BY DEF Broken, work

\* The stages of one page and the merge, which take nothing of the budget.
LEMMA VisualHolds ==
    ASSUME BudgetInv,
           Visual \/ Layout \/ Ocr \/ Osd \/ Special \/ Compare \/ TableStage \/ MergePage
    PROVE  BudgetInv'
<1>1. /\ Bounds /\ Deadline
  BY DEF BudgetInv
<1>2. n \in Nat /\ DOMAIN doc.units = 1..Len(doc.units) /\ Len(doc.units) \in Nat
  BY <1>1, Documents DEF Bounds
<1>3. late' \in BOOLEAN /\ (~ late' => ~ late)
  BY <1>1, TimePasses DEF Visual, Layout, Ocr, Osd, Special, Compare, TableStage, MergePage, Call, Bounds
<1>4. doc' = doc /\ reserved' = reserved /\ rendered' = rendered /\ scratch' = scratch
  BY DEF Visual, Layout, Ocr, Osd, Special, Compare, TableStage, MergePage, temp
<1>5. \/ overrun' = overrun
      \/ overrun' = overrun + IF late THEN 1 ELSE 0
  BY DEF Visual, Layout, Ocr, Osd, Special, Compare, TableStage, MergePage, Call
<1>6. overrun' \in Nat /\ overrun' <= overrun + 1 /\ (~ late' => overrun' = 0)
  BY <1>1, <1>3, <1>5 DEF Deadline, Bounds
<1>7. /\ pc \in {"visual", "layout", "ocr", "osd", "special", "compare", "table", "merge"}
      /\ pc' \in {"failed", "fallback", "visual", "layout", "ocr", "osd", "special", "compare",
                  "table", "merge", "collect"}
      /\ n' = n \/ (n < Len(doc.units) /\ n' = n + 1)
      /\ todo' = todo \/ todo' = todo \ {n}
  BY BrokenIs
     DEF Visual, Layout, Ocr, Osd, Special, Compare, TableStage, MergePage, Checked, work
<1>8. Quiet
  <2>1. n' \in DOMAIN doc.units /\ todo' \subseteq DOMAIN doc.units
    BY <1>1, <1>2, <1>7 DEF Bounds
  <2>2. QED BY <1>3, <1>4, <1>7, <2>1 DEF Quiet, Steps, Modular
<1>9. Deadline'
  <2>1. CASE Visual
    BY <1>1, <1>3, <1>4, <2>1 DEF Visual, Checked, Deadline, Allowed, Bounds
  <2>2. CASE Layout
    <3>1. /\ pc = "layout" /\ overrun' <= 1
          /\ \/ pc' \in {"failed", "fallback"}
             \/ ~ late' /\ pc' = IF doc.routed THEN "osd" ELSE "ocr"
      BY <1>1, <1>6, <2>2, BrokenIs DEF Layout, Checked, Deadline, Allowed, Bounds
    <3>2. QED BY <1>4, <1>6, <3>1 DEF Deadline, Allowed
  <2>3. CASE Ocr
    <3>1. /\ pc = "ocr" /\ overrun' <= IF doc.routed THEN 3 ELSE 1
          /\ \/ pc' \in {"failed", "fallback"}
             \/ ~ late' /\ pc' = "table"
      BY <1>1, <1>6, <2>3, BrokenIs DEF Ocr, Checked, Deadline, Allowed, Bounds
    <3>2. QED BY <1>4, <1>6, <3>1 DEF Deadline, Allowed
  <2>4. CASE Osd
    <3>1. pc = "osd" /\ overrun' = 0 /\ doc.routed /\ pc' \in {"ocr", "special"}
      BY <1>1, <2>4 DEF Osd, Deadline, Allowed, Bounds
    <3>2. QED BY <1>4, <1>6, <3>1 DEF Deadline, Allowed
  <2>5. CASE Special
    <3>1. pc = "special" /\ overrun' <= 1 /\ doc.routed /\ pc' \in {"ocr", "compare"}
      BY <1>1, <1>6, <2>5 DEF Special, Deadline, Allowed, Bounds
    <3>2. QED BY <1>4, <1>6, <3>1 DEF Deadline, Allowed
  <2>6. CASE Compare
    <3>1. /\ pc = "compare" /\ overrun' <= 2 /\ doc.routed
          /\ pc' \in {"ocr", "failed"} \/ (~ late' /\ pc' = "table")
      BY <1>1, <1>6, <2>6 DEF Compare, Checked, Deadline, Allowed, Bounds
    <3>2. QED BY <1>4, <1>6, <3>1 DEF Deadline, Allowed
  <2>7. CASE TableStage
    <3>1. pc = "table" /\ overrun = 0
      BY <1>1, <2>7 DEF TableStage, Deadline, Allowed, Bounds
    <3>2. \/ pc' = "merge" /\ overrun' = overrun
          \/ pc' \in {"failed", "fallback"}
          \/ ~ late' /\ pc' = "merge"
      BY <2>7, BrokenIs DEF TableStage, Checked
    <3>3. QED BY <1>4, <1>6, <3>1, <3>2 DEF Deadline, Allowed
  <2>8. CASE MergePage
    <3>1. pc = "merge" /\ overrun' = overrun /\ pc' \in {"fallback", "visual", "collect"}
      BY <2>8 DEF MergePage
    <3>2. overrun = 0
      BY <1>1, <3>1 DEF Deadline, Allowed, Bounds
    <3>3. QED BY <1>4, <1>6, <3>1, <3>2 DEF Deadline, Allowed
  <2>9. QED BY <2>1, <2>2, <2>3, <2>4, <2>5, <2>6, <2>7, <2>8
<1>10. QED BY <1>6, <1>8, <1>9, QuietHolds

\* The steps that write a raster: each was reserved, now or by the preflight.
LEMMA RasterHolds ==
    ASSUME BudgetInv, Render \/ RenderAgain \/ RenderImage
    PROVE  BudgetInv'
<1>1. /\ Bounds /\ Reserved /\ Deadline
  BY DEF BudgetInv
<1>2. /\ MaxTemp \in Nat /\ n \in Nat /\ DOMAIN doc.units = 1..Len(doc.units) /\ Len(doc.units) \in Nat
      /\ \A k \in DOMAIN doc.units : doc.units[k].raster \in Nat
  BY <1>1, Documents DEF Bounds
<1>3. late' \in BOOLEAN /\ (~ late' => ~ late)
  BY <1>1, TimePasses DEF Render, RenderAgain, RenderImage, Bounds
<1>4. doc' = doc /\ scratch' = scratch /\ overrun' = overrun /\ todo' = todo
  BY DEF Render, RenderAgain, RenderImage, work
<1>5. \A k \in DOMAIN doc.units, c \in Nat :
         (reserved' = reserved + c /\ c = doc.units[k].raster /\ Affordable(doc.units[k].raster))
            => reserved' <= MaxTemp
  BY DEF Affordable
<1>6. /\ pc \in {"render", "fallback", "image"} /\ pc' \in {"failed", "render", "visual"}
      /\ pc' = "render" => pc = "render"
  BY DEF Render, RenderAgain, RenderImage, Rendered, Checked
<1>7. n' \in DOMAIN doc.units
  BY <1>1, <1>2 DEF Render, RenderAgain, RenderImage, work, Bounds
<1>8. \/ reserved' = reserved /\ rendered' = rendered
      \/ \E c \in Nat : /\ reserved' = reserved + c /\ rendered' = rendered + c
                        /\ reserved' <= MaxTemp
      \/ /\ pc = "image" /\ reserved' = reserved /\ rendered' = rendered + unit.raster
  <2>1. CASE Render
    <3>1. unit.raster \in Nat /\ unit = doc.units[n]
      BY <1>1, <1>2 DEF Bounds, unit
    <3>2. QED BY <2>1, <3>1 DEF Render, Rendered, Affordable
  <2>2. CASE RenderAgain
    <3>1. doc.units[n'].raster \in Nat
      BY <1>2, <1>7
    <3>2. QED BY <2>2, <3>1 DEF RenderAgain, Rendered, Affordable
  <2>3. CASE RenderImage
    BY <2>3 DEF RenderImage
  <2>4. QED BY <2>1, <2>2, <2>3
<1>9. /\ reserved' \in Nat /\ rendered' \in Nat
      /\ rendered' <= reserved' /\ reserved' <= MaxTemp
  <2>1. unit.raster \in Nat
    BY <1>1, <1>2 DEF Bounds, unit
  <2>2. reserved \in Nat /\ rendered \in Nat /\ rendered <= reserved /\ reserved <= MaxTemp
    BY <1>1 DEF Bounds, Reserved
  <2>3. pc = "image" => rendered + unit.raster <= reserved
    BY <1>1 DEF Reserved
  <2>4. QED BY <1>8, <2>1, <2>2, <2>3
<1>10. Bounds'
  BY <1>1, <1>3, <1>4, <1>6, <1>7, <1>9 DEF Bounds, Steps
<1>11. Reserved'
  BY <1>1, <1>4, <1>6, <1>9 DEF Reserved, Modular
<1>12. Deadline'
  <2>1. overrun' <= IF pc = "fallback" THEN (IF doc.routed THEN 3 ELSE 1) ELSE 0
    BY <1>1, <1>4, <1>6 DEF Deadline, Allowed
  <2>2. pc' = "failed" \/ pc \in {"render", "image"} \/ ~ late'
    BY DEF Render, RenderAgain, RenderImage, Rendered, Checked
  <2>3. QED BY <1>1, <1>3, <1>4, <1>6, <2>1, <2>2 DEF Deadline, Allowed, Bounds
<1>13. QED BY <1>10, <1>11, <1>12 DEF BudgetInv

\* The whole-document model, which may leave files in its scratch directory.
LEMMA PredictHolds ==
    ASSUME BudgetInv, Predict
    PROVE  BudgetInv'
<1>1. /\ Bounds /\ Reserved /\ Deadline
  BY DEF BudgetInv
<1>2. late' \in BOOLEAN /\ (~ late' => ~ late)
  BY <1>1, TimePasses DEF Predict, Bounds
<1>3. /\ doc' = doc /\ n' = n /\ todo' = todo /\ reserved' = reserved /\ rendered' = rendered
      /\ overrun' = overrun /\ pc = "e2e" /\ pc' \in {"failed", "collect"}
      /\ \/ scratch' = 0
         \/ \E more \in 0..MaxScratch : /\ scratch' = scratch + more
                                        /\ scratch + more <= MaxTemp - reserved
      /\ pc' = "collect" => scratch' <= MaxTemp - reserved
  BY DEF Predict, Checked
<1>4. scratch' \in Nat /\ doc.engine = "e2e"
  BY <1>1, <1>3, Documents DEF Bounds, Reserved
<1>5. overrun' = 0
  BY <1>1, <1>3 DEF Deadline, Allowed, Bounds
<1>6. Bounds'
  BY <1>1, <1>2, <1>3, <1>4 DEF Bounds, Steps
<1>7. Reserved'
  <2>1. /\ rendered' <= reserved' /\ reserved' <= MaxTemp
    BY <1>1, <1>3 DEF Reserved
  <2>2. pc' = "collect" => reserved' + scratch' <= MaxTemp
    <3>1. reserved \in Nat /\ MaxTemp \in Nat
      BY <1>1, Documents DEF Bounds
    <3>2. pc' = "collect" => scratch' <= MaxTemp - reserved
      BY <1>3
    <3>3. reserved' = reserved
      BY <1>3
    <3>4. \A a, b, c \in Nat : b <= c - a => a + b <= c
      OBVIOUS
    <3>5. scratch' <= MaxTemp - reserved => reserved + scratch' <= MaxTemp
      BY ONLY <3>1, <3>4, <1>4
    <3>6. QED BY <3>2, <3>3, <3>5
  <2>3. QED BY <1>3, <1>4, <2>1, <2>2 DEF Reserved, Modular
<1>8. Deadline'
  BY <1>3, <1>5 DEF Deadline, Allowed
<1>9. QED BY <1>6, <1>7, <1>8 DEF BudgetInv

LEMMA StepBudget == BudgetInv /\ [Next]_vars => BudgetInv'
<1> SUFFICES ASSUME BudgetInv, [Next]_vars PROVE BudgetInv'
  OBVIOUS
<1>1. CASE Tick \/ Snapshot \/ Preflight \/ Route
  BY <1>1, BeforeHolds
<1>2. CASE Office \/ Assess \/ Canonical \/ FallbackEnds \/ Refused \/ Collect \/ Assemble
  BY <1>2, NativeHolds
<1>3. CASE Render \/ RenderAgain \/ RenderImage
  BY <1>3, RasterHolds
<1>4. CASE Visual \/ Layout \/ Ocr \/ Osd \/ Special \/ Compare \/ TableStage \/ MergePage
  BY <1>4, VisualHolds
<1>5. CASE Predict
  BY <1>5, PredictHolds
<1>6. CASE RecoverElements \/ RecoverOrder
  <2>1. /\ Bounds /\ Deadline
    BY DEF BudgetInv
  <2>2. /\ pc = "done" /\ pc' \in {"fused", "reordered"} /\ overrun' = overrun /\ late' = late
        /\ doc' = doc /\ n' = n /\ todo' = todo /\ reserved' = reserved /\ rendered' = rendered
        /\ scratch' = scratch
    BY <1>6 DEF RecoverElements, RecoverOrder, temp
  <2>3. QED
    BY <2>1, <2>2 DEF BudgetInv, Bounds, Reserved, Deadline, Allowed, Modular, Steps
<1>7. CASE UNCHANGED vars
  BY <1>7 DEF vars, BudgetInv, Bounds, Reserved, Deadline, Allowed, unit
<1>8. QED BY <1>1, <1>2, <1>3, <1>4, <1>5, <1>6, <1>7 DEF Next

-----------------------------------------------------------------------------
(* Whatever the document, the installed backends, the failures of the      *)
(* models and the moment the deadline falls: the rasters on disk were      *)
(* reserved, the reservations and the scratch of an accepted result fit    *)
(* max_temp_bytes, and the calls begun late are as many as RoutedOCRBackend*)
(* allows (ResourceGuard, limits.py).                                      *)
THEOREM BudgetsHold == Spec => []WithinBudget
<1>1. BudgetInv => WithinBudget
  <2> SUFFICES ASSUME BudgetInv PROVE WithinBudget
    OBVIOUS
  <2>1. Bounds /\ Reserved /\ Deadline
    BY DEF BudgetInv
  <2>2. overrun <= IF doc.routed THEN 3 ELSE 1
    BY <2>1 DEF Bounds, Deadline, Allowed
  <2>3. QED BY <2>1, <2>2 DEF Reserved, WithinBudget
<1>2. QED BY InitBudget, StepBudget, <1>1, PTL DEF Spec

-----------------------------------------------------------------------------
\* The stages of one page.
Stages == {"visual", "layout", "osd", "special", "compare", "ocr", "table", "merge"}

\* What the pages are, before verify_document has written its notes.
Built ==
    /\ \E S : pages \in Seq(S)
    /\ \A i \in DOMAIN pages : {"route", "notes"} \subseteq DOMAIN pages[i]
    /\ pc \notin Ended => \A i \in DOMAIN pages : "verification" \notin pages[i].notes

Status ==
    /\ pc = "assemble" => warned = \E i \in DOMAIN pages : pages[i].notes # {}
    /\ pc = "done" => warned = \E i \in DOMAIN pages : pages[i].notes \ {"verification"} # {}

\* Which steps belong to the digital route, and which page is at hand there.
Way ==
    /\ pc \in {"snapshot", "preflight", "route", "digital"} => pages = <<>> /\ n = 1
    /\ pc = "canonical" => Len(pages) = n - 1
    /\ pc \in {"digital", "canonical", "fallback"} => route = "digital_pdf"
    /\ pc \in {"office", "render", "image", "e2e"} => route # "digital_pdf"
    /\ route = "digital_pdf" /\ pc \in Stages => n \in todo
    /\ route = "digital_pdf" /\ pc \in {"collect", "assemble", "done"} => todo = {}

\* A page is as its text asks for, or still to be extracted again.
Handled(k) ==
    IF doc.units[k].text = "garbled"
    THEN k \in todo \/ pages[k].route = "digital_pdf+page_fallback" \/ "SUSPECT" \in pages[k].notes
    ELSE pages[k].route = "digital_pdf"
Marks ==
    /\ pc = "canonical" => \A i \in DOMAIN pages : pages[i].route = "digital_pdf"
    /\ route = "digital_pdf" /\ pc \in Stages \cup {"fallback", "collect", "assemble", "done"} =>
         /\ todo \subseteq Suspicious
         /\ doc.fallback => \A k \in DOMAIN pages : Handled(k)

MarkInv == Built /\ Status /\ Way /\ Marks

LEMMA InitMarks == Init => MarkInv
<1> SUFFICES ASSUME Init PROVE MarkInv
  OBVIOUS
<1>1. pages = <<>> /\ pc = "snapshot" /\ n = 1
  BY DEF Init
<1>2. Built
  <2>1. pages \in Seq({})
    BY <1>1
  <2>2. QED BY <1>1, <2>1 DEF Built
<1>3. Status /\ Way /\ Marks
  BY <1>1 DEF Status, Way, Marks, Stages
<1>4. QED BY <1>2, <1>3 DEF MarkInv

\* The steps that leave pages, route, pages to do and status alone.
Calm ==
    /\ doc' = doc /\ pages' = pages /\ route' = route /\ todo' = todo /\ warned' = warned
    /\ \/ pc' = "failed"
       \/ n' = n /\ pc' = pc
       \/ n' = n /\ {pc, pc'} \subseteq {"snapshot", "preflight", "route"}
       \/ n' = n /\ pc = "digital" /\ pc' = "canonical"
       \/ n' = n /\ {pc, pc'} \subseteq Stages
       \/ pc \in {"render", "image"} /\ pc' \in {"render", "visual"}
       \/ pc = "fallback" /\ pc' = "visual" /\ n' \in todo

LEMMA CalmHolds ==
    ASSUME MarkInv, Calm
    PROVE  MarkInv'
<1>1. Built /\ Status /\ Way /\ Marks
  BY DEF MarkInv
<1>2. Built'
  <2>1. (\E S : pages \in Seq(S))'
    BY <1>1 DEF Built, Calm
  <2>2. pc' \notin Ended => pc \notin Ended
    BY DEF Calm, Ended, Stages
  <2>3. QED BY <1>1, <2>1, <2>2 DEF Built, Calm
<1>3. Status'
  <2>1. pc' \in {"assemble", "done"} => pc' = pc
    BY DEF Calm, Stages
  <2>2. QED BY <1>1, <2>1 DEF Status, Calm
<1>4. Way'
  <2>1. pc = "digital" => Len(pages) = n - 1
    BY <1>1 DEF Way
  <2>2. QED BY <1>1, <2>1 DEF Way, Calm, Stages
<1>5. Marks'
  <2>1. pc = "digital" => DOMAIN pages = {}
    BY <1>1 DEF Way
  <2>2. Suspicious' = Suspicious /\ \A k \in DOMAIN pages : Handled(k)' <=> Handled(k)
    BY DEF Suspicious, Handled, Calm
  <2>3. QED BY <1>1, <2>1, <2>2 DEF Marks, Way, Calm, Stages
<1>6. QED BY <1>2, <1>3, <1>4, <1>5 DEF MarkInv

LEMMA Calms ==
    ASSUME \/ Tick \/ Snapshot \/ Preflight \/ Assess \/ Visual \/ Osd \/ Special \/ Compare
           \/ Render \/ RenderAgain \/ RenderImage \/ Refused
    PROVE  Calm
<1>1. CASE Tick \/ Snapshot \/ Preflight \/ Assess \/ Refused
  BY <1>1 DEF Tick, Snapshot, Preflight, Assess, Refused, Calm, Checked, work
<1>2. CASE Visual \/ Osd \/ Special \/ Compare
  BY <1>2 DEF Visual, Osd, Special, Compare, Calm, Checked, work, Stages
<1>3. CASE Render \/ RenderAgain \/ RenderImage
  BY <1>3 DEF Render, RenderAgain, RenderImage, Rendered, Calm, Checked, work
<1>4. QED BY <1>1, <1>2, <1>3

\* What the operators that build a page say of it.
Plain(p) == {"route", "notes"} \subseteq DOMAIN p /\ "verification" \notin p.notes

LEMMA PageIs ==
    ASSUME NEW how, NEW width, NEW elements, NEW tables, NEW notes
    PROVE  /\ {"route", "notes"} \subseteq DOMAIN Page(how, width, elements, tables, notes)
           /\ Page(how, width, elements, tables, notes).route = how
           /\ Page(how, width, elements, tables, notes).notes = notes
BY DEF Page

LEMMA OfficeIs == \A u : Plain(OfficePage(u))
<1> SUFFICES ASSUME NEW u PROVE Plain(OfficePage(u))
  OBVIOUS
<1> DEFINE notes == IF u.source.form = "xlsx" /\ u.source.body.rows * u.source.body.cols > MaxCells
                    THEN {"truncated"} ELSE {}
<1>1. OfficePage(u) = Page("native_office", 0, <<Element(<<"e", 1>>, "table", NoBox, <<>>, 1)>>,
                           <<OfficeTable(u.source)>>, notes)
  BY DEF OfficePage
<1>2. "verification" \notin notes
  OBVIOUS
<1> HIDE DEF notes
<1>3. QED BY <1>1, <1>2, PageIs DEF Plain

LEMMA NativeIs == \A u : Plain(NativePage(u)) /\ NativePage(u).route = "digital_pdf"
<1> SUFFICES ASSUME NEW u PROVE Plain(NativePage(u)) /\ NativePage(u).route = "digital_pdf"
  OBVIOUS
<1>1. NativePage(u) = Page("digital_pdf", u.width, NativeElements(u, FoundTables(u)), FoundTables(u),
                           NativeNotes(u, FoundTables(u)))
  BY DEF NativePage
<1>2. "verification" \notin NativeNotes(u, FoundTables(u))
  BY DEF NativeNotes
<1>3. QED BY <1>1, <1>2, PageIs DEF Plain

LEMMA VisualIs ==
    \A u, how, tables : Plain(VisualPage(u, how, tables)) /\ VisualPage(u, how, tables).route = how
<1> SUFFICES ASSUME NEW u, NEW how, NEW tables
             PROVE  Plain(VisualPage(u, how, tables)) /\ VisualPage(u, how, tables).route = how
  OBVIOUS
<1>1. PICK filled, owned, e : VisualPage(u, how, tables) =
          Page(how, u.width, e, filled, Merge(u.tokens, u.regions, filled, owned).notes)
  BY DEF VisualPage
<1>2. \A orphans, laid : "verification" \notin Notes(u.tokens, u.regions, filled, orphans, laid)
  BY DEF Notes
<1>3. "verification" \notin Merge(u.tokens, u.regions, filled, owned).notes
  BY <1>2 DEF Merge
<1>4. QED BY <1>1, <1>3, PageIs DEF Plain

LEMMA Appended ==
    ASSUME MarkInv, NEW p, Plain(p), pages' = Append(pages, p), pc \notin Ended
    PROVE  /\ Built' /\ Len(pages) \in Nat /\ DOMAIN pages = 1..Len(pages)
           /\ Len(pages') = Len(pages) + 1 /\ DOMAIN pages' = 1..Len(pages) + 1
           /\ \A i \in DOMAIN pages : pages'[i] = pages[i]
           /\ pages'[Len(pages) + 1] = p
<1>1. Built
  BY DEF MarkInv
<1>2. PICK S : pages \in Seq(S)
  BY <1>1 DEF Built
<1>3. DEFINE T == S \cup {p}
<1>4. pages \in Seq(T)
  BY <1>2
<1>5. /\ pages' \in Seq(T) /\ Len(pages') = Len(pages) + 1
      /\ \A i \in 1..Len(pages) : pages'[i] = pages[i]
      /\ pages'[Len(pages) + 1] = p
  BY <1>4, AppendProperties
<1>6. /\ Len(pages) \in Nat /\ DOMAIN pages = 1..Len(pages)
      /\ DOMAIN pages' = 1..Len(pages) + 1
  BY <1>4, <1>5
<1>7. \A i \in DOMAIN pages' : i \in DOMAIN pages \/ i = Len(pages) + 1
  BY <1>6
<1>8. \A i \in DOMAIN pages' : Plain(pages'[i])
  BY <1>1, <1>5, <1>6, <1>7 DEF Built, Plain
<1>9. Built'
  <2>1. (\E R : pages \in Seq(R))'
    BY <1>5
  <2>2. QED BY <2>1, <1>8 DEF Built, Plain
<1>10. QED BY <1>5, <1>6, <1>9

\* A page for a page: the sequence stays one.
LEMMA OneForOne ==
    ASSUME \E S : pages \in Seq(S), NEW f, pages' = [i \in DOMAIN pages |-> f[i]]
    PROVE  (\E S : pages \in Seq(S))' /\ DOMAIN pages' = DOMAIN pages
<1>1. PICK S : pages \in Seq(S)
  OBVIOUS
<1>2. DOMAIN pages = 1..Len(pages) /\ Len(pages) \in Nat
  BY <1>1
<1>3. DEFINE T == {f[i] : i \in DOMAIN pages}
<1>4. pages' \in Seq(T)
  BY <1>2
<1>5. QED BY <1>4

LEMMA MarkedIs ==
    ASSUME MarkInv, NEW M, pages' = Marked(M), pc \notin Ended
    PROVE  /\ Built' /\ DOMAIN pages' = DOMAIN pages
           /\ \A i \in DOMAIN pages : /\ pages'[i].route = pages[i].route
                                      /\ pages[i].notes \subseteq pages'[i].notes
                                      /\ i \in M => "SUSPECT" \in pages'[i].notes
<1>1. Built
  BY DEF MarkInv
<1>2. DEFINE f == Marked(M)
<1>3. pages' = [i \in DOMAIN pages |-> f[i]]
  BY DEF Marked
<1>4. (\E S : pages \in Seq(S))' /\ DOMAIN pages' = DOMAIN pages
  BY <1>1, <1>3, OneForOne DEF Built
<1>5. \A i \in DOMAIN pages :
         pages'[i] = IF i \in M THEN [pages[i] EXCEPT !.notes = @ \cup {"SUSPECT"}] ELSE pages[i]
  BY DEF Marked
<1>6. ASSUME NEW i \in DOMAIN pages
      PROVE  /\ pages'[i].route = pages[i].route
             /\ pages[i].notes \subseteq pages'[i].notes
             /\ i \in M => "SUSPECT" \in pages'[i].notes
             /\ {"route", "notes"} \subseteq DOMAIN pages'[i]
             /\ "verification" \notin pages'[i].notes
  <2>1. {"route", "notes"} \subseteq DOMAIN pages[i] /\ "verification" \notin pages[i].notes
    BY <1>1, <1>6 DEF Built
  <2>2. pages'[i] = IF i \in M THEN [pages[i] EXCEPT !.notes = pages[i].notes \cup {"SUSPECT"}]
                    ELSE pages[i]
    BY <1>5, <1>6
  <2>3. CASE i \in M
    BY <2>1, <2>2, <2>3
  <2>4. CASE i \notin M
    BY <2>1, <2>2, <2>4
  <2>5. QED BY <2>3, <2>4
<1>7. QED BY <1>4, <1>6 DEF Built

LEMMA E2eIs == \A u : Plain(E2ePage(u))
<1> SUFFICES ASSUME NEW u PROVE Plain(E2ePage(u))
  OBVIOUS
<1> DEFINE notes == IF Len(WithCells(u)) < Len(u.html) THEN {"unsupported"} ELSE {}
<1>1. E2ePage(u).notes = notes /\ {"route", "notes"} \subseteq DOMAIN E2ePage(u)
  BY DEF E2ePage, Page
<1>2. "verification" \notin notes
  OBVIOUS
<1>3. QED BY <1>1, <1>2 DEF Plain

\* The route is chosen before there is a page.
LEMMA RouteMarks == ASSUME MarkInv, Route PROVE MarkInv'
<1>1. Built /\ Way
  BY DEF MarkInv
<1>2. /\ pc = "route" /\ doc' = doc /\ pages' = pages /\ n' = n /\ todo' = todo
      /\ route' = RouteOf /\ (pc' = "failed" \/ pc' = StepOf(RouteOf))
  BY DEF Route, work, Checked
<1>3. pages = <<>> /\ n = 1
  BY <1>1, <1>2 DEF Way
<1>4. /\ pc' \in {"office", "digital", "render", "image", "e2e", "failed"}
      /\ pc' = "digital" => route' = "digital_pdf"
      /\ pc' \in {"office", "render", "image", "e2e"} => route' # "digital_pdf"
  <2>1. RouteOf \in {"native_office", "image", "digital_pdf", "scanned_pdf", "none", "e2e"}
    BY DEF RouteOf
  <2>2. QED BY <1>2, <2>1 DEF StepOf
<1>5. Built'
  <2>1. (\E S : pages \in Seq(S))'
    BY <1>1, <1>2 DEF Built
  <2>2. QED BY <1>2, <1>3, <2>1 DEF Built
<1>6. Status' /\ Way' /\ Marks'
  BY <1>2, <1>3, <1>4 DEF Status, Way, Marks, Stages
<1>7. QED BY <1>5, <1>6 DEF MarkInv

LEMMA OfficeMarks == ASSUME MarkInv, Office PROVE MarkInv'
<1>1. Built /\ Way
  BY DEF MarkInv
<1>2. /\ pc = "office" /\ doc' = doc /\ route' = route /\ todo' = todo /\ warned' = warned
      /\ \/ pc' = "failed" /\ pages' = pages
         \/ pages' = Append(pages, OfficePage(unit)) /\ pc' \in {"collect", "office"}
  BY DEF Office
<1>3. route # "digital_pdf"
  BY <1>1, <1>2 DEF Way
<1>4. CASE pc' = "failed" /\ pages' = pages
  BY <1>2, <1>4, CalmHolds DEF Calm
<1>5. CASE pages' = Append(pages, OfficePage(unit)) /\ pc' \in {"collect", "office"}
  <2>1. Built'
    BY <1>2, <1>5, OfficeIs, Appended DEF Ended
  <2>2. Status' /\ Way' /\ Marks'
    BY <1>2, <1>3, <1>5 DEF Status, Way, Marks, Stages
  <2>3. QED BY <2>1, <2>2 DEF MarkInv
<1>6. QED BY <1>2, <1>4, <1>5

\* The second loop of parse_digital_pdf; at its end the suspicious pages are
\* those whose text is garbled.
LEMMA CanonicalMarks == ASSUME MarkInv, BudgetInv, Canonical PROVE MarkInv'
<1>1. Built /\ Way /\ Marks /\ Bounds
  BY DEF MarkInv, BudgetInv
<1>2. /\ pc = "canonical" /\ doc' = doc /\ route' = route /\ warned' = warned
      /\ \/ pc' = "failed" /\ pages' = pages /\ todo' = todo
         \/ /\ pages' = Append(pages, NativePage(unit))
            /\ \/ pc' = "canonical" /\ n' = n + 1
               \/ pc' = "fallback" /\ todo' = IF doc.fallback THEN Suspicious ELSE {}
  BY DEF Canonical, work
<1>3. route = "digital_pdf" /\ Len(pages) = n - 1 /\ n \in DOMAIN doc.units
      /\ \A i \in DOMAIN pages : pages[i].route = "digital_pdf"
  BY <1>1, <1>2 DEF Way, Marks, Bounds
<1>4. CASE pc' = "failed" /\ pages' = pages /\ todo' = todo
  BY <1>2, <1>4, CalmHolds DEF Calm
<1>5. CASE pages' = Append(pages, NativePage(unit))
  <2>1. Plain(NativePage(unit)) /\ NativePage(unit).route = "digital_pdf"
    BY NativeIs
  <2>2. /\ Built' /\ Len(pages) \in Nat /\ DOMAIN pages = 1..Len(pages)
        /\ Len(pages') = Len(pages) + 1 /\ DOMAIN pages' = 1..Len(pages) + 1
        /\ \A i \in DOMAIN pages : pages'[i] = pages[i]
        /\ pages'[Len(pages) + 1] = NativePage(unit)
    BY <1>2, <1>5, <2>1, Appended DEF Ended
  <2>3. \A i \in DOMAIN pages' : pages'[i].route = "digital_pdf"
    BY <1>3, <2>1, <2>2
  <2>4. DOMAIN doc.units = 1..Len(doc.units) /\ n \in Nat /\ Len(doc.units) \in Nat
    BY <1>1, Documents DEF Bounds
  <2>5. DOMAIN pages' \subseteq DOMAIN doc.units
    BY <1>3, <2>2, <2>4
  <2>6. CASE pc' = "canonical" /\ n' = n + 1
    <3>1. Len(pages') = n' - 1
      BY <1>3, <2>2, <2>4, <2>6
    <3>2. Status' /\ Way' /\ Marks'
      BY <1>2, <1>3, <2>3, <2>6, <3>1 DEF Status, Way, Marks, Stages
    <3>3. QED BY <2>2, <3>2 DEF MarkInv
  <2>7. CASE pc' = "fallback" /\ todo' = IF doc.fallback THEN Suspicious ELSE {}
    <3>1. Status' /\ Way'
      BY <1>2, <1>3, <2>7 DEF Status, Way, Stages
    <3>2. Suspicious' = Suspicious
      BY <1>2 DEF Suspicious
    <3>3. ASSUME doc.fallback PROVE \A k \in DOMAIN pages' : Handled(k)'
      BY <1>2, <2>3, <2>5, <2>7, <3>3 DEF Handled, Suspicious
    <3>4. Marks'
      BY <1>2, <2>7, <3>2, <3>3 DEF Marks
    <3>5. QED BY <2>2, <3>1, <3>4 DEF MarkInv
  <2>8. QED BY <1>2, <1>5, <2>6, <2>7
<1>6. QED BY <1>2, <1>4, <1>5

\* Pages that are marked leave the list of what is to do.
LEMMA MarkingHandles ==
    ASSUME MarkInv, NEW M, pages' = Marked(M), todo' = todo \ M, doc' = doc,
           route = "digital_pdf", pc \in Stages \cup {"fallback"}
    PROVE  Built' /\ todo' \subseteq Suspicious' /\ (doc.fallback => \A k \in DOMAIN pages' : Handled(k)')
<1>1. Marks
  BY DEF MarkInv
<1>2. /\ Built' /\ DOMAIN pages' = DOMAIN pages
      /\ \A i \in DOMAIN pages : /\ pages'[i].route = pages[i].route
                                 /\ pages[i].notes \subseteq pages'[i].notes
                                 /\ i \in M => "SUSPECT" \in pages'[i].notes
  BY MarkedIs DEF Stages, Ended
<1>3. /\ todo \subseteq Suspicious /\ Suspicious' = Suspicious
      /\ doc.fallback => \A k \in DOMAIN pages : Handled(k)
  BY <1>1 DEF Marks, Suspicious
<1>4. ASSUME doc.fallback, NEW k \in DOMAIN pages' PROVE Handled(k)'
  BY <1>2, <1>3, <1>4 DEF Handled
<1>5. QED BY <1>2, <1>3, <1>4

LEMMA FallbackEndsMarks == ASSUME MarkInv, FallbackEnds PROVE MarkInv'
<1>1. Built /\ Way /\ Marks
  BY DEF MarkInv
<1>2. /\ pc = "fallback" /\ pc' = "collect" /\ doc' = doc /\ route' = route /\ todo' = {}
      /\ (pages' = pages /\ todo = {}) \/ pages' = Marked(todo)
  BY DEF FallbackEnds
<1>3. route = "digital_pdf"
  BY <1>1, <1>2 DEF Way
<1>4. Built' /\ todo' \subseteq Suspicious' /\ (doc.fallback => \A k \in DOMAIN pages' : Handled(k)')
  <2>1. CASE pages' = pages /\ todo = {}
    <3>1. Built'
      <4>1. (\E S : pages \in Seq(S))'
        BY <1>1, <2>1 DEF Built
      <4>2. QED BY <1>1, <1>2, <2>1, <4>1 DEF Built, Ended
    <3>2. doc.fallback => \A k \in DOMAIN pages : Handled(k)
      BY <1>1, <1>2, <1>3 DEF Marks
    <3>3. QED BY <1>2, <2>1, <3>1, <3>2 DEF Handled
  <2>2. CASE pages' = Marked(todo)
    BY <1>2, <1>3, <2>2, MarkingHandles
  <2>3. QED BY <1>2, <2>1, <2>2
<1>5. Status' /\ Way' /\ Marks'
  BY <1>2, <1>3, <1>4 DEF Status, Way, Marks, Stages
<1>6. QED BY <1>4, <1>5 DEF MarkInv

\* A model call that raises, in a run that fails or in the fallback.
LEMMA BrokenMarks ==
    ASSUME MarkInv, Broken, pc \in Stages, doc' = doc, route' = route, warned' = warned
    PROVE  MarkInv'
<1>1. CASE route # "digital_pdf"
  BY <1>1, CalmHolds DEF Broken, work, Calm
<1>2. CASE route = "digital_pdf"
  <2>1. pages' = Marked({n}) /\ todo' = todo \ {n} /\ pc' = "fallback"
    BY <1>2 DEF Broken
  <2>2. Built' /\ todo' \subseteq Suspicious' /\ (doc.fallback => \A k \in DOMAIN pages' : Handled(k)')
    BY <1>2, <2>1, MarkingHandles
  <2>3. Status' /\ Way' /\ Marks'
    BY <1>2, <2>1, <2>2 DEF Status, Way, Marks, Stages
  <2>4. QED BY <2>2, <2>3 DEF MarkInv
<1>3. QED BY <1>1, <1>2

LEMMA CallMarks == ASSUME MarkInv, Layout \/ Ocr \/ TableStage PROVE MarkInv'
<1>1. /\ pc \in Stages /\ doc' = doc /\ route' = route /\ warned' = warned
  BY DEF Layout, Ocr, TableStage, Stages
<1>2. Broken \/ Calm
  BY DEF Layout, Ocr, TableStage, Checked, Calm, work, Stages
<1>3. QED BY <1>1, <1>2, BrokenMarks, CalmHolds

\* A page extracted again takes the place of the one it was made from.
LEMMA MergeMarks == ASSUME MarkInv, MergePage PROVE MarkInv'
<1>1. Built /\ Way /\ Marks
  BY DEF MarkInv
<1>2. pc = "merge" /\ doc' = doc /\ route' = route /\ warned' = warned
  BY DEF MergePage
<1>3. CASE route = "digital_pdf"
  <2> DEFINE page == VisualPage(unit, "digital_pdf+page_fallback", found)
             again == [page EXCEPT !.notes = pages[n].notes \cup {"re-extracted"}]
  <2>1. pages' = [pages EXCEPT ![n] = again] /\ todo' = todo \ {n} /\ pc' = "fallback"
    BY <1>3 DEF MergePage
  <2>2. Plain(page) /\ page.route = "digital_pdf+page_fallback"
    BY VisualIs
  <2>3. /\ {"route", "notes"} \subseteq DOMAIN again /\ again.route = "digital_pdf+page_fallback"
        /\ again.notes = pages[n].notes \cup {"re-extracted"}
    <3> HIDE DEF page
    <3>1. QED BY <2>2 DEF Plain
  <2> HIDE DEF again
  <2>4. DEFINE f == [i \in DOMAIN pages |-> IF i = n THEN again ELSE pages[i]]
  <2>5. pages' = [i \in DOMAIN pages |-> f[i]]
    BY <2>1
  <2>6. (\E S : pages \in Seq(S))' /\ DOMAIN pages' = DOMAIN pages
    BY <1>1, <2>5, OneForOne DEF Built
  <2>7. \A i \in DOMAIN pages : pages'[i] = IF i = n THEN again ELSE pages[i]
    BY <2>1
  <2>8. Built'
    <3>1. ASSUME NEW i \in DOMAIN pages
          PROVE  {"route", "notes"} \subseteq DOMAIN pages'[i] /\ "verification" \notin pages'[i].notes
      BY <1>1, <1>2, <2>3, <2>7, <3>1 DEF Built, Ended
    <3>2. QED BY <2>6, <3>1 DEF Built
  <2>9. /\ n \in todo /\ todo \subseteq Suspicious /\ Suspicious' = Suspicious
        /\ doc.fallback => \A k \in DOMAIN pages : Handled(k)
    BY <1>1, <1>2, <1>3 DEF Way, Marks, Stages, Suspicious
  <2>10. ASSUME doc.fallback, NEW k \in DOMAIN pages' PROVE Handled(k)'
    <3>1. CASE k = n
      <4>1. doc.units[k].text = "garbled"
        BY <2>9, <3>1 DEF Suspicious
      <4>2. QED BY <1>2, <2>3, <2>6, <2>7, <2>10, <3>1, <4>1 DEF Handled
    <3>2. CASE k # n
      BY <1>2, <2>1, <2>6, <2>7, <2>9, <2>10, <3>2 DEF Handled
    <3>3. QED BY <3>1, <3>2
  <2>11. Status' /\ Way' /\ Marks'
    BY <1>2, <1>3, <2>1, <2>9, <2>10 DEF Status, Way, Marks, Stages
  <2>12. QED BY <2>8, <2>11 DEF MarkInv
<1>4. CASE route # "digital_pdf"
  <2>1. pages' = Append(pages, VisualPage(unit, route, found)) /\ pc' \in {"visual", "collect"}
    BY <1>4 DEF MergePage
  <2>2. Built'
    BY <1>2, <2>1, VisualIs, Appended DEF Ended
  <2>3. Status' /\ Way' /\ Marks'
    BY <1>2, <1>4, <2>1 DEF Status, Way, Marks, Stages
  <2>4. QED BY <2>2, <2>3 DEF MarkInv
<1>5. QED BY <1>3, <1>4

LEMMA PredictMarks == ASSUME MarkInv, Predict PROVE MarkInv'
<1>1. Built /\ Way
  BY DEF MarkInv
<1>2. /\ pc = "e2e" /\ doc' = doc /\ route' = route /\ n' = n /\ todo' = todo /\ warned' = warned
      /\ \/ pages' = <<E2ePage(unit)>> /\ pc' \in {"collect", "failed"}
         \/ pages' = pages /\ pc' = "failed"
  BY DEF Predict, Checked
<1>3. route # "digital_pdf"
  BY <1>1, <1>2 DEF Way
<1>4. CASE pages' = <<E2ePage(unit)>> /\ pc' \in {"collect", "failed"}
  <2>1. Plain(E2ePage(unit))
    BY E2eIs
  <2>2. pages' \in Seq({E2ePage(unit)}) /\ \A i \in DOMAIN pages' : pages'[i] = E2ePage(unit)
    BY <1>4
  <2>3. Built'
    <3>1. (\E S : pages \in Seq(S))'
      BY <2>2
    <3>2. QED BY <2>1, <2>2, <3>1 DEF Built, Plain
  <2>4. Status' /\ Way' /\ Marks'
    BY <1>2, <1>3, <1>4 DEF Status, Way, Marks, Stages
  <2>5. QED BY <2>3, <2>4 DEF MarkInv
<1>5. CASE pages' = pages /\ pc' = "failed"
  BY <1>2, <1>5, CalmHolds DEF Calm
<1>6. QED BY <1>2, <1>4, <1>5

\* The status of the run is decided on the notes of before the verification.
LEMMA CollectMarks == ASSUME MarkInv, Collect PROVE MarkInv'
<1>1. Built /\ Way /\ Marks
  BY DEF MarkInv
<1>2. /\ pc = "collect" /\ doc' = doc /\ route' = route /\ n' = n /\ todo' = todo /\ pages' = pages
      /\ pc' \in {"assemble", "failed"}
  BY DEF Collect, work, Checked
<1>3. warned' = \E i \in DOMAIN pages : pages[i].notes # {}
  <2>1. warned' = \E p \in ToSet(pages) : p.notes # {}
    BY DEF Collect
  <2>2. (\E p \in ToSet(pages) : p.notes # {}) <=> \E i \in DOMAIN pages : pages[i].notes # {}
    BY DEF ToSet
  <2>3. QED BY <2>1, <2>2
<1>4. Built'
  <2>1. (\E S : pages \in Seq(S))'
    BY <1>1, <1>2 DEF Built
  <2>2. QED BY <1>1, <1>2, <2>1 DEF Built, Ended
<1>5. Status'
  BY <1>2, <1>3 DEF Status
<1>6. Way'
  BY <1>1, <1>2 DEF Way, Stages
<1>7. Marks'
  BY <1>1, <1>2 DEF Marks, Stages, Handled, Suspicious
<1>8. QED BY <1>4, <1>5, <1>6, <1>7 DEF MarkInv

LEMMA AssembleMarks == ASSUME MarkInv, Assemble PROVE MarkInv'
<1>1. Built /\ Status /\ Way /\ Marks
  BY DEF MarkInv
<1>2. /\ pc = "assemble" /\ doc' = doc /\ route' = route /\ n' = n /\ todo' = todo /\ warned' = warned
      /\ \/ pages' = pages /\ pc' = "failed"
         \/ /\ pc' \in {"done", "failed"}
            /\ \E S : pages' = [i \in DOMAIN pages |-> Verified(InOrder(pages[i]), i \in S)]
  BY DEF Assemble, Checked
<1>3. CASE pages' = pages /\ pc' = "failed"
  BY <1>2, <1>3, CalmHolds DEF Calm
<1>4. CASE /\ pc' \in {"done", "failed"}
           /\ \E S : pages' = [i \in DOMAIN pages |-> Verified(InOrder(pages[i]), i \in S)]
  <2>1. PICK S : pages' = [i \in DOMAIN pages |-> Verified(InOrder(pages[i]), i \in S)]
    BY <1>4
  <2>2. DEFINE f == [i \in DOMAIN pages |-> Verified(InOrder(pages[i]), i \in S)]
  <2>3. pages' = [i \in DOMAIN pages |-> f[i]]
    BY <2>1
  <2>4. (\E R : pages \in Seq(R))' /\ DOMAIN pages' = DOMAIN pages
    BY <1>1, <2>3, OneForOne DEF Built
  <2>5. ASSUME NEW i \in DOMAIN pages
        PROVE  /\ {"route", "notes"} \subseteq DOMAIN pages'[i]
               /\ pages'[i].route = pages[i].route
               /\ pages[i].notes \subseteq pages'[i].notes
               /\ pages'[i].notes \ {"verification"} = pages[i].notes
    <3>1. {"route", "notes"} \subseteq DOMAIN pages[i] /\ "verification" \notin pages[i].notes
      BY <1>1, <1>2, <2>5 DEF Built, Ended
    <3>2. DEFINE q == InOrder(pages[i])
    <3>3. q.notes = pages[i].notes /\ q.route = pages[i].route /\ {"route", "notes"} \subseteq DOMAIN q
      BY <3>1 DEF InOrder
    <3>4. pages'[i] = Verified(q, i \in S)
      BY <2>1, <2>5
    <3> HIDE DEF q
    <3>5. CASE i \in S
      BY <3>1, <3>3, <3>4, <3>5 DEF Verified
    <3>6. CASE i \notin S
      BY <3>1, <3>3, <3>4, <3>6 DEF Verified
    <3>7. QED BY <3>5, <3>6
  <2>6. Built'
    BY <1>4, <2>4, <2>5 DEF Built, Ended
  <2>7. Status'
    <3>1. warned = \E i \in DOMAIN pages : pages[i].notes # {}
      BY <1>1, <1>2 DEF Status
    <3>2. (\E i \in DOMAIN pages : pages[i].notes # {})
             <=> (\E i \in DOMAIN pages' : pages'[i].notes \ {"verification"} # {})
      BY <2>4, <2>5
    <3>3. warned' = \E i \in DOMAIN pages' : pages'[i].notes \ {"verification"} # {}
      BY <1>2, <3>1, <3>2
    <3>4. QED BY <1>4, <3>3 DEF Status
  <2>8. Way'
    BY <1>1, <1>2, <1>4 DEF Way, Stages
  <2>9. Marks'
    <3>1. Suspicious' = Suspicious
      BY <1>2 DEF Suspicious
    <3>2. ASSUME route = "digital_pdf", doc.fallback, NEW k \in DOMAIN pages' PROVE Handled(k)'
      <4>1. Handled(k)
        BY <1>1, <1>2, <2>4, <3>2 DEF Marks
      <4>2. QED BY <1>2, <2>4, <2>5, <3>2, <4>1 DEF Handled
    <3>3. QED BY <1>1, <1>2, <1>4, <3>1, <3>2 DEF Marks, Stages
  <2>10. QED BY <2>6, <2>7, <2>8, <2>9 DEF MarkInv
<1>5. QED BY <1>2, <1>3, <1>4

\* A second reading comes after the end.
LEMMA RecoverMarks == ASSUME MarkInv, RecoverElements \/ RecoverOrder PROVE MarkInv'
<1>1. Built
  BY DEF MarkInv
<1>2. /\ pc' \in {"fused", "reordered"}
      /\ \/ pages' = [k \in DOMAIN pages |-> Reread(k, Fused)]
         \/ pages' = [k \in DOMAIN pages |-> Reread(k, Reordered)]
  BY DEF RecoverElements, RecoverOrder
<1>3. \A k \in DOMAIN pages : /\ {"route", "notes"} \subseteq DOMAIN Reread(k, Fused)
                              /\ {"route", "notes"} \subseteq DOMAIN Reread(k, Reordered)
  BY <1>1 DEF Built, Reread
<1>4. (\E S : pages \in Seq(S))' /\ DOMAIN pages' = DOMAIN pages
  <2> DEFINE f == [k \in DOMAIN pages |-> Reread(k, Fused)]
             g == [k \in DOMAIN pages |-> Reread(k, Reordered)]
  <2>1. CASE pages' = f
    <3>1. pages' = [k \in DOMAIN pages |-> f[k]]
      BY <2>1
    <3>2. QED BY <1>1, <3>1, OneForOne DEF Built
  <2>2. CASE pages' = g
    <3>1. pages' = [k \in DOMAIN pages |-> g[k]]
      BY <2>2
    <3>2. QED BY <1>1, <3>1, OneForOne DEF Built
  <2>3. QED BY <1>2, <2>1, <2>2
<1>5. Built'
  BY <1>2, <1>3, <1>4 DEF Built, Ended
<1>6. Status' /\ Way' /\ Marks'
  BY <1>2 DEF Status, Way, Marks, Stages
<1>7. QED BY <1>5, <1>6 DEF MarkInv

LEMMA StepMarks == MarkInv /\ BudgetInv /\ [Next]_vars => MarkInv'
<1> SUFFICES ASSUME MarkInv, BudgetInv, [Next]_vars PROVE MarkInv'
  OBVIOUS
<1>1. CASE \/ Tick \/ Snapshot \/ Preflight \/ Assess \/ Visual \/ Osd \/ Special \/ Compare
           \/ Render \/ RenderAgain \/ RenderImage \/ Refused
  BY <1>1, Calms, CalmHolds
<1>2. CASE Layout \/ Ocr \/ TableStage
  BY <1>2, CallMarks
<1>3. CASE RecoverElements \/ RecoverOrder
  BY <1>3, RecoverMarks
<1>4. CASE UNCHANGED vars
  BY <1>4, CalmHolds DEF vars, Calm
<1>5. QED BY <1>1, <1>2, <1>3, <1>4, RouteMarks, OfficeMarks, CanonicalMarks, FallbackEndsMarks,
             MergeMarks, PredictMarks, CollectMarks, AssembleMarks DEF Next

-----------------------------------------------------------------------------
(* Whatever the document, the installed backends and the failures of the   *)
(* models: a page whose native text failed the quality gate leaves a run   *)
(* that ends well extracted again or marked SUSPECT, none that passed is   *)
(* extracted again, and the status of the run tells of every note but the  *)
(* verification's (parse_digital_pdf and _apply_page_fallback, pdf.py;     *)
(* _collect_page_warnings, cli.py).                                        *)
THEOREM SuspectPagesAreMarked == Spec => []SuspectsAreMarked
<1>1. MarkInv => SuspectsAreMarked
  <2> SUFFICES ASSUME MarkInv PROVE SuspectsAreMarked
    OBVIOUS
  <2>1. Built /\ Status /\ Way /\ Marks
    BY DEF MarkInv
  <2>2. ASSUME pc = "done" PROVE warned = \E p \in ToSet(pages) : p.notes \ {"verification"} # {}
    <3>1. warned = \E i \in DOMAIN pages : pages[i].notes \ {"verification"} # {}
      BY <2>1, <2>2 DEF Status
    <3>2. (\E i \in DOMAIN pages : pages[i].notes \ {"verification"} # {})
             <=> \E p \in ToSet(pages) : p.notes \ {"verification"} # {}
      BY DEF ToSet
    <3>3. QED BY <3>1, <3>2
  <2>3. ASSUME pc = "done", route = "digital_pdf", NEW k \in DOMAIN pages, doc.fallback
        PROVE  IF doc.units[k].text = "garbled"
               THEN pages[k].route = "digital_pdf+page_fallback" \/ "SUSPECT" \in pages[k].notes
               ELSE pages[k].route = "digital_pdf"
    <3>1. todo = {} /\ Handled(k)
      BY <2>1, <2>3 DEF Way, Marks
    <3>2. QED BY <3>1 DEF Handled
  <2>4. QED BY <2>2, <2>3 DEF SuspectsAreMarked
<1>2. Spec => []BudgetInv
  BY InitBudget, StepBudget, PTL DEF Spec
<1>3. QED BY <1>1, <1>2, InitMarks, StepMarks, PTL DEF Spec

-----------------------------------------------------------------------------
\* How many pages there are, and what they were made from.

Fields == {"route", "width", "elements", "tables", "notes", "order"}

\* What a unit can be made into.
Fitting(u) == u.source.form \in Forms /\ Fits(OfficeTable(u.source))
Made(u) == {q \in {OfficePage(u)} : Fitting(u)} \cup {q \in {E2ePage(u)} : Accepted(u)} \cup {NativePage(u)}
             \cup {VisualPage(u, how, tables) : how \in Visually, tables \in {<<>>, PageTables(u)}}
\* A page that was made into q once: marked, ordered, and if it has an image
\* perhaps read again since.
Keeps(p, q, reread) ==
    /\ Fields \subseteq DOMAIN p
    /\ p.route = q.route /\ p.width = q.width /\ p.tables = q.tables
    /\ p.elements = q.elements \/ p.route \in reread
    /\ p.route = "digital_pdf" => q.notes \subseteq p.notes
From(p, u, reread) == \E q \in Made(u) : Keeps(p, q, reread)

\* A page for each unit that was left behind.
Counting ==
    /\ route \in Routes /\ warned \in BOOLEAN /\ Len(pages) <= Len(doc.units)
    /\ pc \in {"snapshot", "preflight"} => route = "none"
    /\ pc \in {"image", "render", "e2e"} => pages = <<>>
    /\ pc \in {"image", "e2e"} => n = 1
    /\ pc = "office" => Len(pages) = n - 1 /\ doc.kind = "office"
    /\ pc \in Stages /\ route # "digital_pdf" => Len(pages) = n - 1
    /\ pc \in Stages => route \in {"digital_pdf", "scanned_pdf", "image"}
    /\ pc = "image" => route = "image"
    /\ pc = "render" => route = "scanned_pdf"
Recognised == pc = "merge" => found \in {<<>>, PageTables(unit)}
Renewed == IF pc \in {"fused", "reordered"} THEN Visually ELSE {}
Drawn == \A k \in DOMAIN pages : From(pages[k], doc.units[k], Renewed)

PageInv == Counting /\ Recognised /\ Drawn

LEMMA InitPages == Init => PageInv
<1> SUFFICES ASSUME Init PROVE PageInv
  OBVIOUS
<1>1. Len(doc.units) \in Nat \ {0} /\ pages = <<>> /\ Len(pages) = 0
  BY Documents DEF Init
<1>2. Counting /\ Recognised
  <2>1. pc = "snapshot" /\ route = "none" /\ n = 1 /\ warned = FALSE
    BY DEF Init
  <2>2. warned \in BOOLEAN
    BY <2>1
  <2>3. 0 <= Len(doc.units)
    BY <1>1
  <2>4. Counting
    BY <1>1, <2>1, <2>2, <2>3 DEF Counting, Routes, Stages
  <2>5. QED BY <2>1, <2>4 DEF Recognised
<1>3. Drawn
  BY <1>1 DEF Drawn
<1>4. QED BY <1>2, <1>3 DEF PageInv

\* The pages and what they were made from, step by step: a step that leaves
\* the pages alone and does not come to the merge.
LEMMA UndrawnHolds ==
    ASSUME PageInv, pages' = pages, doc' = doc, pc' \notin {"fused", "reordered"},
           pc \notin {"fused", "reordered"},
           pc' # "merge" \/ (pc = "merge" /\ n' = n /\ found' = found)
    PROVE  Recognised' /\ Drawn'
<1>1. Recognised /\ Drawn
  BY DEF PageInv
<1>2. Recognised'
  BY <1>1 DEF Recognised, unit
<1>3. Drawn'
  BY <1>1 DEF Drawn, Renewed
<1>4. QED BY <1>2, <1>3

LEMMA LooksPages ==
    ASSUME PageInv, MarkInv, BudgetInv,
           \/ Tick \/ Snapshot \/ Preflight \/ Assess \/ Visual \/ Osd \/ Special \/ Compare
           \/ Render \/ RenderAgain \/ RenderImage \/ Refused
    PROVE  PageInv'
<1>1. Counting /\ Way /\ n \in DOMAIN doc.units
  BY DEF PageInv, MarkInv, BudgetInv, Bounds
<1>2. /\ pages' = pages /\ doc' = doc /\ route' = route /\ warned' = warned
      /\ {pc, pc'} \cap {"fused", "reordered"} = {}
  BY DEF Tick, Snapshot, Preflight, Assess, Visual, Osd, Special, Compare, Render, RenderAgain,
         RenderImage, Refused, Rendered, work, Checked, Ended
<1>3. pc' # "merge" \/ (pc = "merge" /\ n' = n /\ found' = found)
  BY DEF Tick, Snapshot, Preflight, Assess, Visual, Osd, Special, Compare, Render, RenderAgain,
         RenderImage, Refused, Rendered, work, Checked
<1>4. Counting'
  <2>1. CASE Tick \/ Snapshot \/ Preflight \/ Assess \/ Refused
    BY <1>1, <1>2, <2>1 DEF Tick, Snapshot, Preflight, Assess, Refused, Counting, Checked, work, Stages
  <2>2. CASE Visual \/ Osd \/ Special \/ Compare
    BY <1>1, <1>2, <2>2 DEF Visual, Osd, Special, Compare, Counting, Checked, work, Stages
  <2>3. CASE Render
    BY <1>1, <1>2, <2>3 DEF Render, Rendered, Counting, Checked, Stages
  <2>4. CASE RenderAgain
    BY <1>1, <1>2, <2>4 DEF RenderAgain, Rendered, Counting, Checked, Stages, Way
  <2>5. CASE RenderImage
    BY <1>1, <1>2, <2>5 DEF RenderImage, Counting, Checked, Stages, work
  <2>6. QED BY <2>1, <2>2, <2>3, <2>4, <2>5
<1>5. QED BY <1>2, <1>3, <1>4, UndrawnHolds DEF PageInv

LEMMA RoutePages == ASSUME PageInv, MarkInv, Route PROVE PageInv'
<1>1. Counting /\ Way
  BY DEF PageInv, MarkInv
<1>2. /\ pc = "route" /\ doc' = doc /\ pages' = pages /\ n' = n /\ warned' = warned
      /\ route' = RouteOf /\ (pc' = "failed" \/ pc' = StepOf(RouteOf))
  BY DEF Route, work, Checked
<1>3. pages = <<>> /\ n = 1
  BY <1>1, <1>2 DEF Way
<1>4. /\ pc' \in {"office", "digital", "render", "image", "e2e", "failed"} /\ route' \in Routes
      /\ pc' = "image" => route' = "image"
      /\ pc' = "render" => route' = "scanned_pdf"
      /\ pc' = "office" => doc.kind = "office"
  <2>1. /\ RouteOf \in {"native_office", "image", "digital_pdf", "scanned_pdf", "none", "e2e"}
        /\ RouteOf = "native_office" => doc.kind = "office"
    BY DEF RouteOf
  <2>2. QED BY <1>2, <2>1 DEF StepOf, Routes
<1>5. Counting'
  BY <1>1, <1>2, <1>3, <1>4 DEF Counting, Stages
<1>6. QED BY <1>2, <1>4, <1>5, UndrawnHolds DEF PageInv

\* A page more, made from the unit at hand.
LEMMA AppendedIsDrawn ==
    ASSUME PageInv, MarkInv, NEW q \in Made(unit), Fields \subseteq DOMAIN q, Plain(q),
           Len(pages) = n - 1, n \in Nat, pages' = Append(pages, q), doc' = doc, pc \notin Ended
    PROVE  Drawn' /\ Len(pages') = n
<1>1. Drawn
  BY DEF PageInv
<1>2. /\ Len(pages) \in Nat /\ DOMAIN pages = 1..Len(pages)
      /\ Len(pages') = Len(pages) + 1 /\ DOMAIN pages' = 1..Len(pages) + 1
      /\ \A i \in DOMAIN pages : pages'[i] = pages[i]
      /\ pages'[Len(pages) + 1] = q
  BY Appended
<1>3. ASSUME NEW reread, NEW k \in DOMAIN pages' PROVE From(pages'[k], doc.units[k], reread)
  <2>1. CASE k = n
    <3>1. pages'[k] = q /\ q \in Made(doc.units[k])
      BY <1>2, <2>1 DEF unit
    <3>2. Keeps(q, q, reread)
      BY DEF Keeps
    <3>3. QED BY <3>1, <3>2 DEF From
  <2>2. CASE k # n
    <3>1. k \in DOMAIN pages /\ pages'[k] = pages[k]
      BY <1>2, <1>3, <2>2
    <3>2. From(pages[k], doc.units[k], Renewed)
      BY <1>1, <3>1 DEF Drawn
    <3>3. From(pages[k], doc.units[k], reread)
      BY <3>2 DEF From, Keeps, Ended, Renewed
    <3>4. QED BY <3>1, <3>3
  <2>3. QED BY <2>1, <2>2
<1>4. Drawn'
  BY <1>3 DEF Drawn
<1>5. QED BY <1>2, <1>4

LEMMA PagesHaveFields ==
    /\ \A how, width, elements, tables, notes :
          DOMAIN Page(how, width, elements, tables, notes) = Fields
    /\ \A u : /\ DOMAIN OfficePage(u) = Fields /\ OfficePage(u).route = "native_office"
              /\ DOMAIN NativePage(u) = Fields /\ NativePage(u).route = "digital_pdf"
              /\ DOMAIN E2ePage(u) = Fields /\ E2ePage(u).route = "e2e"
    /\ \A u, how, tables : /\ DOMAIN VisualPage(u, how, tables) = Fields
                           /\ VisualPage(u, how, tables).route = how
<1>1. ASSUME NEW how, NEW width, NEW elements, NEW tables, NEW notes
      PROVE  /\ DOMAIN Page(how, width, elements, tables, notes) = Fields
             /\ Page(how, width, elements, tables, notes).route = how
  BY DEF Page, Fields
<1>2. ASSUME NEW u PROVE DOMAIN OfficePage(u) = Fields /\ OfficePage(u).route = "native_office"
  BY <1>1 DEF OfficePage
<1>3. ASSUME NEW u PROVE DOMAIN NativePage(u) = Fields /\ NativePage(u).route = "digital_pdf"
  BY <1>1 DEF NativePage
<1>4. ASSUME NEW u PROVE DOMAIN E2ePage(u) = Fields /\ E2ePage(u).route = "e2e"
  BY DEF E2ePage, Page, Fields
<1>5. ASSUME NEW u, NEW how, NEW tables
      PROVE  /\ DOMAIN VisualPage(u, how, tables) = Fields
             /\ VisualPage(u, how, tables).route = how
  BY <1>1 DEF VisualPage
<1>6. QED BY <1>1, <1>2, <1>3, <1>4, <1>5

LEMMA OfficePages == ASSUME PageInv, MarkInv, BudgetInv, Office PROVE PageInv'
<1>1. Counting /\ Bounds /\ n \in Nat /\ DOMAIN doc.units = 1..Len(doc.units) /\ Len(doc.units) \in Nat
  BY Documents DEF PageInv, BudgetInv, Bounds
<1>2. /\ pc = "office" /\ doc' = doc /\ route' = route /\ warned' = warned
      /\ \/ pc' = "failed" /\ pages' = pages
         \/ /\ pages' = Append(pages, OfficePage(unit)) /\ Fits(OfficeTable(unit.source))
            /\ \/ n = Len(doc.units) /\ pc' = "collect" /\ n' = n
               \/ n # Len(doc.units) /\ pc' = "office" /\ n' = n + 1
  BY DEF Office
<1>3. CASE pc' = "failed" /\ pages' = pages
  <2>1. Counting'
    BY <1>1, <1>2, <1>3 DEF Counting, Stages
  <2>2. QED BY <1>2, <1>3, <2>1, UndrawnHolds DEF PageInv
<1>4. CASE pages' = Append(pages, OfficePage(unit)) /\ pc' # "failed"
  <2>1. OfficePage(unit) \in Made(unit) /\ Fields \subseteq DOMAIN OfficePage(unit) /\ Plain(OfficePage(unit))
    <3>1. doc \in Docs /\ n \in DOMAIN doc.units /\ doc.kind = "office"
      BY <1>1, <1>2 DEF Counting, Bounds
    <3>2. unit.source.form \in Forms
      BY <3>1, SourcesAssumption DEF unit
    <3>3. Fitting(unit)
      BY <1>2, <1>4, <3>2 DEF Fitting
    <3>4. QED BY <3>3, PagesHaveFields, OfficeIs DEF Made
  <2>2. Len(pages) = n - 1
    BY <1>1, <1>2 DEF Counting
  <2>3. Drawn' /\ Len(pages') = n
    BY <1>1, <1>2, <1>4, <2>1, <2>2, AppendedIsDrawn DEF Ended
  <2>4. Counting' /\ Recognised'
    BY <1>1, <1>2, <1>4, <2>3 DEF Counting, Recognised, Stages, Bounds
  <2>5. QED BY <2>3, <2>4 DEF PageInv
<1>5. QED BY <1>2, <1>3, <1>4

LEMMA CanonicalPages == ASSUME PageInv, MarkInv, BudgetInv, Canonical PROVE PageInv'
<1>1. /\ Counting /\ Way /\ Bounds /\ n \in Nat /\ DOMAIN doc.units = 1..Len(doc.units)
      /\ Len(doc.units) \in Nat
  BY Documents DEF PageInv, MarkInv, BudgetInv, Bounds
<1>2. /\ pc = "canonical" /\ doc' = doc /\ route' = route /\ warned' = warned
      /\ \/ pc' = "failed" /\ pages' = pages
         \/ pages' = Append(pages, NativePage(unit)) /\ pc' \in {"canonical", "fallback"}
  BY DEF Canonical, work
<1>3. CASE pc' = "failed" /\ pages' = pages
  <2>1. Counting'
    BY <1>1, <1>2, <1>3 DEF Counting, Stages
  <2>2. QED BY <1>2, <1>3, <2>1, UndrawnHolds DEF PageInv
<1>4. CASE pages' = Append(pages, NativePage(unit)) /\ pc' # "failed"
  <2>1. NativePage(unit) \in Made(unit) /\ Fields \subseteq DOMAIN NativePage(unit) /\ Plain(NativePage(unit))
    BY PagesHaveFields, NativeIs DEF Made
  <2>2. Len(pages) = n - 1
    BY <1>1, <1>2 DEF Way
  <2>3. Drawn' /\ Len(pages') = n
    BY <1>1, <1>2, <1>4, <2>1, <2>2, AppendedIsDrawn DEF Ended
  <2>4. Counting' /\ Recognised'
    BY <1>1, <1>2, <1>4, <2>3 DEF Counting, Recognised, Stages, Bounds
  <2>5. QED BY <2>3, <2>4 DEF PageInv
<1>5. QED BY <1>2, <1>3, <1>4

\* Every page stays at its place and keeps what it was made from.
LEMMA KeptIsDrawn ==
    ASSUME PageInv, MarkInv, doc' = doc, DOMAIN pages' = DOMAIN pages, (\E S : pages \in Seq(S))',
           \A k \in DOMAIN pages :
              From(pages[k], doc.units[k], Renewed)
                 => From(pages'[k], doc.units[k], Renewed')
    PROVE  Drawn' /\ Len(pages') = Len(pages)
<1>1. Drawn /\ Built
  BY DEF PageInv, MarkInv
<1>2. Drawn'
  BY <1>1 DEF Drawn
<1>3. PICK S, T : pages \in Seq(S) /\ pages' \in Seq(T)
  BY <1>1 DEF Built
<1>4. Len(pages) \in Nat /\ Len(pages') \in Nat /\ 1..Len(pages') = 1..Len(pages)
  BY <1>3
<1>5. Len(pages') = Len(pages)
  <2>1. CASE Len(pages) = 0
    BY <1>4, <2>1
  <2>2. CASE Len(pages) # 0
    BY <1>4, <2>2
  <2>3. QED BY <2>1, <2>2
<1>6. QED BY <1>2, <1>5

LEMMA MarkedIsFrom ==
    ASSUME NEW M, NEW k \in DOMAIN pages, NEW u, NEW reread, From(pages[k], u, reread)
    PROVE  From(Marked(M)[k], u, reread)
<1>1. PICK q \in Made(u) : Keeps(pages[k], q, reread)
  BY DEF From
<1>2. Marked(M)[k] = IF k \in M THEN [pages[k] EXCEPT !.notes = pages[k].notes \cup {"SUSPECT"}]
                     ELSE pages[k]
  BY DEF Marked
<1> DEFINE p == pages[k]
<1>3. Keeps(p, q, reread)
  BY <1>1
<1> HIDE DEF p
<1> DEFINE m == [p EXCEPT !.notes = p.notes \cup {"SUSPECT"}]
<1>4. /\ DOMAIN m = DOMAIN p /\ m.route = p.route /\ m.width = p.width /\ m.tables = p.tables
      /\ m.elements = p.elements /\ m.notes = p.notes \cup {"SUSPECT"}
  BY <1>3 DEF Keeps, Fields
<1> HIDE DEF m
<1>5. Keeps(m, q, reread)
  BY <1>3, <1>4 DEF Keeps
<1>6. Marked(M)[k] = m \/ Marked(M)[k] = p
  BY <1>2 DEF m, p
<1>7. QED BY <1>3, <1>5, <1>6 DEF From

\* The fallback and a failed model call: some pages are marked.
LEMMA MarkedPages ==
    ASSUME PageInv, MarkInv, doc' = doc, {pc, pc'} \cap Ended = {}, pages' = pages \/ \E M : pages' = Marked(M)
    PROVE  Drawn' /\ Len(pages') = Len(pages)
<1> Renewed = {} /\ Renewed' = {}
  BY DEF Renewed, Ended
<1>1. CASE pages' = pages
  <2>1. (\E S : pages \in Seq(S))'
    BY <1>1 DEF MarkInv, Built
  <2>2. \A k \in DOMAIN pages :
              From(pages[k], doc.units[k], Renewed)
                 => From(pages'[k], doc.units[k], Renewed')
    BY <1>1
  <2>3. QED BY <1>1, <2>1, <2>2, KeptIsDrawn
<1>2. CASE \E M : pages' = Marked(M)
  <2>1. PICK M : pages' = Marked(M)
    BY <1>2
  <2>2. (\E S : pages \in Seq(S))' /\ DOMAIN pages' = DOMAIN pages
    BY <2>1, MarkedIs DEF Built
  <2>3. \A k \in DOMAIN pages :
              From(pages[k], doc.units[k], Renewed)
                 => From(pages'[k], doc.units[k], Renewed')
    BY <2>1, MarkedIsFrom
  <2>4. QED BY <2>2, <2>3, KeptIsDrawn
<1>3. QED BY <1>1, <1>2

LEMMA FallbackEndsPages == ASSUME PageInv, MarkInv, BudgetInv, FallbackEnds PROVE PageInv'
<1>1. /\ pc = "fallback" /\ pc' = "collect" /\ doc' = doc /\ route' = route /\ warned' = warned
      /\ pages' = pages \/ \E M : pages' = Marked(M)
  BY DEF FallbackEnds
<1>2. Drawn' /\ Len(pages') = Len(pages)
  BY <1>1, MarkedPages DEF Ended
<1>3. Counting' /\ Recognised'
  BY <1>1, <1>2 DEF PageInv, Counting, Recognised, Stages
<1>4. QED BY <1>2, <1>3 DEF PageInv

LEMMA CallPages == ASSUME PageInv, MarkInv, BudgetInv, Layout \/ Ocr \/ TableStage PROVE PageInv'
<1>1. /\ pc \in {"layout", "ocr", "table"} /\ doc' = doc /\ route' = route /\ warned' = warned
  BY DEF Layout, Ocr, TableStage
<1>2. Counting
  BY DEF PageInv
<1>3. CASE Broken
  <2>1. \/ pc' = "failed" /\ pages' = pages
        \/ pc' = "fallback" /\ route = "digital_pdf" /\ \E M : pages' = Marked(M)
    BY <1>3 DEF Broken, work
  <2>2. CASE pc' = "failed" /\ pages' = pages
    <3>1. Counting'
      BY <1>1, <1>2, <2>2 DEF Counting, Stages
    <3>2. QED BY <1>1, <2>2, <3>1, UndrawnHolds DEF PageInv
  <2>3. CASE pc' = "fallback" /\ route = "digital_pdf" /\ \E M : pages' = Marked(M)
    <3>1. Drawn' /\ Len(pages') = Len(pages)
      BY <1>1, <2>3, MarkedPages DEF Ended
    <3>2. Counting' /\ Recognised'
      BY <1>1, <1>2, <2>3, <3>1 DEF Counting, Recognised, Stages
    <3>3. QED BY <3>1, <3>2 DEF PageInv
  <2>4. QED BY <2>1, <2>2, <2>3
<1>4. CASE ~ Broken
  <2>1. /\ n' = n /\ pages' = pages
        /\ \/ pc' \in {"failed", "osd", "ocr", "table"}
           \/ pc' = "merge" /\ found' \in {<<>>, PageTables(unit)}
    BY <1>4 DEF Layout, Ocr, TableStage, Checked, work
  <2>2. Counting'
    BY <1>1, <1>2, <2>1 DEF Counting, Stages
  <2>3. Recognised'
    BY <1>1, <2>1 DEF Recognised, unit
  <2>4. Drawn'
    BY <1>1, <2>1 DEF PageInv, Drawn, Renewed
  <2>5. QED BY <2>2, <2>3, <2>4 DEF PageInv
<1>5. QED BY <1>3, <1>4

LEMMA MergePages == ASSUME PageInv, MarkInv, BudgetInv, MergePage PROVE PageInv'
<1>1. /\ Counting /\ Recognised /\ Drawn /\ Built /\ Way /\ Bounds /\ n \in Nat
      /\ DOMAIN doc.units = 1..Len(doc.units) /\ Len(doc.units) \in Nat
  BY Documents DEF PageInv, MarkInv, BudgetInv, Bounds
<1>2. pc = "merge" /\ doc' = doc /\ route' = route /\ warned' = warned
  BY DEF MergePage
<1>3. found \in {<<>>, PageTables(unit)} /\ route \in {"digital_pdf", "scanned_pdf", "image"}
  BY <1>1, <1>2 DEF Recognised, Counting, Stages
<1>4. CASE route = "digital_pdf"
  <2> DEFINE page == VisualPage(unit, "digital_pdf+page_fallback", found)
             again == [page EXCEPT !.notes = pages[n].notes \cup {"re-extracted"}]
  <2>1. pages' = [pages EXCEPT ![n] = again] /\ pc' = "fallback"
    BY <1>4 DEF MergePage
  <2>2. page \in Made(unit) /\ DOMAIN page = Fields /\ page.route = "digital_pdf+page_fallback"
    BY <1>3, PagesHaveFields DEF Made, Visually
  <2> HIDE DEF page
  <2>3. Keeps(again, page, {})
    BY <2>2 DEF Keeps, Fields
  <2> HIDE DEF again
  <2>4. DEFINE f == [i \in DOMAIN pages |-> IF i = n THEN again ELSE pages[i]]
  <2>5. pages' = [i \in DOMAIN pages |-> f[i]]
    BY <2>1
  <2>6. (\E S : pages \in Seq(S))' /\ DOMAIN pages' = DOMAIN pages
    BY <1>1, <2>5, OneForOne DEF Built
  <2>7. ASSUME NEW k \in DOMAIN pages, From(pages[k], doc.units[k], Renewed)
        PROVE  From(pages'[k], doc.units[k], Renewed')
    <3>1. Renewed = {} /\ Renewed' = {}
      BY <1>2, <2>1 DEF Renewed
    <3>2. CASE k = n
      <4>1. pages'[k] = again /\ unit = doc.units[k]
        BY <2>1, <2>7, <3>2 DEF unit
      <4>2. From(again, unit, Renewed')
        BY <2>2, <2>3, <3>1 DEF From, Keeps
      <4>3. QED BY <4>1, <4>2
    <3>3. CASE k # n
      <4>1. pages'[k] = pages[k]
        BY <2>1, <2>7, <3>3
      <4>2. QED BY <2>7, <3>1, <4>1 DEF Renewed
    <3>4. QED BY <3>2, <3>3
  <2>8. Drawn' /\ Len(pages') = Len(pages)
    BY <1>2, <2>6, <2>7, KeptIsDrawn
  <2>9. Counting' /\ Recognised'
    BY <1>1, <1>2, <1>4, <2>1, <2>8 DEF Counting, Recognised, Stages
  <2>10. QED BY <2>8, <2>9 DEF PageInv
<1>5. CASE route # "digital_pdf"
  <2> DEFINE page == VisualPage(unit, route, found)
  <2>1. /\ pages' = Append(pages, page)
        /\ \/ n < Len(doc.units) /\ pc' = "visual" /\ n' = n + 1
           \/ n >= Len(doc.units) /\ pc' = "collect" /\ n' = n
    BY <1>1, <1>5 DEF MergePage
  <2>2. page \in Made(unit) /\ Fields \subseteq DOMAIN page /\ Plain(page)
    BY <1>3, <1>5, PagesHaveFields, VisualIs DEF Made, Visually
  <2>3. Len(pages) = n - 1
    BY <1>1, <1>2, <1>5 DEF Counting, Stages
  <2> HIDE DEF page
  <2>4. Drawn' /\ Len(pages') = n
    BY <1>1, <1>2, <2>1, <2>2, <2>3, AppendedIsDrawn DEF Ended
  <2>5. Counting' /\ Recognised'
    BY <1>1, <1>2, <1>5, <2>1, <2>4 DEF Counting, Recognised, Stages, Bounds
  <2>6. QED BY <2>4, <2>5 DEF PageInv
<1>6. QED BY <1>4, <1>5

LEMMA PredictPages == ASSUME PageInv, MarkInv, BudgetInv, Predict PROVE PageInv'
<1>1. Counting /\ Bounds /\ Len(doc.units) \in Nat \ {0}
  BY Documents DEF PageInv, BudgetInv, Bounds
<1>2. /\ pc = "e2e" /\ doc' = doc /\ route' = route /\ n' = n /\ warned' = warned
      /\ \/ pages' = <<E2ePage(unit)>> /\ pc' \in {"collect", "failed"} /\ Accepted(unit)
         \/ pages' = pages /\ pc' = "failed"
  BY DEF Predict, Checked
<1>3. CASE pages' = <<E2ePage(unit)>> /\ pc' \in {"collect", "failed"} /\ Accepted(unit)
  <2>1. E2ePage(unit) \in Made(unit) /\ Keeps(E2ePage(unit), E2ePage(unit), {})
    BY <1>3, PagesHaveFields DEF Made, Keeps
  <2>2. n = 1 /\ unit = doc.units[1]
    BY <1>1, <1>2 DEF Counting, unit
  <2>3. ASSUME NEW k \in DOMAIN pages'
        PROVE  From(pages'[k], doc.units[k], Renewed')
    <3>1. k = 1 /\ pages'[k] = E2ePage(unit)
      BY <1>3, <2>3
    <3>2. From(E2ePage(unit), unit, Renewed')
      BY <2>1 DEF From, Keeps
    <3>3. QED BY <2>2, <3>1, <3>2
  <2>4. Drawn'
    BY <1>2, <2>3 DEF Drawn
  <2>5. Len(pages') = 1
    BY <1>3
  <2>6. Counting' /\ Recognised'
    BY <1>1, <1>2, <1>3, <2>5 DEF Counting, Recognised, Stages
  <2>7. QED BY <2>4, <2>6 DEF PageInv
<1>4. CASE pages' = pages /\ pc' = "failed"
  <2>1. Counting'
    BY <1>1, <1>2, <1>4 DEF Counting, Stages
  <2>2. QED BY <1>2, <1>4, <2>1, UndrawnHolds DEF PageInv
<1>5. QED BY <1>2, <1>3, <1>4

LEMMA CollectPages == ASSUME PageInv, Collect PROVE PageInv'
<1>1. /\ pc = "collect" /\ doc' = doc /\ route' = route /\ n' = n /\ pages' = pages
      /\ pc' \in {"assemble", "failed"}
      /\ warned' \in BOOLEAN
  BY DEF Collect, work, Checked
<1>2. Counting'
  BY <1>1 DEF PageInv, Counting, Stages
<1>3. QED BY <1>1, <1>2, UndrawnHolds DEF PageInv

LEMMA AssembledIsFrom ==
    ASSUME NEW p, NEW u, NEW i, NEW S, From(p, u, {})
    PROVE  From(Verified(InOrder(p), i \in S), u, {})
<1>1. PICK q \in Made(u) : Keeps(p, q, {})
  BY DEF From
<1> DEFINE o == InOrder(p)
<1>2. Keeps(o, q, {})
  BY <1>1 DEF InOrder, Keeps, Fields
<1> HIDE DEF o
<1>3. Keeps(Verified(o, i \in S), q, {})
  <2>1. CASE i \in S
    <3> DEFINE m == [o EXCEPT !.notes = o.notes \cup {"verification"}]
    <3>1. /\ DOMAIN m = DOMAIN o /\ m.route = o.route /\ m.width = o.width /\ m.tables = o.tables
          /\ m.elements = o.elements /\ m.notes = o.notes \cup {"verification"}
      BY <1>2 DEF Keeps, Fields
    <3>2. Verified(o, i \in S) = m
      BY <2>1 DEF Verified
    <3> HIDE DEF m
    <3>3. Keeps(m, q, {})
      BY <1>2, <3>1 DEF Keeps
    <3>4. QED BY <3>2, <3>3
  <2>2. CASE i \notin S
    BY <1>2, <2>2 DEF Verified
  <2>3. QED BY <2>1, <2>2
<1>4. QED BY <1>3 DEF From, o

LEMMA AssemblePages == ASSUME PageInv, MarkInv, BudgetInv, Assemble PROVE PageInv'
<1>1. Counting /\ Built
  BY DEF PageInv, MarkInv
<1>2. /\ pc = "assemble" /\ doc' = doc /\ route' = route /\ n' = n /\ warned' = warned
      /\ \/ pages' = pages /\ pc' = "failed"
         \/ /\ pc' \in {"done", "failed"}
            /\ \E S : pages' = [i \in DOMAIN pages |-> Verified(InOrder(pages[i]), i \in S)]
  BY DEF Assemble, Checked
<1>3. CASE pages' = pages /\ pc' = "failed"
  <2>1. Counting'
    BY <1>1, <1>2, <1>3 DEF Counting, Stages
  <2>2. QED BY <1>2, <1>3, <2>1, UndrawnHolds DEF PageInv
<1>4. CASE /\ pc' \in {"done", "failed"}
           /\ \E S : pages' = [i \in DOMAIN pages |-> Verified(InOrder(pages[i]), i \in S)]
  <2>1. PICK S : pages' = [i \in DOMAIN pages |-> Verified(InOrder(pages[i]), i \in S)]
    BY <1>4
  <2>2. DEFINE f == [i \in DOMAIN pages |-> Verified(InOrder(pages[i]), i \in S)]
  <2>3. pages' = [i \in DOMAIN pages |-> f[i]]
    BY <2>1
  <2>4. (\E R : pages \in Seq(R))' /\ DOMAIN pages' = DOMAIN pages
    BY <1>1, <2>3, OneForOne DEF Built
  <2>5. ASSUME NEW k \in DOMAIN pages, From(pages[k], doc.units[k], Renewed)
        PROVE  From(pages'[k], doc.units[k], Renewed')
    <3>1. Renewed = {} /\ Renewed' = {}
      BY <1>2, <1>4 DEF Renewed
    <3>2. pages'[k] = Verified(InOrder(pages[k]), k \in S)
      BY <2>1, <2>5
    <3>3. From(pages[k], doc.units[k], {})
      BY <2>5, <3>1
    <3>4. From(Verified(InOrder(pages[k]), k \in S), doc.units[k], {})
      BY <3>3, AssembledIsFrom
    <3>5. QED BY <3>1, <3>2, <3>4
  <2>6. Drawn' /\ Len(pages') = Len(pages)
    BY <1>2, <2>4, <2>5, KeptIsDrawn
  <2>7. Counting' /\ Recognised'
    BY <1>1, <1>2, <1>4, <2>6 DEF Counting, Recognised, Stages
  <2>8. QED BY <2>6, <2>7 DEF PageInv
<1>5. QED BY <1>2, <1>3, <1>4

\* A second reading gives the elements of a page with an image new texts.
LEMMA RecoverPages == ASSUME PageInv, MarkInv, BudgetInv, RecoverElements \/ RecoverOrder PROVE PageInv'
<1>1. Counting /\ Built
  BY DEF PageInv, MarkInv
<1>2. /\ pc = "done" /\ pc' \in {"fused", "reordered"} /\ doc' = doc /\ route' = route /\ n' = n
      /\ warned' = warned
      /\ \/ pages' = [k \in DOMAIN pages |-> Reread(k, Fused)]
         \/ pages' = [k \in DOMAIN pages |-> Reread(k, Reordered)]
  BY DEF RecoverElements, RecoverOrder
<1>3. (\E S : pages \in Seq(S))' /\ DOMAIN pages' = DOMAIN pages
  <2> DEFINE f == [k \in DOMAIN pages |-> Reread(k, Fused)]
             g == [k \in DOMAIN pages |-> Reread(k, Reordered)]
  <2>1. CASE pages' = f
    <3>1. pages' = [k \in DOMAIN pages |-> f[k]]
      BY <2>1
    <3>2. QED BY <1>1, <3>1, OneForOne DEF Built
  <2>2. CASE pages' = g
    <3>1. pages' = [k \in DOMAIN pages |-> g[k]]
      BY <2>2
    <3>2. QED BY <1>1, <3>1, OneForOne DEF Built
  <2>3. QED BY <1>2, <2>1, <2>2
<1>4. ASSUME NEW k \in DOMAIN pages, From(pages[k], doc.units[k], Renewed)
      PROVE  From(pages'[k], doc.units[k], Renewed')
  <2>1. PICK q \in Made(doc.units[k]) : Keeps(pages[k], q, {})
    BY <1>2, <1>4 DEF From, Renewed
  <2> DEFINE p == pages[k]
  <2>2. \/ pages'[k] = p
        \/ p.route \in Visually /\ \E e : pages'[k] = [p EXCEPT !.elements = e]
    BY <1>2 DEF Reread
  <2> HIDE DEF p
  <2>3. Keeps(p, q, {})
    BY <2>1 DEF p
  <2>4. Keeps(pages'[k], q, Visually)
    <3>1. CASE pages'[k] = p
      BY <2>3, <3>1 DEF Keeps
    <3>2. CASE p.route \in Visually /\ \E e : pages'[k] = [p EXCEPT !.elements = e]
      <4>1. PICK e : pages'[k] = [p EXCEPT !.elements = e]
        BY <3>2
      <4> DEFINE m == [p EXCEPT !.elements = e]
      <4>2. /\ DOMAIN m = DOMAIN p /\ m.route = p.route /\ m.width = p.width /\ m.tables = p.tables
            /\ m.notes = p.notes
        BY <2>3 DEF Keeps, Fields
      <4>3. pages'[k] = m
        BY <4>1
      <4> HIDE DEF m
      <4>4. Keeps(m, q, Visually)
        BY <2>3, <3>2, <4>2 DEF Keeps
      <4>5. QED BY <4>3, <4>4
    <3>3. QED BY <2>2, <3>1, <3>2
  <2>5. QED BY <1>2, <2>4 DEF From, Renewed
<1>5. Drawn' /\ Len(pages') = Len(pages)
  BY <1>2, <1>3, <1>4, KeptIsDrawn
<1>6. Counting' /\ Recognised'
  BY <1>1, <1>2, <1>5 DEF Counting, Recognised, Stages
<1>7. QED BY <1>5, <1>6 DEF PageInv

LEMMA StepPages == PageInv /\ MarkInv /\ BudgetInv /\ [Next]_vars => PageInv'
<1> SUFFICES ASSUME PageInv, MarkInv, BudgetInv, [Next]_vars PROVE PageInv'
  OBVIOUS
<1>1. CASE \/ Tick \/ Snapshot \/ Preflight \/ Assess \/ Visual \/ Osd \/ Special \/ Compare
           \/ Render \/ RenderAgain \/ RenderImage \/ Refused
  BY <1>1, LooksPages
<1>2. CASE Layout \/ Ocr \/ TableStage
  BY <1>2, CallPages
<1>3. CASE RecoverElements \/ RecoverOrder
  BY <1>3, RecoverPages
<1>4. CASE UNCHANGED vars
  BY <1>4 DEF vars, PageInv, Counting, Recognised, Drawn, Renewed, unit
<1>5. QED BY <1>1, <1>2, <1>3, <1>4, RoutePages, OfficePages, CanonicalPages, FallbackEndsPages,
             MergePages, PredictPages, CollectPages, AssemblePages DEF Next

LEMMA PagesHold == Spec => [](BudgetInv /\ MarkInv /\ PageInv)
<1>1. Spec => []BudgetInv
  BY InitBudget, StepBudget, PTL DEF Spec
<1>2. Spec => []MarkInv
  BY <1>1, InitMarks, StepMarks, PTL DEF Spec
<1>3. Spec => []PageInv
  BY <1>1, <1>2, InitPages, StepPages, PTL DEF Spec
<1>4. QED BY <1>1, <1>2, <1>3, PTL

-----------------------------------------------------------------------------
(* Whatever the document, the installed backends and the failures of the   *)
(* models, the state has its types: no route of process_file (cli.py)      *)
(* reads a unit past the last, and none leaves more pages than units.      *)
THEOREM TypeCorrect == Spec => []TypeOK
<1>1. BudgetInv /\ PageInv => TypeOK
  BY DEF BudgetInv, PageInv, Bounds, Counting, TypeOK
<1>2. QED BY <1>1, PagesHold, PTL

-----------------------------------------------------------------------------
(***************************************************************************)
(* Ordered: a finite set in the order of its keys, each element once.      *)
(***************************************************************************)

\* LT orders S, as a set of pairs.
Chain(S, LT) ==
    /\ \A a \in S : <<a, a>> \notin LT
    /\ \A a, b \in S : a # b => <<a, b>> \in LT \/ <<b, a>> \in LT
    /\ \A a, b, c \in S : <<a, b>> \in LT /\ <<b, c>> \in LT => <<a, c>> \in LT
Rank(S, LT, e) == Cardinality({d \in S : <<d, e>> \in LT})

LEMMA RankGrows ==
    ASSUME NEW S, IsFiniteSet(S), NEW LT, Chain(S, LT), NEW a \in S, NEW b \in S, <<a, b>> \in LT
    PROVE  Rank(S, LT, a) \in Nat /\ Rank(S, LT, b) \in Nat /\ Rank(S, LT, a) < Rank(S, LT, b)
<1> DEFINE A == {d \in S : <<d, a>> \in LT}
           B == {d \in S : <<d, b>> \in LT}
<1>1. B \in SUBSET S /\ A \in SUBSET B /\ a \in B /\ a \notin A
  BY DEF Chain
<1>2. Rank(S, LT, a) = Cardinality(A) /\ Rank(S, LT, b) = Cardinality(B)
  BY DEF Rank
<1> HIDE DEF A, B
<1>3. IsFiniteSet(B)
  BY <1>1, FS_Subset
<1>4. IsFiniteSet(A) /\ Cardinality(A) <= Cardinality(B) /\ Cardinality(A) # Cardinality(B)
  BY <1>1, <1>3, FS_Subset
<1>5. Cardinality(A) \in Nat /\ Cardinality(B) \in Nat
  BY <1>3, <1>4, FS_CardinalityType
<1>6. QED BY <1>2, <1>4, <1>5

LEMMA RankBelow ==
    ASSUME NEW S, IsFiniteSet(S), NEW LT, Chain(S, LT), NEW a \in S
    PROVE  Rank(S, LT, a) \in 0..(Cardinality(S) - 1)
<1> DEFINE A == {d \in S : <<d, a>> \in LT}
<1>1. A \in SUBSET (S \ {a})
  BY DEF Chain
<1>2. IsFiniteSet(S \ {a}) /\ Cardinality(S \ {a}) = Cardinality(S) - 1
  BY FS_RemoveElement
<1>3. Rank(S, LT, a) = Cardinality(A)
  BY DEF Rank
<1> HIDE DEF A
<1>4. IsFiniteSet(A) /\ Cardinality(A) <= Cardinality(S \ {a})
  BY <1>1, <1>2, FS_Subset
<1>5. Cardinality(A) \in Nat /\ Cardinality(S) \in Nat
  BY <1>4, FS_CardinalityType
<1>6. QED BY <1>2, <1>3, <1>4, <1>5

LEMMA RankOnto ==
    ASSUME NEW S, IsFiniteSet(S), NEW LT, Chain(S, LT), NEW i \in 0..(Cardinality(S) - 1)
    PROVE  \E e \in S : Rank(S, LT, e) = i
<1> DEFINE f == [e \in S |-> Rank(S, LT, e)]
           size == Cardinality(S)
<1>1. size \in Nat
  BY FS_CardinalityType
<1>2. f \in [S -> 0..(size - 1)]
  BY RankBelow
<1>3. ASSUME NEW a \in S, NEW b \in S, f[a] = f[b] PROVE a = b
  <2> SUFFICES ASSUME a # b PROVE FALSE
    OBVIOUS
  <2>1. <<a, b>> \in LT \/ <<b, a>> \in LT
    BY DEF Chain
  <2>2. CASE <<a, b>> \in LT
    BY <1>3, <2>2, RankGrows
  <2>3. CASE <<b, a>> \in LT
    BY <1>3, <2>3, RankGrows
  <2>4. QED BY <2>1, <2>2, <2>3
<1> HIDE DEF f
<1>4. f \in Injection(S, 0..(size - 1))
  BY <1>2, <1>3 DEF Injection, IsInjective
<1>5. IsFiniteSet(0..(size - 1)) /\ Cardinality(0..(size - 1)) = size
  BY <1>1, FS_Interval
<1>6. f \in Surjection(S, 0..(size - 1))
  BY <1>4, <1>5, FS_Injection
<1>7. \E e \in S : f[e] = i
  BY <1>6 DEF Surjection
<1>8. QED BY <1>7 DEF f

\* q takes an element of each rank, wherever there is one.
Choosing(q, S, LT) ==
    /\ q = [i \in 1..Cardinality(S) |-> q[i]]
    /\ \A i \in 1..Cardinality(S) :
          (\E e \in S : Rank(S, LT, e) = i - 1) => q[i] \in S /\ Rank(S, LT, q[i]) = i - 1
\* q is S in the order of LT.
Enumerates(q, S, LT) ==
    /\ q \in Seq(S) /\ DOMAIN q = 1..Cardinality(S) /\ Len(q) = Cardinality(S)
    /\ \A e \in S : \E i \in DOMAIN q : q[i] = e
    /\ \A i, j \in DOMAIN q : i < j => <<q[i], q[j]>> \in LT

LEMMA Enumerating ==
    ASSUME NEW S, IsFiniteSet(S), NEW LT, Chain(S, LT), NEW q, Choosing(q, S, LT)
    PROVE  Enumerates(q, S, LT)
<1> DEFINE size == Cardinality(S)
<1>1. size \in Nat
  BY FS_CardinalityType
<1>2. ASSUME NEW i \in 1..size PROVE q[i] \in S /\ Rank(S, LT, q[i]) = i - 1
  <2>1. i - 1 \in 0..(size - 1)
    BY <1>1
  <2>2. \E e \in S : Rank(S, LT, e) = i - 1
    BY <2>1, RankOnto
  <2>3. QED BY <2>2 DEF Choosing
<1>3. q \in Seq(S) /\ DOMAIN q = 1..size /\ Len(q) = size
  BY <1>1, <1>2 DEF Choosing
<1>4. ASSUME NEW e \in S PROVE \E i \in DOMAIN q : q[i] = e
  <2>1. Rank(S, LT, e) \in 0..(size - 1)
    BY RankBelow
  <2> DEFINE i == Rank(S, LT, e) + 1
             d == q[i]
  <2>2. i \in 1..size /\ i - 1 = Rank(S, LT, e)
    BY <1>1, <2>1
  <2>3. d \in S /\ Rank(S, LT, d) = Rank(S, LT, e)
    BY <1>2, <2>2
  <2> HIDE DEF d
  <2>4. d = e
    <3> SUFFICES ASSUME d # e PROVE FALSE
      OBVIOUS
    <3>1. <<d, e>> \in LT \/ <<e, d>> \in LT
      BY <2>3 DEF Chain
    <3>2. CASE <<d, e>> \in LT
      BY <2>3, <3>2, RankGrows
    <3>3. CASE <<e, d>> \in LT
      BY <2>3, <3>3, RankGrows
    <3>4. QED BY <3>1, <3>2, <3>3
  <2>5. QED BY <1>3, <2>2, <2>4 DEF d
<1>5. ASSUME NEW i \in DOMAIN q, NEW j \in DOMAIN q, i < j PROVE <<q[i], q[j]>> \in LT
  <2> DEFINE a == q[i]
             b == q[j]
  <2>1. a \in S /\ b \in S /\ Rank(S, LT, a) = i - 1 /\ Rank(S, LT, b) = j - 1 /\ i \in Nat /\ j \in Nat
    BY <1>1, <1>2, <1>3
  <2> HIDE DEF a, b
  <2> SUFFICES ASSUME <<a, b>> \notin LT PROVE FALSE
    BY DEF a, b
  <2>2. a # b
    BY <1>5, <2>1
  <2>3. <<b, a>> \in LT
    BY <2>1, <2>2 DEF Chain
  <2>4. Rank(S, LT, b) < Rank(S, LT, a)
    BY <2>1, <2>3, RankGrows
  <2>5. QED BY <1>5, <2>1, <2>4
<1>6. QED BY <1>3, <1>4, <1>5 DEF Enumerates

\* Tuples of numbers.
LEMMA LessIs ==
    /\ \A a, b \in Int : Less(<<a>>, <<b>>) <=> a < b
    /\ \A a1, a2, b1, b2 \in Int :
          Less(<<a1, a2>>, <<b1, b2>>) <=> a1 < b1 \/ (a1 = b1 /\ a2 < b2)
    /\ \A a1, a2, a3, b1, b2, b3 \in Int :
          Less(<<a1, a2, a3>>, <<b1, b2, b3>>)
             <=> a1 < b1 \/ (a1 = b1 /\ (a2 < b2 \/ (a2 = b2 /\ a3 < b3)))
<1>1. ASSUME NEW a \in Int, NEW b \in Int PROVE Less(<<a>>, <<b>>) <=> a < b
  <2> DEFINE s == <<a>>
             t == <<b>>
  <2>1. DOMAIN s = {1} /\ s[1] = a /\ t[1] = b /\ 1..(1 - 1) = {}
    OBVIOUS
  <2> HIDE DEF s, t
  <2>2. Less(s, t) <=> s[1] < t[1]
    BY <2>1 DEF Less
  <2>3. QED BY <2>1, <2>2 DEF s, t
<1>2. ASSUME NEW a1 \in Int, NEW a2 \in Int, NEW b1 \in Int, NEW b2 \in Int
      PROVE  Less(<<a1, a2>>, <<b1, b2>>) <=> a1 < b1 \/ (a1 = b1 /\ a2 < b2)
  <2> DEFINE s == <<a1, a2>>
             t == <<b1, b2>>
  <2>1. DOMAIN s = {1, 2} /\ s[1] = a1 /\ s[2] = a2 /\ t[1] = b1 /\ t[2] = b2
    OBVIOUS
  <2>2. 1..(1 - 1) = {} /\ 1..(2 - 1) = {1}
    OBVIOUS
  <2> HIDE DEF s, t
  <2>3. Less(s, t) <=> s[1] < t[1] \/ (s[2] < t[2] /\ s[1] = t[1])
    BY <2>1, <2>2 DEF Less
  <2>4. QED BY <2>1, <2>3 DEF s, t
<1>3. ASSUME NEW a1 \in Int, NEW a2 \in Int, NEW a3 \in Int, NEW b1 \in Int, NEW b2 \in Int, NEW b3 \in Int
      PROVE  Less(<<a1, a2, a3>>, <<b1, b2, b3>>)
                <=> a1 < b1 \/ (a1 = b1 /\ (a2 < b2 \/ (a2 = b2 /\ a3 < b3)))
  <2> DEFINE s == <<a1, a2, a3>>
             t == <<b1, b2, b3>>
  <2>1. /\ DOMAIN s = {1, 2, 3} /\ s[1] = a1 /\ s[2] = a2 /\ s[3] = a3
        /\ t[1] = b1 /\ t[2] = b2 /\ t[3] = b3
    OBVIOUS
  <2>2. 1..(1 - 1) = {} /\ 1..(2 - 1) = {1} /\ 1..(3 - 1) = {1, 2}
    OBVIOUS
  <2> HIDE DEF s, t
  <2>3. Less(s, t) <=> \/ s[1] < t[1]
                       \/ s[2] < t[2] /\ s[1] = t[1]
                       \/ s[3] < t[3] /\ s[1] = t[1] /\ s[2] = t[2]
    BY <2>1, <2>2 DEF Less
  <2>4. QED BY <2>1, <2>3 DEF s, t
<1>4. QED BY <1>1, <1>2, <1>3

\* A finite set that is not empty has a first element.
LEMMA FirstExists ==
    ASSUME NEW S, IsFiniteSet(S), S # {}, NEW LT, Chain(S, LT)
    PROVE  \E e \in S : \A d \in S \ {e} : <<e, d>> \in LT
<1>1. Cardinality(S) \in Nat /\ Cardinality(S) # 0
  BY FS_CardinalityType, FS_EmptySet
<1>2. 0 \in 0..(Cardinality(S) - 1)
  BY <1>1
<1>3. PICK e \in S : Rank(S, LT, e) = 0
  BY <1>2, RankOnto
<1> DEFINE A == {d \in S : <<d, e>> \in LT}
<1>4. A \in SUBSET S /\ Cardinality(A) = 0
  BY <1>3 DEF Rank
<1>5. A = {}
  <2> HIDE DEF A
  <2> QED BY <1>4, FS_Subset, FS_EmptySet
<1>6. \A d \in S : <<d, e>> \notin LT
  BY <1>5
<1>7. QED BY <1>6 DEF Chain

\* Numbers, up and down.
Up(S) == {w \in S \X S : w[1] < w[2]}
Down(S) == {w \in S \X S : w[1] > w[2]}

LEMMA UpDown ==
    ASSUME NEW S, NEW a \in S, NEW b \in S
    PROVE  (<<a, b>> \in Up(S) <=> a < b) /\ (<<a, b>> \in Down(S) <=> a > b)
BY DEF Up, Down

LEMMA NumbersChain ==
    ASSUME NEW S \in SUBSET Int
    PROVE  Chain(S, Up(S)) /\ Chain(S, Down(S))
<1>1. \A a, b \in S : (<<a, b>> \in Up(S) <=> a < b) /\ (<<a, b>> \in Down(S) <=> a > b)
  BY UpDown
<1>2. \A a \in S : a \in Int
  OBVIOUS
<1>3. Chain(S, Up(S))
  <2>1. \A a \in S : ~(a < a)
    BY <1>2
  <2>2. \A a, b \in S : a # b => a < b \/ b < a
    BY <1>2
  <2>3. \A a, b, c \in S : a < b /\ b < c => a < c
    BY <1>2
  <2>4. QED BY <1>1, <2>1, <2>2, <2>3 DEF Chain
<1>4. Chain(S, Down(S))
  <2>1. \A a \in S : ~(a > a)
    BY <1>2
  <2>2. \A a, b \in S : a # b => a > b \/ b > a
    BY <1>2
  <2>3. \A a, b, c \in S : a > b /\ b > c => a > c
    BY <1>2
  <2>4. QED BY <1>1, <2>1, <2>2, <2>3 DEF Chain
<1>5. QED BY <1>3, <1>4

LEMMA MinIs ==
    ASSUME NEW S \in SUBSET Int, IsFiniteSet(S), S # {}
    PROVE  Min(S) \in S /\ \A x \in S : Min(S) <= x
<1>1. PICK e \in S : \A d \in S \ {e} : <<e, d>> \in Up(S)
  BY NumbersChain, FirstExists
<1>2. \A x \in S : e <= x
  <2> SUFFICES ASSUME NEW x \in S PROVE e <= x
    OBVIOUS
  <2>1. x # e => e < x
    BY <1>1, UpDown
  <2>2. e \in Int /\ x \in Int
    OBVIOUS
  <2>3. QED BY <2>1, <2>2
<1>3. QED BY <1>2 DEF Min

LEMMA MaxIs ==
    ASSUME NEW S \in SUBSET Int, IsFiniteSet(S), S # {}
    PROVE  Max(S) \in S /\ \A x \in S : x <= Max(S)
<1>1. PICK e \in S : \A d \in S \ {e} : <<e, d>> \in Down(S)
  BY NumbersChain, FirstExists
<1>2. \A x \in S : e >= x
  <2> SUFFICES ASSUME NEW x \in S PROVE e >= x
    OBVIOUS
  <2>1. x # e => e > x
    BY <1>1, UpDown
  <2>2. e \in Int /\ x \in Int
    OBVIOUS
  <2>3. QED BY <2>1, <2>2
<1>3. \A x \in S : x <= Max(S) /\ Max(S) \in S
  BY <1>2 DEF Max
<1>4. QED BY <1>3

LEMMA OfTwo ==
    ASSUME NEW a \in Int, NEW b \in Int
    PROVE  /\ Min({a, b}) = IF a <= b THEN a ELSE b
           /\ Max({a, b}) = IF a <= b THEN b ELSE a
<1> DEFINE S == {a, b}
<1>1. S \in SUBSET Int /\ S # {} /\ \A x \in S : x = a \/ x = b
  OBVIOUS
<1>2. IsFiniteSet(S)
  <2>1. S = {a} \cup {b}
    OBVIOUS
  <2>2. IsFiniteSet({a}) /\ IsFiniteSet({b})
    BY FS_Singleton
  <2> HIDE DEF S
  <2>3. QED BY <2>1, <2>2, FS_Union
<1>3. a \in S /\ b \in S
  OBVIOUS
<1> HIDE DEF S
<1>4. Min(S) \in S /\ Min(S) <= a /\ Min(S) <= b
  BY <1>1, <1>2, <1>3, MinIs
<1>5. Max(S) \in S /\ a <= Max(S) /\ b <= Max(S)
  BY <1>1, <1>2, <1>3, MaxIs
<1>6. Min(S) = IF a <= b THEN a ELSE b
  <2>1. Min(S) = a \/ Min(S) = b
    BY <1>1, <1>4
  <2>2. QED BY <1>4, <2>1
<1>7. Max(S) = IF a <= b THEN b ELSE a
  <2>1. Max(S) = a \/ Max(S) = b
    BY <1>1, <1>5
  <2>2. QED BY <1>5, <2>1
<1>8. QED BY <1>6, <1>7 DEF S

\* Numbers in their order, and the members of a sequence at some positions.
NumberAt(S, i) == CHOOSE e \in S : Cardinality({d \in S : Less(<<d>>, <<e>>)}) = i - 1
ByNumber(S) == [i \in 1..Cardinality(S) |-> NumberAt(S, i)]

LEMMA ByNumberIs ==
    ASSUME NEW S \in SUBSET Int, IsFiniteSet(S)
    PROVE  Enumerates(ByNumber(S), S, Up(S))
<1> DEFINE q == ByNumber(S)
<1>1. ASSUME NEW e \in S
      PROVE  Rank(S, Up(S), e) = Cardinality({d \in S : Less(<<d>>, <<e>>)})
  <2>1. \A d \in S : Less(<<d>>, <<e>>) <=> <<d, e>> \in Up(S)
    BY LessIs DEF Up
  <2>2. {d \in S : Less(<<d>>, <<e>>)} = {d \in S : <<d, e>> \in Up(S)}
    BY <2>1
  <2>3. QED BY <2>2 DEF Rank
<1>2. ASSUME NEW i \in 1..Cardinality(S), \E e \in S : Rank(S, Up(S), e) = i - 1
      PROVE  q[i] \in S /\ Rank(S, Up(S), q[i]) = i - 1
  <2>1. q[i] = CHOOSE e \in S : Cardinality({d \in S : Less(<<d>>, <<e>>)}) = i - 1
    BY DEF ByNumber, NumberAt
  <2>2. \E e \in S : Cardinality({d \in S : Less(<<d>>, <<e>>)}) = i - 1
    BY <1>1, <1>2
  <2>3. q[i] \in S /\ Cardinality({d \in S : Less(<<d>>, <<q[i]>>)}) = i - 1
    <3> HIDE DEF q
    <3> QED BY <2>1, <2>2
  <2>4. QED BY <1>1, <2>3
<1>3. q = [i \in 1..Cardinality(S) |-> q[i]]
  BY DEF ByNumber
<1> HIDE DEF q
<1>4. Choosing(q, S, Up(S))
  BY <1>2, <1>3 DEF Choosing
<1>5. Enumerates(q, S, Up(S))
  BY <1>4, NumbersChain, Enumerating
<1>6. QED BY <1>5 DEF q

LEMMA PickedIs ==
    ASSUME NEW T, NEW s \in Seq(T), NEW S \in SUBSET DOMAIN s
    PROVE  \E at : /\ Enumerates(at, S, Up(S))
                   /\ Picked(s, S) \in Seq(T) /\ DOMAIN Picked(s, S) = DOMAIN at
                   /\ Len(Picked(s, S)) = Cardinality(S)
                   /\ \A k \in DOMAIN at : at[k] \in S /\ Picked(s, S)[k] = s[at[k]]
<1>1. Picked(s, S) = [k \in DOMAIN ByNumber(S) |-> s[ByNumber(S)[k]]]
  BY DEF Picked, Ordered, ByNumber, NumberAt
<1>2. IsFiniteSet(S) /\ S \in SUBSET Int
  <2>1. DOMAIN s = 1..Len(s) /\ Len(s) \in Nat
    OBVIOUS
  <2>2. IsFiniteSet(1..Len(s))
    BY <2>1, FS_Interval
  <2>3. QED BY <2>1, <2>2, FS_Subset
<1> DEFINE at == ByNumber(S)
<1>3. Enumerates(at, S, Up(S))
  BY <1>2, ByNumberIs
<1>4. Picked(s, S) = [k \in DOMAIN at |-> s[at[k]]]
  BY <1>1
<1> HIDE DEF at
<1>5. \A k \in DOMAIN at : at[k] \in S /\ s[at[k]] \in T
  BY <1>3 DEF Enumerates
<1>6. DOMAIN at = 1..Cardinality(S) /\ Cardinality(S) \in Nat
  BY <1>2, <1>3, FS_CardinalityType DEF Enumerates
<1>7. Picked(s, S) \in Seq(T) /\ Len(Picked(s, S)) = Cardinality(S)
  BY <1>4, <1>5, <1>6
<1>8. QED BY <1>3, <1>4, <1>5, <1>7

\* S in the order of the keys K, three numbers each.
Keyed(S, K) == {w \in S \X S : Less(K[w[1]], K[w[2]])}
Keys(S, K) == K \in [S -> Int \X Int \X Int] /\ \A a, b \in S : K[a] = K[b] => a = b

LEMMA KeysChain ==
    ASSUME NEW S, NEW K, Keys(S, K)
    PROVE  Chain(S, Keyed(S, K))
<1>1. \A a, b \in S : <<a, b>> \in Keyed(S, K) <=> Less(K[a], K[b])
  BY DEF Keyed
<1>2. \A a \in S : /\ K[a][1] \in Int /\ K[a][2] \in Int /\ K[a][3] \in Int
                   /\ K[a] = <<K[a][1], K[a][2], K[a][3]>>
  BY DEF Keys
<1>3. ASSUME NEW a \in S, NEW b \in S
      PROVE  Less(K[a], K[b])
                <=> \/ K[a][1] < K[b][1]
                    \/ K[a][1] = K[b][1] /\ (K[a][2] < K[b][2] \/ (K[a][2] = K[b][2] /\ K[a][3] < K[b][3]))
  <2> DEFINE a1 == K[a][1]  a2 == K[a][2]  a3 == K[a][3]
             b1 == K[b][1]  b2 == K[b][2]  b3 == K[b][3]
  <2>1. /\ a1 \in Int /\ a2 \in Int /\ a3 \in Int /\ b1 \in Int /\ b2 \in Int /\ b3 \in Int
        /\ K[a] = <<a1, a2, a3>> /\ K[b] = <<b1, b2, b3>>
    BY <1>2
  <2> HIDE DEF a1, a2, a3, b1, b2, b3
  <2>2. Less(K[a], K[b]) <=> a1 < b1 \/ (a1 = b1 /\ (a2 < b2 \/ (a2 = b2 /\ a3 < b3)))
    BY <2>1, LessIs
  <2>3. QED BY <2>2 DEF a1, a2, a3, b1, b2, b3
<1>4. \A a \in S : ~ Less(K[a], K[a])
  BY <1>2, <1>3
<1>5. ASSUME NEW a \in S, NEW b \in S, a # b PROVE Less(K[a], K[b]) \/ Less(K[b], K[a])
  <2>1. K[a] # K[b]
    BY <1>5 DEF Keys
  <2>2. ~(K[a][1] = K[b][1] /\ K[a][2] = K[b][2] /\ K[a][3] = K[b][3])
    BY <1>2, <2>1
  <2>3. QED BY <1>2, <1>3, <2>2
<1>6. \A a, b, c \in S : Less(K[a], K[b]) /\ Less(K[b], K[c]) => Less(K[a], K[c])
  BY <1>2, <1>3
<1>7. QED BY <1>1, <1>4, <1>5, <1>6 DEF Chain

\* A list of a set: each element, once.
Lists(q, S) ==
    /\ q \in Seq(S) /\ DOMAIN q = 1..Len(q) /\ Len(q) \in Nat
    /\ \A e \in S : \E i \in DOMAIN q : q[i] = e
    /\ \A i, j \in DOMAIN q : q[i] = q[j] => i = j

LEMMA EnumeratesLists ==
    ASSUME NEW S, NEW LT, Chain(S, LT), NEW q, Enumerates(q, S, LT)
    PROVE  Lists(q, S)
<1>1. q \in Seq(S) /\ DOMAIN q = 1..Len(q) /\ Len(q) \in Nat
  BY DEF Enumerates
<1>2. ASSUME NEW i \in DOMAIN q, NEW j \in DOMAIN q, q[i] = q[j] PROVE i = j
  <2>1. q[i] \in S
    BY <1>1
  <2>2. <<q[i], q[j]>> \notin LT /\ <<q[j], q[i]>> \notin LT
    BY <1>2, <2>1 DEF Chain
  <2>3. ~(i < j) /\ ~(j < i)
    BY <2>2 DEF Enumerates
  <2>4. i \in Nat /\ j \in Nat
    BY <1>1
  <2>5. QED BY <2>3, <2>4
<1>3. QED BY <1>1, <1>2 DEF Enumerates, Lists

\* Places of a grid, row by row.
PlaceAt(S, i) == CHOOSE e \in S : Cardinality({d \in S : Less(d, e)}) = i - 1
ByPlace(S) == [i \in 1..Cardinality(S) |-> PlaceAt(S, i)]

Sooner(p, q) == p[1] < q[1] \/ (p[1] = q[1] /\ p[2] < q[2])

LEMMA ByPlaceRuns ==
    ASSUME NEW S \in SUBSET (Int \X Int), IsFiniteSet(S)
    PROVE  /\ Lists(ByPlace(S), S)
           /\ \A i, j \in DOMAIN ByPlace(S) : i < j => Sooner(ByPlace(S)[i], ByPlace(S)[j])
<1> DEFINE q == ByPlace(S)
           K == [p \in S |-> <<p[1], p[2], 0>>]
           LT == Keyed(S, K)
<1>1. \A p \in S : p[1] \in Int /\ p[2] \in Int /\ p = <<p[1], p[2]>>
  OBVIOUS
<1>2. Keys(S, K)
  BY <1>1 DEF Keys
<1>3. \A d, e \in S : (Less(d, e) <=> <<d, e>> \in LT) /\ (<<d, e>> \in LT <=> Sooner(d, e))
  <2> SUFFICES ASSUME NEW d \in S, NEW e \in S
               PROVE (Less(d, e) <=> <<d, e>> \in LT) /\ (<<d, e>> \in LT <=> Sooner(d, e))
    OBVIOUS
  <2>1. <<d, e>> \in LT <=> Less(<<d[1], d[2], 0>>, <<e[1], e[2], 0>>)
    BY DEF Keyed
  <2>2. Less(<<d[1], d[2], 0>>, <<e[1], e[2], 0>>) <=> d[1] < e[1] \/ (d[1] = e[1] /\ d[2] < e[2])
    BY <1>1, LessIs
  <2>3. Less(<<d[1], d[2]>>, <<e[1], e[2]>>) <=> d[1] < e[1] \/ (d[1] = e[1] /\ d[2] < e[2])
    BY <1>1, LessIs
  <2>4. QED BY <1>1, <2>1, <2>2, <2>3 DEF Sooner
<1> HIDE DEF LT, K
<1>4. ASSUME NEW e \in S PROVE Rank(S, LT, e) = Cardinality({d \in S : Less(d, e)})
  <2>1. {d \in S : Less(d, e)} = {d \in S : <<d, e>> \in LT}
    BY <1>3
  <2>2. QED BY <2>1 DEF Rank
<1>5. ASSUME NEW i \in 1..Cardinality(S), \E e \in S : Rank(S, LT, e) = i - 1
      PROVE  q[i] \in S /\ Rank(S, LT, q[i]) = i - 1
  <2>1. q[i] = CHOOSE e \in S : Cardinality({d \in S : Less(d, e)}) = i - 1
    BY DEF ByPlace, PlaceAt
  <2>2. \E e \in S : Cardinality({d \in S : Less(d, e)}) = i - 1
    BY <1>4, <1>5
  <2>3. q[i] \in S /\ Cardinality({d \in S : Less(d, q[i])}) = i - 1
    <3> HIDE DEF q
    <3> QED BY <2>1, <2>2
  <2>4. QED BY <1>4, <2>3
<1>6. q = [i \in 1..Cardinality(S) |-> q[i]]
  BY DEF ByPlace
<1> HIDE DEF q
<1>7. Choosing(q, S, LT)
  BY <1>5, <1>6 DEF Choosing
<1>8. Chain(S, LT)
  BY <1>2, KeysChain DEF LT
<1>9. Enumerates(q, S, LT)
  BY <1>7, <1>8, Enumerating
<1>10. Lists(q, S)
  BY <1>8, <1>9, EnumeratesLists
<1>11. \A i, j \in DOMAIN q : i < j => Sooner(q[i], q[j])
  <2> SUFFICES ASSUME NEW i \in DOMAIN q, NEW j \in DOMAIN q, i < j PROVE Sooner(q[i], q[j])
    OBVIOUS
  <2>1. q[i] \in S /\ q[j] \in S
    BY <1>9 DEF Enumerates
  <2>2. <<q[i], q[j]>> \in LT
    BY <1>9 DEF Enumerates
  <2>3. QED BY <1>3, <2>1, <2>2
<1>12. QED BY <1>10, <1>11 DEF q

LEMMA ByPlaceIs ==
    ASSUME NEW S \in SUBSET (Int \X Int), IsFiniteSet(S)
    PROVE  Lists(ByPlace(S), S)
BY ByPlaceRuns

\* The runs of a cell, from the top and from the left.
Runs == [box : Bounding, size : Int, colour : Int, block : Int]
RunKey(runs, i) == <<runs[i].box.y0, runs[i].box.x0, i>>
TopAt(runs, S, i) ==
    CHOOSE e \in S : Cardinality({d \in S : Less(RunKey(runs, d), RunKey(runs, e))}) = i - 1
ByTop(runs, S) == [i \in 1..Cardinality(S) |-> TopAt(runs, S, i)]

LEMMA ByTopIs ==
    ASSUME NEW runs \in Seq(Runs), NEW S \in SUBSET DOMAIN runs
    PROVE  Lists(ByTop(runs, S), S)
<1> DEFINE q == ByTop(runs, S)
           K == [i \in S |-> RunKey(runs, i)]
           LT == Keyed(S, K)
<1>1. IsFiniteSet(S) /\ \A i \in S : i \in Int /\ runs[i] \in Runs
  <2>1. DOMAIN runs = 1..Len(runs) /\ Len(runs) \in Nat
    OBVIOUS
  <2>2. IsFiniteSet(1..Len(runs))
    BY <2>1, FS_Interval
  <2>3. QED BY <2>1, <2>2, FS_Subset
<1>2. Keys(S, K)
  <2>1. ASSUME NEW i \in S PROVE RunKey(runs, i) \in Int \X Int \X Int /\ RunKey(runs, i)[3] = i
    BY <1>1, <2>1 DEF RunKey, Runs, Bounding
  <2>2. QED BY <2>1 DEF Keys
<1>3. \A d, e \in S : Less(RunKey(runs, d), RunKey(runs, e)) <=> <<d, e>> \in LT
  BY DEF Keyed
<1> HIDE DEF LT, K
<1>4. ASSUME NEW e \in S
      PROVE  Rank(S, LT, e) = Cardinality({d \in S : Less(RunKey(runs, d), RunKey(runs, e))})
  <2>1. {d \in S : Less(RunKey(runs, d), RunKey(runs, e))} = {d \in S : <<d, e>> \in LT}
    BY <1>3
  <2>2. QED BY <2>1 DEF Rank
<1>5. ASSUME NEW i \in 1..Cardinality(S), \E e \in S : Rank(S, LT, e) = i - 1
      PROVE  q[i] \in S /\ Rank(S, LT, q[i]) = i - 1
  <2>1. q[i] = CHOOSE e \in S :
                  Cardinality({d \in S : Less(RunKey(runs, d), RunKey(runs, e))}) = i - 1
    BY DEF ByTop, TopAt
  <2>2. \E e \in S : Cardinality({d \in S : Less(RunKey(runs, d), RunKey(runs, e))}) = i - 1
    BY <1>4, <1>5
  <2>3. q[i] \in S /\ Cardinality({d \in S : Less(RunKey(runs, d), RunKey(runs, q[i]))}) = i - 1
    <3> HIDE DEF q
    <3> QED BY <2>1, <2>2
  <2>4. QED BY <1>4, <2>3
<1>6. q = [i \in 1..Cardinality(S) |-> q[i]]
  BY DEF ByTop
<1> HIDE DEF q
<1>7. Choosing(q, S, LT)
  BY <1>5, <1>6 DEF Choosing
<1>8. Chain(S, LT)
  BY <1>2, KeysChain DEF LT
<1>9. Lists(q, S)
  BY <1>1, <1>7, <1>8, Enumerating, EnumeratesLists
<1>10. QED BY <1>9 DEF q

-----------------------------------------------------------------------------
(***************************************************************************)
(* Boxes that overlap, and the one cell of a table that takes a run.       *)
(***************************************************************************)
Grids == [box : Bounding, rows : Seq(Seq(Bounding)), cols : Nat, broken : BOOLEAN]

LEMMA SharedIs ==
    ASSUME NEW a \in Bounding, NEW b \in Bounding
    PROVE  /\ AlongX(a, b) \in Int /\ AlongY(a, b) \in Int
           /\ Shared(a, b) \in Nat
           /\ Shared(a, b) > 0 <=> AlongX(a, b) > 0 /\ AlongY(a, b) > 0
<1>1. /\ a.x0 \in Int /\ a.x1 \in Int /\ a.y0 \in Int /\ a.y1 \in Int
      /\ b.x0 \in Int /\ b.x1 \in Int /\ b.y0 \in Int /\ b.y1 \in Int
  BY DEF Bounding
<1>2. AlongX(a, b) \in Int /\ AlongY(a, b) \in Int
  <2>1. ASSUME NEW a0 \in Int, NEW a1 \in Int, NEW b0 \in Int, NEW b1 \in Int
        PROVE  Along(a0, a1, b0, b1) \in Int
    <3>1. Min({a1, b1}) = IF a1 <= b1 THEN a1 ELSE b1
      BY OfTwo
    <3>2. Max({a0, b0}) = IF a0 <= b0 THEN b0 ELSE a0
      BY OfTwo
    <3>3. QED BY <3>1, <3>2 DEF Along
  <2>2. QED BY <1>1, <2>1 DEF AlongX, AlongY
<1> DEFINE x == AlongX(a, b)
           y == AlongY(a, b)
<1>3. x \in Int /\ y \in Int /\ Shared(a, b) = Max({0, x}) * Max({0, y})
  BY <1>2 DEF Shared
<1> HIDE DEF x, y
<1>4. /\ Max({0, x}) = IF 0 <= x THEN x ELSE 0
      /\ Max({0, y}) = IF 0 <= y THEN y ELSE 0
  <2>1. 0 \in Int /\ x \in Int /\ y \in Int
    BY <1>3
  <2>2. Max({0, x}) = IF 0 <= x THEN x ELSE 0
    BY <2>1, OfTwo
  <2>3. Max({0, y}) = IF 0 <= y THEN y ELSE 0
    BY <2>1, OfTwo
  <2>4. QED BY <2>2, <2>3
<1>5. \A v, w \in Nat : v * w \in Nat /\ (v * w > 0 <=> v > 0 /\ w > 0)
  OBVIOUS
<1>6. Shared(a, b) \in Nat /\ (Shared(a, b) > 0 <=> x > 0 /\ y > 0)
  BY <1>3, <1>4, <1>5
<1>7. QED BY <1>2, <1>6 DEF x, y

\* A box with an extent shares some of it with the one that holds its centre.
LEMMA CentreShares ==
    ASSUME NEW a \in Bounding, NEW b \in Bounding, HasExtent(a), HasExtent(b), CenterIn(a, b)
    PROVE  Shared(a, b) > 0
<1>1. /\ a.x0 \in Int /\ a.x1 \in Int /\ a.y0 \in Int /\ a.y1 \in Int
      /\ b.x0 \in Int /\ b.x1 \in Int /\ b.y0 \in Int /\ b.y1 \in Int
  BY DEF Bounding
<1>2. a.x0 < a.x1 /\ a.y0 < a.y1 /\ b.x0 < b.x1 /\ b.y0 < b.y1
  BY <1>1 DEF HasExtent, Wide, Tall
<1>3. ASSUME NEW a0 \in Int, NEW a1 \in Int, NEW b0 \in Int, NEW b1 \in Int,
             a0 < a1, b0 < b1, 2 * b0 <= a0 + a1, a0 + a1 <= 2 * b1
      PROVE  Along(a0, a1, b0, b1) > 0
  <2>1. /\ Min({a1, b1}) = IF a1 <= b1 THEN a1 ELSE b1
        /\ Max({a0, b0}) = IF a0 <= b0 THEN b0 ELSE a0
    BY OfTwo
  <2>2. QED BY <1>3, <2>1 DEF Along
<1>4. AlongX(a, b) > 0 /\ AlongY(a, b) > 0
  BY <1>1, <1>2, <1>3 DEF CenterIn, AlongX, AlongY
<1>5. QED BY <1>4, SharedIs

\* None lies inside a box that is not there.
LEMMA NowhereInside ==
    ASSUME NEW b \in Bounding
    PROVE  ~ MostlyInside(NoBox, b)
<1>1. /\ NoBox \in Bounding /\ NoBox.x0 = 0 /\ NoBox.x1 = -1
  BY DEF NoBox, Box, Bounding
<1>2. b.x0 \in Int /\ b.x1 \in Int
  BY DEF Bounding
<1>3. AlongX(NoBox, b) = Min({-1, b.x1}) - Max({0, b.x0})
  BY <1>1 DEF AlongX, Along
<1>4. AlongX(NoBox, b) <= -1
  <2>1. /\ Min({-1, b.x1}) = IF -1 <= b.x1 THEN -1 ELSE b.x1
        /\ Max({0, b.x0}) = IF 0 <= b.x0 THEN b.x0 ELSE 0
    BY <1>2, OfTwo
  <2>2. QED BY <1>2, <1>3, <2>1
<1>5. ~(Shared(NoBox, b) > 0)
  BY <1>1, <1>4, SharedIs
<1>6. QED BY <1>5 DEF MostlyInside

LEMMA PlacesAre ==
    ASSUME NEW t \in Grids
    PROVE  /\ IsFiniteSet(Places(t)) /\ Places(t) \in SUBSET (Int \X Int)
           /\ \A p \in Places(t) : CellBox(t, p) \in Bounding
<1> DEFINE rows == t.rows
           D == DOMAIN rows
           Q == {{r} \X DOMAIN rows[r] : r \in D}
<1>1. rows \in Seq(Seq(Bounding)) /\ Len(rows) \in Nat /\ D = 1..Len(rows)
  BY DEF Grids
<1>2. \A r \in D : rows[r] \in Seq(Bounding) /\ Len(rows[r]) \in Nat /\ DOMAIN rows[r] = 1..Len(rows[r])
  BY <1>1
<1>3. IsFiniteSet(D)
  BY <1>1, FS_Interval
<1>4. \A r \in D : IsFiniteSet({r} \X DOMAIN rows[r])
  <2> SUFFICES ASSUME NEW r \in D PROVE IsFiniteSet({r} \X DOMAIN rows[r])
    OBVIOUS
  <2>1. IsFiniteSet({r})
    BY FS_Singleton
  <2>2. IsFiniteSet(1..Len(rows[r]))
    <3>1. Len(rows[r]) \in Int /\ 1 \in Int
      BY <1>2
    <3>2. QED BY <3>1, FS_Interval
  <2>3. DOMAIN rows[r] = 1..Len(rows[r])
    BY <1>2
  <2>4. IsFiniteSet(DOMAIN rows[r])
    BY <2>2, <2>3
  <2>5. QED BY <2>1, <2>4, FS_Product
<1>5. IsFiniteSet(Q)
  <2> DEFINE f == [r \in D |-> {r} \X DOMAIN rows[r]]
  <2>1. f \in Surjection(D, Q)
    BY DEF Surjection
  <2> HIDE DEF f, Q, D
  <2>2. QED BY <1>3, <2>1, FS_Surjection
<1>6. IsFiniteSet(UNION Q)
  <2>1. \A T \in Q : IsFiniteSet(T)
    BY <1>4
  <2> HIDE DEF Q
  <2>2. QED BY <1>5, <2>1, FS_UNION
<1>7. /\ Places(t) \in SUBSET UNION Q
      /\ \A p \in Places(t) : \E r \in D : \E c \in DOMAIN rows[r] : p = <<r, c>>
  BY DEF Places
<1>8. IsFiniteSet(Places(t))
  <2> HIDE DEF Q
  <2> QED BY <1>6, <1>7, FS_Subset
<1>9. ASSUME NEW p \in Places(t) PROVE p \in Int \X Int /\ CellBox(t, p) \in Bounding
  <2>1. PICK r \in D : \E c \in DOMAIN rows[r] : p = <<r, c>>
    BY <1>7
  <2>2. PICK c \in DOMAIN rows[r] : p = <<r, c>>
    BY <2>1
  <2>3. r \in Int /\ c \in Int /\ rows[r][c] \in Bounding
    BY <1>1, <1>2
  <2>4. QED BY <2>2, <2>3 DEF CellBox
<1>10. QED BY <1>8, <1>9

\* The image of a finite set.
LEMMA ImageIsFinite ==
    ASSUME NEW S, IsFiniteSet(S), NEW f
    PROVE  IsFiniteSet({f[x] : x \in S})
<1> DEFINE T == {f[x] : x \in S}
           g == [x \in S |-> f[x]]
<1>1. g \in Surjection(S, T)
  BY DEF Surjection
<1> HIDE DEF g, T
<1>2. IsFiniteSet(T)
  BY <1>1, FS_Surjection
<1>3. QED BY <1>2 DEF T

\* The grid holds the centres that its cells hold.
LEMMA CentreOnGrid ==
    ASSUME NEW t \in Grids, NEW p \in Places(t), NEW b \in Bounding, CenterIn(b, CellBox(t, p))
    PROVE  OnGrid(t, b)
<1> DEFINE S == {CellBox(t, q) : q \in Places(t)}
           c == CellBox(t, p)
           g == GridBox(t)
<1>1. IsFiniteSet(S) /\ c \in S /\ \A d \in S : d \in Bounding
  <2> DEFINE f == [q \in Places(t) |-> CellBox(t, q)]
  <2>1. S = {f[q] : q \in Places(t)}
    OBVIOUS
  <2>2. IsFiniteSet({f[q] : q \in Places(t)})
    <3> HIDE DEF f
    <3> QED BY PlacesAre, ImageIsFinite
  <2>3. \A q \in Places(t) : CellBox(t, q) \in Bounding
    BY PlacesAre
  <2>4. QED BY <2>1, <2>2, <2>3
<1> HIDE DEF c, S
<1>2. g = Box(Min({d.x0 : d \in S}), Min({d.y0 : d \in S}), Max({d.x1 : d \in S}), Max({d.y1 : d \in S}))
  BY DEF GridBox, Hull, S
<1>3. /\ g.x0 = Min({d.x0 : d \in S}) /\ g.y0 = Min({d.y0 : d \in S})
      /\ g.x1 = Max({d.x1 : d \in S}) /\ g.y1 = Max({d.y1 : d \in S})
  BY <1>2 DEF Box
<1>4. ASSUME NEW f \in [S -> Int]
      PROVE  /\ Min({f[d] : d \in S}) \in Int /\ Min({f[d] : d \in S}) <= f[c]
             /\ Max({f[d] : d \in S}) \in Int /\ f[c] <= Max({f[d] : d \in S})
  <2> DEFINE T == {f[d] : d \in S}
  <2>1. T \in SUBSET Int /\ f[c] \in T
    BY <1>1
  <2>2. IsFiniteSet(T)
    BY <1>1, ImageIsFinite
  <2> HIDE DEF T
  <2>3. Min(T) \in T /\ Min(T) <= f[c] /\ Max(T) \in T /\ f[c] <= Max(T)
    BY <2>1, <2>2, MinIs, MaxIs
  <2>4. QED BY <2>1, <2>3 DEF T
<1>5. g.x0 \in Int /\ g.x0 <= c.x0
  <2> DEFINE f == [d \in S |-> d.x0]
  <2>1. f \in [S -> Int] /\ {f[d] : d \in S} = {d.x0 : d \in S} /\ f[c] = c.x0
    BY <1>1 DEF Bounding
  <2> HIDE DEF f, g
  <2>2. QED BY <1>3, <1>4, <2>1
<1>6. g.y0 \in Int /\ g.y0 <= c.y0
  <2> DEFINE f == [d \in S |-> d.y0]
  <2>1. f \in [S -> Int] /\ {f[d] : d \in S} = {d.y0 : d \in S} /\ f[c] = c.y0
    BY <1>1 DEF Bounding
  <2> HIDE DEF f, g
  <2>2. QED BY <1>3, <1>4, <2>1
<1>7. g.x1 \in Int /\ c.x1 <= g.x1
  <2> DEFINE f == [d \in S |-> d.x1]
  <2>1. f \in [S -> Int] /\ {f[d] : d \in S} = {d.x1 : d \in S} /\ f[c] = c.x1
    BY <1>1 DEF Bounding
  <2> HIDE DEF f, g
  <2>2. QED BY <1>3, <1>4, <2>1
<1>8. g.y1 \in Int /\ c.y1 <= g.y1
  <2> DEFINE f == [d \in S |-> d.y1]
  <2>1. f \in [S -> Int] /\ {f[d] : d \in S} = {d.y1 : d \in S} /\ f[c] = c.y1
    BY <1>1 DEF Bounding
  <2> HIDE DEF f, g
  <2>2. QED BY <1>3, <1>4, <2>1
<1>9. /\ b.x0 \in Int /\ b.x1 \in Int /\ b.y0 \in Int /\ b.y1 \in Int
      /\ c.x0 \in Int /\ c.x1 \in Int /\ c.y0 \in Int /\ c.y1 \in Int
  BY <1>1 DEF Bounding
<1>10. CenterIn(b, c)
  BY DEF c
<1> HIDE DEF g
<1>11. CenterIn(b, g)
  BY <1>5, <1>6, <1>7, <1>8, <1>9, <1>10 DEF CenterIn
<1>12. QED BY <1>11 DEF OnGrid, g

\* assign_runs_to_cells: never two cells, and one where any holds a part.
LEMMA OneCell ==
    ASSUME NEW t \in Grids, NEW b \in Bounding, NEW p \in CellOf(t, b), NEW q \in CellOf(t, b)
    PROVE  p = q
<1> SUFFICES ASSUME p # q PROVE FALSE
  OBVIOUS
<1> DEFINE over(x) == Shared(b, CellBox(t, x))
<1>1. p \in Places(t) /\ q \in Places(t)
  BY DEF CellOf
<1>2. over(q) < over(p) \/ (over(q) = over(p) /\ Less(p, q))
  BY <1>1 DEF CellOf
<1>3. over(p) < over(q) \/ (over(p) = over(q) /\ Less(q, p))
  BY <1>1 DEF CellOf
<1>4. over(p) \in Nat /\ over(q) \in Nat
  BY <1>1, PlacesAre, SharedIs
<1> HIDE DEF over
<1>5. Less(p, q) /\ Less(q, p)
  BY <1>2, <1>3, <1>4
<1>6. PICK p1 \in Int, p2 \in Int : p = <<p1, p2>>
  BY <1>1, PlacesAre
<1>7. PICK q1 \in Int, q2 \in Int : q = <<q1, q2>>
  BY <1>1, PlacesAre
<1>8. Less(<<p1, p2>>, <<q1, q2>>) /\ Less(<<q1, q2>>, <<p1, p2>>)
  BY <1>5, <1>6, <1>7
<1>9. (p1 < q1 \/ (p1 = q1 /\ p2 < q2)) /\ (q1 < p1 \/ (q1 = p1 /\ q2 < p2))
  BY <1>8, LessIs
<1>10. QED BY <1>9

LEMMA SomeCell ==
    ASSUME NEW t \in Grids, NEW b \in Bounding, OnGrid(t, b),
           NEW p \in Places(t), Shared(b, CellBox(t, p)) > 0
    PROVE  CellOf(t, b) # {}
<1> DEFINE over == [x \in Places(t) |-> Shared(b, CellBox(t, x))]
           S == {x \in Places(t) : over[x] > 0}
           K == [x \in S |-> <<-over[x], x[1], x[2]>>]
           LT == Keyed(S, K)
<1>1. \A x \in Places(t) : /\ over[x] = Shared(b, CellBox(t, x)) /\ over[x] \in Nat
                           /\ x[1] \in Int /\ x[2] \in Int /\ x = <<x[1], x[2]>>
  BY PlacesAre, SharedIs
<1>2. p \in S /\ IsFiniteSet(S) /\ S \in SUBSET Places(t)
  BY PlacesAre, FS_Subset
<1> HIDE DEF over
<1>3. Keys(S, K)
  <2>1. \A x \in S : -over[x] \in Int
    BY <1>1
  <2>2. K \in [S -> Int \X Int \X Int]
    BY <1>1, <2>1
  <2>3. \A x, y \in S : K[x] = K[y] => x[1] = y[1] /\ x[2] = y[2]
    OBVIOUS
  <2>4. \A x, y \in S : K[x] = K[y] => x = y
    <3> SUFFICES ASSUME NEW x \in S, NEW y \in S, K[x] = K[y] PROVE x = y
      OBVIOUS
    <3>1. x = <<x[1], x[2]>> /\ y = <<y[1], y[2]>>
      BY <1>1, <1>2
    <3>2. x[1] = y[1] /\ x[2] = y[2]
      BY <2>3
    <3>3. QED BY <3>1, <3>2
  <2>5. QED BY <2>2, <2>4 DEF Keys
<1>4. ASSUME NEW x \in S, NEW y \in S, <<x, y>> \in LT
      PROVE  over[y] < over[x] \/ (over[y] = over[x] /\ Less(x, y))
  <2> DEFINE a == over[x]  a1 == x[1]  a2 == x[2]  c == over[y]  c1 == y[1]  c2 == y[2]
  <2>1. Less(<<-a, a1, a2>>, <<-c, c1, c2>>)
    BY <1>4 DEF Keyed
  <2>2. /\ a \in Int /\ a1 \in Int /\ a2 \in Int /\ c \in Int /\ c1 \in Int /\ c2 \in Int
        /\ x = <<a1, a2>> /\ y = <<c1, c2>>
    BY <1>1, <1>2
  <2> HIDE DEF a, a1, a2, c, c1, c2
  <2>3. -a \in Int /\ -c \in Int
    BY <2>2
  <2>4. -a < -c \/ (-a = -c /\ (a1 < c1 \/ (a1 = c1 /\ a2 < c2)))
    BY <2>1, <2>2, <2>3, LessIs
  <2>5. c < a \/ (c = a /\ (a1 < c1 \/ (a1 = c1 /\ a2 < c2)))
    BY <2>2, <2>4
  <2>6. (a1 < c1 \/ (a1 = c1 /\ a2 < c2)) => Less(<<a1, a2>>, <<c1, c2>>)
    BY <2>2, LessIs
  <2>7. c < a \/ (c = a /\ Less(x, y))
    BY <2>2, <2>5, <2>6
  <2>8. QED BY <2>7 DEF a, c
<1>5. Chain(S, LT)
  <2> HIDE DEF K, S
  <2> QED BY <1>3, KeysChain
<1>6. PICK e \in S : \A d \in S \ {e} : <<e, d>> \in LT
  <2> HIDE DEF S, LT
  <2> QED BY <1>2, <1>5, FirstExists
<1>7. ASSUME NEW q \in Places(t) \ {e}
      PROVE  over[q] < over[e] \/ (over[q] = over[e] /\ Less(e, q))
  <2>1. CASE q \in S
    BY <1>4, <1>6, <2>1
  <2>2. CASE q \notin S
    BY <1>1, <2>2
  <2>3. QED BY <2>1, <2>2
<1>8. /\ e \in Places(t) /\ over[e] > 0
      /\ \A q \in Places(t) \ {e} : over[q] < over[e] \/ (over[q] = over[e] /\ Less(e, q))
  BY <1>7
<1>9. /\ Shared(b, CellBox(t, e)) > 0
      /\ \A q \in Places(t) \ {e} : \/ Shared(b, CellBox(t, q)) < Shared(b, CellBox(t, e))
                                    \/ Shared(b, CellBox(t, q)) = Shared(b, CellBox(t, e)) /\ Less(e, q)
  BY <1>1, <1>8
<1>10. e \in CellOf(t, b)
  BY <1>8, <1>9 DEF CellOf
<1>11. QED BY <1>10

\* A native cell: its box, and the runs it owns.
LEMMA CellIs ==
    ASSUME NEW t \in Grids, NEW runs \in Seq(Runs), NEW p
    PROVE  /\ NativeCell(t, runs, p).box = CellBox(t, p)
           /\ ToSet(NativeCell(t, runs, p).text) = Owned(t, runs, p)
<1> DEFINE c == NativeCell(t, runs, p)
           S == Owned(t, runs, p)
           q == ByTop(runs, S)
<1>1. c.box = CellBox(t, p)
  BY DEF NativeCell, Cell
<1>2. c.text = q
  BY DEF NativeCell, Cell, Ordered, ByTop, TopAt, RunKey
<1>3. S \in SUBSET DOMAIN runs
  BY DEF Owned
<1> HIDE DEF S, c
<1>4. Lists(q, S)
  BY <1>3, ByTopIs
<1> HIDE DEF q
<1>5. ToSet(q) = S
  BY <1>4 DEF Lists, ToSet
<1>6. QED BY <1>1, <1>2, <1>5 DEF c, S

-----------------------------------------------------------------------------
(***************************************************************************)
(* The tables of a native page, and the elements beside them.              *)
(***************************************************************************)
Given(u) == /\ u.runs \in Seq(Runs) /\ u.images \in Seq(Bounding) /\ u.native \in Seq(Grids)

\* T is what became of the grid g.
Converted(T, g, runs) ==
    /\ T.box = g.box /\ T.doubt = Doubt(g, runs)
    /\ \A p \in Places(g) : \E c \in ToSet(T.cells) : ToSet(c.text) = Owned(g, runs, p)
    /\ \A c \in ToSet(T.cells) : \E p \in Places(g) :
          c = NativeCell(g, runs, p) /\ c.box = CellBox(g, p) /\ ToSet(c.text) = Owned(g, runs, p)

LEMMA TableIs ==
    ASSUME NEW g \in Grids, NEW runs \in Seq(Runs)
    PROVE  Converted(NativeTable(g, runs), g, runs)
<1> DEFINE T == NativeTable(g, runs)
           S == Places(g)
           order == ByPlace(S)
<1>1. /\ T.box = g.box /\ T.doubt = Doubt(g, runs)
      /\ T.cells = [k \in DOMAIN order |-> NativeCell(g, runs, order[k])]
  <2>1. T = [Table(Len(g.rows), g.cols, [k \in DOMAIN order |-> NativeCell(g, runs, order[k])], g.box)
               EXCEPT !.doubt = Doubt(g, runs)]
    BY DEF NativeTable, Ordered, ByPlace, PlaceAt
  <2> HIDE DEF T, order
  <2>2. QED BY <2>1 DEF Table
<1> HIDE DEF T
<1>2. Lists(order, S)
  BY PlacesAre, ByPlaceIs
<1> HIDE DEF order
<1>3. ToSet(T.cells) = {NativeCell(g, runs, order[k]) : k \in DOMAIN order}
  BY <1>1 DEF ToSet
<1>4. \A k \in DOMAIN order : order[k] \in S
  BY <1>2 DEF Lists
<1>5. ASSUME NEW p \in Places(g) PROVE \E c \in ToSet(T.cells) : ToSet(c.text) = Owned(g, runs, p)
  <2>1. PICK k \in DOMAIN order : order[k] = p
    BY <1>2 DEF Lists
  <2>2. NativeCell(g, runs, p) \in ToSet(T.cells)
    BY <1>3, <2>1
  <2>3. QED BY <2>2, CellIs
<1>6. ASSUME NEW c \in ToSet(T.cells)
      PROVE  \E p \in Places(g) :
               c = NativeCell(g, runs, p) /\ c.box = CellBox(g, p) /\ ToSet(c.text) = Owned(g, runs, p)
  <2>1. PICK k \in DOMAIN order : c = NativeCell(g, runs, order[k])
    BY <1>3
  <2>2. QED BY <1>4, <2>1, CellIs
<1>7. Converted(T, g, runs)
  BY <1>1, <1>5, <1>6 DEF Converted
<1>8. QED BY <1>7 DEF T

LEMMA TablesAre ==
    ASSUME NEW u, Given(u), NEW T \in ToSet(FoundTables(u))
    PROVE  \E g \in Grids : Converted(T, g, u.runs)
<1> DEFINE S == {k \in DOMAIN u.native : Usable(u.native[k])}
           usable == Picked(u.native, S)
<1>1. u.native \in Seq(Grids) /\ S \in SUBSET DOMAIN u.native /\ u.runs \in Seq(Runs)
  BY DEF Given
<1>2. FoundTables(u) = [k \in DOMAIN usable |-> NativeTable(usable[k], u.runs)]
  BY DEF FoundTables
<1> HIDE DEF S
<1>3. usable \in Seq(Grids)
  BY <1>1, PickedIs
<1> HIDE DEF usable
<1>4. PICK k \in DOMAIN usable : T = NativeTable(usable[k], u.runs)
  BY <1>2 DEF ToSet
<1>5. usable[k] \in Grids
  BY <1>3
<1>6. QED BY <1>1, <1>4, <1>5, TableIs

\* One list after another.
Listed(s, a) == s = [k \in 1..a |-> s[k]]
Joined(q, s, r, a, b) ==
    /\ DOMAIN q = 1..(a + b)
    /\ \A k \in 1..a : q[k] = s[k]
    /\ \A k \in 1..b : q[a + k] = r[k]
LEMMA JoinedIs ==
    ASSUME NEW s, NEW r, NEW a \in Nat, NEW b \in Nat, Listed(s, a), Listed(r, b)
    PROVE  Joined(s \o r, s, r, a, b) /\ \E T : (s \o r) \in Seq(T)
<1> DEFINE T == {s[k] : k \in 1..a} \cup {r[k] : k \in 1..b}
<1>1. s \in Seq(T) /\ Len(s) = a
  <2>1. \A k \in 1..a : s[k] \in T
    OBVIOUS
  <2> HIDE DEF T
  <2>2. s \in [1..a -> T]
    BY <2>1 DEF Listed
  <2>3. QED BY <2>2
<1>2. r \in Seq(T) /\ Len(r) = b
  <2>1. \A k \in 1..b : r[k] \in T
    OBVIOUS
  <2> HIDE DEF T
  <2>2. r \in [1..b -> T]
    BY <2>1 DEF Listed
  <2>3. QED BY <2>2
<1> HIDE DEF T
<1>3. /\ (s \o r) \in Seq(T) /\ Len(s \o r) = a + b
      /\ \A k \in 1..(a + b) : (s \o r)[k] = IF k <= a THEN s[k] ELSE r[k - a]
  BY <1>1, <1>2, ConcatProperties
<1>4. DOMAIN (s \o r) = 1..(a + b)
  BY <1>3
<1>5. \A k \in 1..a : (s \o r)[k] = s[k]
  BY <1>3
<1>6. \A k \in 1..b : (s \o r)[a + k] = r[k]
  <2> SUFFICES ASSUME NEW k \in 1..b PROVE (s \o r)[a + k] = r[k]
    OBVIOUS
  <2>1. (a + k) \in 1..(a + b) /\ ~(a + k <= a) /\ (a + k) - a = k
    OBVIOUS
  <2>2. QED BY <1>3, <2>1
<1>7. QED BY <1>3, <1>4, <1>5, <1>6 DEF Joined

\* _extract_text_elements: a block, with its runs, at each position of order;
\* images after.
Numbered(u) == {u.runs[i].block : i \in DOMAIN u.runs}
Blocked(E, u, order) ==
    /\ Lists(order, Numbered(u))
    /\ \A k \in DOMAIN order : /\ k \in DOMAIN E /\ E[k].box = BlockBox(u, order[k])
                               /\ ToSet(E[k].text) = InBlock(u, order[k])
    /\ \A k \in DOMAIN E : k \notin DOMAIN order => E[k].text = <<>>

LEMMA TextIs ==
    ASSUME NEW u, Given(u)
    PROVE  \E T, order : TextElements(u) \in Seq(T) /\ Blocked(TextElements(u), u, order)
<1> DEFINE S == Numbered(u)
           D == DOMAIN u.runs
           order == ByNumber(S)
           first(k) == Element(<<"e", k>>, "text", BlockBox(u, order[k]), ByNumber(InBlock(u, order[k])), 0)
           second(k) == Element(<<"i", k>>, "image", u.images[k], <<>>, 0)
           s == [k \in DOMAIN order |-> first(k)]
           r == [k \in DOMAIN u.images |-> second(k)]
           E == TextElements(u)
<1>1. /\ u.runs \in Seq(Runs) /\ D = 1..Len(u.runs) /\ Len(u.runs) \in Nat
      /\ DOMAIN u.images = 1..Len(u.images) /\ Len(u.images) \in Nat
  BY DEF Given
<1>2. IsFiniteSet(D) /\ D \in SUBSET Int
  BY <1>1, FS_Interval
<1>3. IsFiniteSet(S) /\ S \in SUBSET Int
  <2> DEFINE f == [i \in D |-> u.runs[i].block]
  <2>1. S = {f[i] : i \in D}
    BY DEF Numbered
  <2>2. \A i \in D : u.runs[i].block \in Int
    <3> SUFFICES ASSUME NEW i \in D PROVE u.runs[i].block \in Int
      OBVIOUS
    <3>1. u.runs[i] \in Runs
      BY <1>1
    <3>2. QED BY <3>1 DEF Runs
  <2>3. S \in SUBSET Int
    BY <2>2 DEF Numbered
  <2> HIDE DEF f, S, D
  <2>4. QED BY <1>2, <2>1, <2>3, ImageIsFinite
<1>4. Lists(order, S)
  <2> HIDE DEF S, order
  <2>1. Chain(S, Up(S))
    BY <1>3, NumbersChain
  <2>2. Enumerates(order, S, Up(S))
    BY <1>3, ByNumberIs DEF order
  <2>3. QED BY <2>1, <2>2, EnumeratesLists
<1>5. E = s \o r
  BY DEF TextElements, Ordered, ByNumber, NumberAt, Numbered
<1>6. \A b : ToSet(ByNumber(InBlock(u, b))) = InBlock(u, b)
  <2> SUFFICES ASSUME NEW b PROVE ToSet(ByNumber(InBlock(u, b))) = InBlock(u, b)
    OBVIOUS
  <2> DEFINE B == InBlock(u, b)
  <2>1. B \in SUBSET D
    BY DEF InBlock
  <2> HIDE DEF B, D
  <2>2. IsFiniteSet(B) /\ B \in SUBSET Int
    BY <1>2, <2>1, FS_Subset
  <2>3. Enumerates(ByNumber(B), B, Up(B))
    BY <2>2, ByNumberIs
  <2>4. ToSet(ByNumber(B)) = B
    BY <2>3 DEF Enumerates, ToSet
  <2>5. QED BY <2>4 DEF B
<1> HIDE DEF order, S
<1>7. /\ \A k \in DOMAIN order : /\ s[k].box = BlockBox(u, order[k])
                                 /\ ToSet(s[k].text) = InBlock(u, order[k])
      /\ \A k \in DOMAIN u.images : r[k].text = <<>>
  BY <1>6 DEF Element
<1>8. /\ DOMAIN order = 1..Len(order) /\ Len(order) \in Nat
  BY <1>4 DEF Lists
<1>9. s = [k \in 1..Len(order) |-> s[k]] /\ r = [k \in 1..Len(u.images) |-> r[k]]
  BY <1>1, <1>8
<1> HIDE DEF s, r
<1>10. PICK T : /\ (s \o r) \in Seq(T) /\ DOMAIN (s \o r) = 1..(Len(order) + Len(u.images))
                /\ \A k \in 1..Len(order) : (s \o r)[k] = s[k]
                /\ \A k \in 1..Len(u.images) : (s \o r)[Len(order) + k] = r[k]
  <2>1. Listed(s, Len(order)) /\ Listed(r, Len(u.images))
    BY <1>9 DEF Listed
  <2>2. Joined(s \o r, s, r, Len(order), Len(u.images)) /\ \E T : (s \o r) \in Seq(T)
    BY <1>1, <1>8, <2>1, JoinedIs
  <2>3. QED BY <2>2 DEF Joined
<1> HIDE DEF E
<1>11. \A k \in DOMAIN order : /\ k \in DOMAIN E /\ E[k].box = BlockBox(u, order[k])
                               /\ ToSet(E[k].text) = InBlock(u, order[k])
  <2> SUFFICES ASSUME NEW k \in DOMAIN order
               PROVE  k \in DOMAIN E /\ E[k] = s[k]
    BY <1>7
  <2>1. k \in 1..Len(order)
    BY <1>8
  <2>2. k \in 1..(Len(order) + Len(u.images))
    BY <1>1, <1>8, <2>1
  <2>3. QED BY <1>5, <1>10, <2>1, <2>2
<1>12. ASSUME NEW k \in DOMAIN E, k \notin DOMAIN order PROVE E[k].text = <<>>
  <2>1. k \in 1..(Len(order) + Len(u.images)) /\ k \notin 1..Len(order)
    BY <1>5, <1>8, <1>10, <1>12
  <2>2. (k - Len(order)) \in 1..Len(u.images) /\ k = Len(order) + (k - Len(order))
    BY <1>1, <1>8, <2>1
  <2>3. E[k] = r[k - Len(order)]
    BY <1>5, <1>10, <2>2
  <2>4. QED BY <1>1, <1>7, <2>2, <2>3
<1>13. Blocked(E, u, order)
  BY <1>4, <1>11, <1>12 DEF Blocked, S
<1>14. E \in Seq(T)
  BY <1>5, <1>10
<1>15. TextElements(u) \in Seq(T) /\ Blocked(TextElements(u), u, order)
  BY <1>13, <1>14 DEF E
<1>16. QED BY <1>15

\* _drop_elements_inside_tables: E keeps those of F that no table covers, each
\* where at says; the tables after them have no text.
Inside(e, tables) == e.box # NoBox /\ \E t \in ToSet(tables) : MostlyInside(e.box, t.box)
Keeping(E, F, tables, at) ==
    /\ \A m \in DOMAIN E :
          IF m \in DOMAIN at THEN at[m] \in DOMAIN F /\ E[m] = F[at[m]] /\ ~ Inside(F[at[m]], tables)
          ELSE E[m].text = <<>>
    /\ \A m, l \in DOMAIN at : at[m] = at[l] => m = l
    /\ \A k \in DOMAIN F : Inside(F[k], tables) \/ \E m \in DOMAIN at : m \in DOMAIN E /\ at[m] = k

LEMMA KeptAre ==
    ASSUME NEW u, Given(u), NEW tables, NEW b \in Nat, DOMAIN tables = 1..b
    PROVE  \E at : Keeping(NativeElements(u, tables), TextElements(u), tables, at)
<1> DEFINE F == TextElements(u)
           S == {k \in DOMAIN F : ~ Inside(F[k], tables)}
           s == Picked(F, S)
           r == [k \in DOMAIN tables |-> Element(<<"t", k>>, "table", tables[k].box, <<>>, k)]
           E == NativeElements(u, tables)
<1>1. PICK U : F \in Seq(U)
  BY TextIs
<1>2. E = s \o r
  BY DEF NativeElements, Kept, Inside
<1>3. \A k \in 1..b : r[k].text = <<>>
  BY DEF Element
<1>4. r = [k \in 1..b |-> r[k]]
  OBVIOUS
<1>5. S \in SUBSET DOMAIN F
  OBVIOUS
<1> HIDE DEF F, E, r
<1>6. PICK at : /\ Enumerates(at, S, Up(S))
                /\ s \in Seq(U) /\ DOMAIN s = DOMAIN at
                /\ Len(s) = Cardinality(S)
                /\ \A k \in DOMAIN at : at[k] \in S /\ s[k] = F[at[k]]
  <2> HIDE DEF S
  <2> QED BY <1>1, <1>5, PickedIs
<1>7. Lists(at, S)
  <2>1. S \in SUBSET Int
    BY <1>1, <1>5
  <2> HIDE DEF S, s
  <2>2. QED BY <1>6, <2>1, NumbersChain, EnumeratesLists
<1> HIDE DEF s
<1>8. Len(s) \in Nat /\ DOMAIN s = 1..Len(s) /\ s = [k \in 1..Len(s) |-> s[k]]
  BY <1>6
<1>9. PICK T : /\ (s \o r) \in Seq(T) /\ DOMAIN (s \o r) = 1..(Len(s) + b)
               /\ \A k \in 1..Len(s) : (s \o r)[k] = s[k]
               /\ \A k \in 1..b : (s \o r)[Len(s) + k] = r[k]
  <2>1. Listed(s, Len(s)) /\ Listed(r, b)
    BY <1>4, <1>8 DEF Listed
  <2>2. Joined(s \o r, s, r, Len(s), b) /\ \E T : (s \o r) \in Seq(T)
    BY <1>8, <2>1, JoinedIs
  <2>3. QED BY <2>2 DEF Joined
<1>10. \A m \in DOMAIN at : m \in DOMAIN E /\ E[m] = F[at[m]] /\ at[m] \in S
  <2> SUFFICES ASSUME NEW m \in DOMAIN at PROVE m \in DOMAIN E /\ E[m] = s[m]
    BY <1>6
  <2>1. m \in 1..Len(s)
    BY <1>6, <1>8
  <2>2. m \in 1..(Len(s) + b)
    BY <1>8, <2>1
  <2>3. QED BY <1>2, <1>9, <2>1, <2>2
<1>11. ASSUME NEW m \in DOMAIN E, m \notin DOMAIN at PROVE E[m].text = <<>>
  <2>1. m \in 1..(Len(s) + b) /\ m \notin 1..Len(s)
    BY <1>2, <1>6, <1>8, <1>9, <1>11
  <2>2. (m - Len(s)) \in 1..b /\ m = Len(s) + (m - Len(s))
    BY <1>8, <2>1
  <2>3. E[m] = r[m - Len(s)]
    BY <1>2, <1>9, <2>2
  <2>4. QED BY <1>3, <2>2, <2>3
<1>12. \A k \in DOMAIN F : Inside(F[k], tables) \/ \E m \in DOMAIN at : m \in DOMAIN E /\ at[m] = k
  <2> SUFFICES ASSUME NEW k \in DOMAIN F, ~ Inside(F[k], tables)
               PROVE  \E m \in DOMAIN at : m \in DOMAIN E /\ at[m] = k
    OBVIOUS
  <2>1. k \in S
    OBVIOUS
  <2>2. \E m \in DOMAIN at : at[m] = k
    <3> HIDE DEF S
    <3> QED BY <1>7, <2>1 DEF Lists
  <2>3. QED BY <1>10, <2>2
<1>13. \A m, l \in DOMAIN at : at[m] = at[l] => m = l
  <2> HIDE DEF S
  <2> QED BY <1>7 DEF Lists
<1>14. Keeping(E, F, tables, at)
  BY SMTT(30), <1>10, <1>11, <1>12, <1>13 DEF Keeping
<1>15. QED BY <1>14 DEF E, F

LEMMA TablesListed == ASSUME NEW u, Given(u) PROVE \E b \in Nat : DOMAIN FoundTables(u) = 1..b
<1> DEFINE S == {k \in DOMAIN u.native : Usable(u.native[k])}
           usable == Picked(u.native, S)
<1>1. u.native \in Seq(Grids) /\ S \in SUBSET DOMAIN u.native
  BY DEF Given
<1>2. DOMAIN FoundTables(u) = DOMAIN usable
  BY DEF FoundTables
<1> HIDE DEF S
<1>3. usable \in Seq(Grids)
  BY <1>1, PickedIs
<1> HIDE DEF usable
<1>4. Len(usable) \in Nat /\ DOMAIN usable = 1..Len(usable)
  BY <1>3
<1>5. QED BY <1>2, <1>4

-----------------------------------------------------------------------------
(***************************************************************************)
(* The text runs of a native page.                                         *)
(***************************************************************************)
LEMMA AtMostOne == ASSUME NEW S, \A x, y \in S : x = y PROVE Cardinality(S) <= 1
<1>1. CASE S = {}
  BY <1>1, FS_EmptySet
<1>2. CASE S # {}
  <2>1. PICK x \in S : TRUE
    BY <1>2
  <2>2. S = {x}
    BY <2>1
  <2>3. QED BY <2>2, FS_Singleton
<1>3. QED BY <1>1, <1>2

\* Two cells that hold one run are one cell.
LEMMA OneHolder ==
    ASSUME NEW g \in Grids, NEW runs \in Seq(Runs), NEW T, Converted(T, g, runs),
           NEW c \in ToSet(T.cells), NEW d \in ToSet(T.cells), NEW i, i \in ToSet(c.text), i \in ToSet(d.text)
    PROVE  c = d
<1>1. PICK p \in Places(g) : c = NativeCell(g, runs, p) /\ ToSet(c.text) = Owned(g, runs, p)
  BY DEF Converted
<1>2. PICK q \in Places(g) : d = NativeCell(g, runs, q) /\ ToSet(d.text) = Owned(g, runs, q)
  BY DEF Converted
<1>3. i \in DOMAIN runs /\ p \in CellOf(g, runs[i].box) /\ q \in CellOf(g, runs[i].box)
  BY <1>1, <1>2 DEF Owned
<1>4. runs[i].box \in Bounding
  <2>1. runs[i] \in Runs
    BY <1>3
  <2>2. QED BY <2>1 DEF Runs
<1>5. p = q
  BY <1>3, <1>4, OneCell
<1>6. QED BY <1>1, <1>2, <1>5

\* A cell over the middle of a run that no cell holds has no extent, or the
\* run has none.
LEMMA CentredIsHeld ==
    ASSUME NEW g \in Grids, NEW runs \in Seq(Runs), NEW T, Converted(T, g, runs),
           NEW i \in DOMAIN runs, NEW c \in ToSet(T.cells),
           HasExtent(runs[i].box), HasExtent(c.box), CenterIn(runs[i].box, c.box)
    PROVE  \E d \in ToSet(T.cells) : i \in ToSet(d.text)
<1> DEFINE b == runs[i].box
<1>1. b \in Bounding
  <2>1. runs[i] \in Runs
    OBVIOUS
  <2>2. QED BY <2>1 DEF Runs
<1>2. PICK p \in Places(g) : c.box = CellBox(g, p)
  BY DEF Converted
<1>3. CellBox(g, p) \in Bounding
  BY PlacesAre
<1> HIDE DEF b
<1>4. CenterIn(b, CellBox(g, p)) /\ HasExtent(b) /\ HasExtent(CellBox(g, p))
  BY <1>2 DEF b
<1>5. OnGrid(g, b) /\ Shared(b, CellBox(g, p)) > 0
  BY <1>1, <1>3, <1>4, CentreOnGrid, CentreShares
<1>6. PICK q : q \in CellOf(g, b)
  BY <1>1, <1>5, SomeCell
<1>7. q \in Places(g) /\ i \in Owned(g, runs, q)
  BY <1>6 DEF CellOf, Owned, b
<1>8. QED BY <1>7 DEF Converted

\* What the first two parts of NativeKept say of one run of a native page.
LEMMA InOneCell ==
    ASSUME NEW u, Given(u), NEW T \in ToSet(FoundTables(u)), NEW i
    PROVE  Cardinality({c \in ToSet(T.cells) : i \in ToSet(c.text)}) <= 1
<1> DEFINE S == {c \in ToSet(T.cells) : i \in ToSet(c.text)}
<1>1. PICK g \in Grids : Converted(T, g, u.runs)
  BY TablesAre
<1>2. u.runs \in Seq(Runs)
  BY DEF Given
<1>3. \A c, d \in S : c = d
  BY <1>1, <1>2, OneHolder
<1> HIDE DEF S
<1>4. Cardinality(S) <= 1
  BY <1>3, AtMostOne
<1>5. QED BY <1>4 DEF S

\* A native page before its reading order: what it shows, and its notes.
Native(p, u) ==
    /\ p.tables = FoundTables(u) /\ p.elements = NativeElements(u, FoundTables(u))
    /\ NativeNotes(u, FoundTables(u)) \subseteq p.notes

\* A run that is written stands in its block, and the block in no table.
LEMMA WrittenIs ==
    ASSUME NEW u, Given(u), NEW p, Native(p, u), NEW i \in DOMAIN u.runs, NEW k \in Written(p, i)
    PROVE  /\ \A T \in ToSet(p.tables) : ~ MostlyInside(BlockBox(u, u.runs[i].block), T.box)
           /\ \A l \in Written(p, i) : l = k
<1> DEFINE E == p.elements
           F == TextElements(u)
           tables == FoundTables(u)
           block == u.runs[i].block
<1>1. PICK at : Keeping(E, F, tables, at)
  BY TablesListed, KeptAre DEF Native
<1>2. PICK order : Blocked(F, u, order)
  BY TextIs
<1> HIDE DEF E, F, tables
<1>3. ASSUME NEW m \in Written(p, i)
      PROVE  /\ m \in DOMAIN E /\ m \in DOMAIN at /\ at[m] \in DOMAIN order /\ order[at[m]] = block
             /\ F[at[m]].box = BlockBox(u, block) /\ ~ Inside(F[at[m]], tables)
  <2>1. m \in DOMAIN E /\ i \in ToSet(E[m].text)
    BY DEF Written, E
  <2>2. E[m].text # <<>>
    BY <2>1 DEF ToSet
  <2>3. m \in DOMAIN at /\ at[m] \in DOMAIN F /\ E[m] = F[at[m]] /\ ~ Inside(F[at[m]], tables)
    BY <1>1, <2>1, <2>2 DEF Keeping
  <2>4. at[m] \in DOMAIN order
    BY <1>2, <2>2, <2>3 DEF Blocked
  <2>5. F[at[m]].box = BlockBox(u, order[at[m]]) /\ ToSet(F[at[m]].text) = InBlock(u, order[at[m]])
    BY <1>2, <2>4 DEF Blocked
  <2>6. order[at[m]] = block
    BY <2>1, <2>3, <2>5 DEF InBlock
  <2>7. QED BY <2>1, <2>3, <2>4, <2>5, <2>6
<1>4. ASSUME NEW l \in Written(p, i) PROVE l = k
  <2>1. order[at[l]] = order[at[k]] /\ at[l] \in DOMAIN order /\ at[k] \in DOMAIN order
    BY <1>3
  <2>2. at[l] = at[k]
    BY <1>2, <2>1 DEF Blocked, Lists
  <2>3. QED BY <1>1, <1>3, <2>2 DEF Keeping
<1>5. ASSUME NEW T \in ToSet(p.tables), MostlyInside(BlockBox(u, block), T.box) PROVE FALSE
  <2>1. T \in ToSet(tables)
    BY DEF Native, tables
  <2>2. BlockBox(u, block) = NoBox
    BY <1>3, <1>5, <2>1 DEF Inside
  <2>3. PICK g \in Grids : Converted(T, g, u.runs)
    BY <2>1, TablesAre DEF tables
  <2>4. T.box \in Bounding
    BY <2>3 DEF Converted, Grids
  <2>5. QED BY <1>5, <2>2, <2>4, NowhereInside
<1>6. QED BY <1>4, <1>5

\* A run that is not written is in a block that stands in a table.
LEMMA DroppedIs ==
    ASSUME NEW u, Given(u), NEW p, Native(p, u), NEW i \in DOMAIN u.runs, Written(p, i) = {}
    PROVE  \E T \in ToSet(p.tables) : MostlyInside(BlockBox(u, u.runs[i].block), T.box)
<1> DEFINE E == p.elements
           F == TextElements(u)
           tables == FoundTables(u)
           block == u.runs[i].block
<1>1. PICK at : Keeping(E, F, tables, at)
  BY TablesListed, KeptAre DEF Native
<1>2. PICK order : Blocked(F, u, order)
  BY TextIs
<1> HIDE DEF E, F, tables
<1>3. block \in Numbered(u) /\ i \in InBlock(u, block)
  BY DEF Numbered, InBlock
<1>4. PICK k \in DOMAIN order : order[k] = block
  BY <1>2, <1>3 DEF Blocked, Lists
<1>5. k \in DOMAIN F /\ F[k].box = BlockBox(u, block) /\ ToSet(F[k].text) = InBlock(u, block)
  BY <1>2, <1>4 DEF Blocked
<1>6. Inside(F[k], tables)
  <2> SUFFICES ASSUME ~ Inside(F[k], tables) PROVE FALSE
    OBVIOUS
  <2>1. PICK m \in DOMAIN at : m \in DOMAIN E /\ at[m] = k
    BY <1>1, <1>5 DEF Keeping
  <2>2. E[m] = F[k]
    BY <1>1, <2>1 DEF Keeping
  <2>3. m \in Written(p, i)
    BY <1>3, <1>5, <2>1, <2>2 DEF Written, E
  <2>4. QED BY <2>3
<1>7. ToSet(p.tables) = ToSet(tables)
  BY DEF Native, tables
<1>8. QED BY <1>5, <1>6, <1>7 DEF Inside

LEMMA RunIsKept ==
    ASSUME NEW u, Given(u), NEW p, Native(p, u), NEW i \in DOMAIN u.runs
    PROVE  NativeKept(p, u, i)
<1> DEFINE block == BlockBox(u, u.runs[i].block)
           around == {t \in ToSet(p.tables) : MostlyInside(block, t.box)}
<1>1. u.runs \in Seq(Runs) /\ p.tables = FoundTables(u)
  BY DEF Given, Native
<1>2. \A t \in ToSet(p.tables) : Cardinality({c \in ToSet(t.cells) : i \in ToSet(c.text)}) <= 1
  BY <1>1, InOneCell
<1>3. ASSUME Written(p, i) = {}, Holders(p, i) = {}
      PROVE  \E t \in around : \A c \in ToSet(t.cells) :
                HasExtent(u.runs[i].box) /\ HasExtent(c.box) => ~ CenterIn(u.runs[i].box, c.box)
  <2>1. PICK T \in ToSet(p.tables) : MostlyInside(block, T.box)
    BY <1>3, DroppedIs
  <2>2. PICK g \in Grids : Converted(T, g, u.runs)
    BY <1>1, <2>1, TablesAre
  <2>3. \A d \in ToSet(T.cells) : i \notin ToSet(d.text)
    <3> SUFFICES ASSUME NEW d \in ToSet(T.cells), i \in ToSet(d.text) PROVE FALSE
      OBVIOUS
    <3>1. <<T, d>> \in Holders(p, i)
      BY <2>1 DEF Holders
    <3>2. QED BY <1>3, <3>1
  <2>4. ASSUME NEW c \in ToSet(T.cells), HasExtent(u.runs[i].box), HasExtent(c.box),
               CenterIn(u.runs[i].box, c.box)
        PROVE  FALSE
    BY <1>1, <2>2, <2>3, <2>4, CentredIsHeld
  <2>5. T \in around
    BY <2>1
  <2>6. QED BY <2>4, <2>5
<1>4. ASSUME Written(p, i) # {} PROVE around = {} /\ Cardinality(Written(p, i)) = 1
  <2>1. PICK k \in Written(p, i) : TRUE
    BY <1>4
  <2>2. /\ \A T \in ToSet(p.tables) : ~ MostlyInside(block, T.box)
        /\ \A l \in Written(p, i) : l = k
    BY WrittenIs
  <2>3. Written(p, i) = {k}
    BY <2>1, <2>2
  <2>4. Cardinality({k}) = 1
    BY FS_Singleton
  <2>5. QED BY <2>2, <2>3, <2>4
<1> HIDE DEF around
<1>5. QED BY <1>2, <1>3, <1>4 DEF NativeKept, around

\* assess_table: a cell of two origins makes the table one of high doubt, and
\* its page one with a note.
LEMMA TwoOriginsShow ==
    ASSUME NEW u, Given(u), NEW p, Native(p, u), NEW T \in ToSet(p.tables), NEW c \in ToSet(T.cells),
           TwoOrigins(c, u)
    PROVE  T.doubt = "high" /\ "suspicious table" \in p.notes
<1>1. u.runs \in Seq(Runs) /\ T \in ToSet(FoundTables(u))
  BY DEF Given, Native
<1>2. PICK g \in Grids : Converted(T, g, u.runs)
  BY <1>1, TablesAre
<1>3. PICK q \in Places(g) : ToSet(c.text) = Owned(g, u.runs, q)
  BY <1>2 DEF Converted
<1>4. Mixed(g, u.runs)
  BY <1>3 DEF TwoOrigins, Mixed
<1>5. T.doubt = "high"
  BY <1>2, <1>4 DEF Converted, Doubt
<1>6. "suspicious table" \in NativeNotes(u, FoundTables(u))
  BY <1>1, <1>5 DEF NativeNotes
<1>7. QED BY <1>5, <1>6 DEF Native

\* A page of the native route is the native page of its unit.
LEMMA NativeComesFrom ==
    ASSUME BudgetInv, MarkInv, PageInv, NEW k \in DOMAIN pages, pages[k].route = "digital_pdf"
    PROVE  Given(doc.units[k]) /\ Native(pages[k], doc.units[k])
<1> DEFINE u == doc.units[k]
           p == pages[k]
<1>1. doc \in Docs /\ DOMAIN doc.units = 1..Len(doc.units) /\ Len(doc.units) \in Nat
  BY Documents DEF BudgetInv, Bounds
<1>2. k \in DOMAIN doc.units
  <2>1. PICK S : pages \in Seq(S)
    BY DEF MarkInv, Built
  <2>2. k \in 1..Len(pages) /\ Len(pages) \in Nat
    BY <2>1
  <2>3. Len(pages) <= Len(doc.units)
    BY DEF PageInv, Counting
  <2>4. QED BY <1>1, <2>2, <2>3
<1>3. Given(u)
  BY <1>1, <1>2, UnitsAssumption DEF Given, Runs, Grids
<1>4. From(p, u, Renewed)
  BY DEF PageInv, Drawn
<1> HIDE DEF u, p
<1>5. PICK q \in Made(u) : Keeps(p, q, Renewed)
  BY <1>4 DEF From
<1>6. p.route = "digital_pdf" /\ p.route \notin Renewed
  BY DEF p, Renewed, Visually
<1>7. q.route = "digital_pdf"
  BY <1>5, <1>6 DEF Keeps
<1>8. q = NativePage(u)
  <2>1. \A how \in Visually : how # "digital_pdf"
    BY DEF Visually
  <2>2. QED BY <1>5, <1>7, <2>1, PagesHaveFields DEF Made
<1>9. p.elements = q.elements /\ p.tables = q.tables /\ q.notes \subseteq p.notes
  BY <1>5, <1>6 DEF Keeps
<1>10. /\ q.tables = FoundTables(u) /\ q.elements = NativeElements(u, FoundTables(u))
       /\ q.notes = NativeNotes(u, FoundTables(u))
  BY <1>8 DEF NativePage, Page
<1>11. Native(p, u)
  BY <1>9, <1>10 DEF Native
<1>12. QED BY <1>3, <1>11 DEF u, p

(* A text run of a digital page goes, whole, to one cell of a table at     *)
(* most; it is lost only where a table covers its block and no cell of any *)
(* extent its middle; it is written beside its cell only where no table    *)
(* covers its block; and a cell of two origins is labelled, on its table   *)
(* and on its page, however many pages there are, whatever is on them, and *)
(* whatever the steps after the native page do to others.                  *)
(* (assign_runs_to_cells, _drop_elements_inside_tables, assess_table.)     *)
THEOREM NativeTextIsKept == Spec => []NativeTextKept
<1>1. ASSUME BudgetInv, MarkInv, PageInv PROVE NativeTextKept
  <2> SUFFICES ASSUME NEW k \in DOMAIN pages, pages[k].route = "digital_pdf"
               PROVE  /\ \A i \in DOMAIN doc.units[k].runs : NativeKept(pages[k], doc.units[k], i)
                      /\ \A t \in ToSet(pages[k].tables) :
                           (\E c \in ToSet(t.cells) : TwoOrigins(c, doc.units[k])) =>
                               t.doubt = "high" /\ "suspicious table" \in pages[k].notes
    BY DEF NativeTextKept
  <2>1. Given(doc.units[k]) /\ Native(pages[k], doc.units[k])
    BY <1>1, NativeComesFrom
  <2>2. QED BY <2>1, RunIsKept, TwoOriginsShow
<1>2. QED BY <1>1, PagesHold, PTL

-----------------------------------------------------------------------------
(***************************************************************************)
(* Folds: FoldLeft and FoldSet recur over the subsets of a finite set, one *)
(* picked element at a time.  Their recursion has a solution, and over a   *)
(* sequence it passes through the values of its first elements.            *)
(***************************************************************************)
LEMMA NatSteps ==
    ASSUME NEW T \in SUBSET Nat, 0 \in T, \A m \in T : m + 1 \in T
    PROVE  T = Nat
<1> SUFFICES ASSUME T # Nat PROVE FALSE
  OBVIOUS
<1> DEFINE U == Nat \ T
           R == OpToRel(<, Nat)
<1>1. U \in SUBSET Nat /\ U # {}
  OBVIOUS
<1>2. IsWellFoundedOn(R, Nat) /\ \A x, y \in Nat : x < y => <<x, y>> \in R
  BY NatLessThanWellFounded DEF OpToRel
<1> HIDE DEF R
<1>3. PICK x \in U : \A y \in U : ~(<<y, x>> \in R)
  <2> HIDE DEF U
  <2>1. IsWellFoundedOn(R, Nat)
    BY <1>2
  <2>2. QED BY <1>1, <2>1, WFMin
<1>4. x \in Nat /\ \A y \in U : ~(y < x)
  BY <1>2, <1>3
<1>5. x # 0 /\ x - 1 \in Nat /\ x - 1 \notin U
  BY <1>4
<1>6. QED BY <1>5

LEMMA UpTo ==
    ASSUME NEW N \in Nat, NEW T, 0 \in T,
           \A m \in 1..N : m - 1 \in T => m \in T
    PROVE  \A m \in 0..N : m \in T
<1> DEFINE U == {m \in Nat : m <= N => m \in T}
<1>1. 0 \in U
  OBVIOUS
<1>2. ASSUME NEW m \in U PROVE m + 1 \in U
  <2> SUFFICES ASSUME m + 1 <= N PROVE m + 1 \in T
    OBVIOUS
  <2>1. m \in T /\ m + 1 \in 1..N /\ (m + 1) - 1 = m
    OBVIOUS
  <2>2. QED BY <2>1
<1>3. U = Nat
  <2> HIDE DEF U
  <2>1. U \in SUBSET Nat
    BY DEF U
  <2>2. QED BY <1>1, <1>2, <2>1, NatSteps
<1>4. QED BY <1>3

\* h folds every subset of S, taking pick[T] out of T.
Folded(S, X, x, pick, step, h) ==
    /\ h \in [SUBSET S -> X] /\ h[{}] = x
    /\ \A T \in SUBSET S : T # {} => h[T] = step[<<h[T \ {pick[T]}], pick[T]>>]

LEMMA Folding ==
    ASSUME NEW S, IsFiniteSet(S), NEW X, NEW x \in X, NEW pick, NEW step \in [X \X S -> X],
           \A T \in SUBSET S : T # {} => pick[T] \in T
    PROVE  \E h : Folded(S, X, x, pick, step, h)
<1> DEFINE Upto(h, m) == /\ h \in [SUBSET S -> X] /\ h[{}] = x
                         /\ \A T \in SUBSET S : T # {} /\ Cardinality(T) <= m =>
                               h[T] = step[<<h[T \ {pick[T]}], pick[T]>>]
           U == {m \in Nat : \E h : Upto(h, m)}
<1>1. ASSUME NEW T \in SUBSET S
      PROVE  /\ Cardinality(T) \in Nat /\ Cardinality(T) <= Cardinality(S)
             /\ T = {} <=> Cardinality(T) = 0
             /\ T # {} <=> ~(Cardinality(T) <= 0)
             /\ T # {} => /\ T \ {pick[T]} \in SUBSET S /\ pick[T] \in S
                          /\ Cardinality(T \ {pick[T]}) = Cardinality(T) - 1
  <2>1. IsFiniteSet(T) /\ Cardinality(T) <= Cardinality(S)
    BY FS_Subset
  <2> DEFINE c == Cardinality(T)
  <2>2. c \in Nat /\ (T = {} <=> c = 0)
    BY <2>1, FS_CardinalityType, FS_EmptySet
  <2>3. T # {} => Cardinality(T \ {pick[T]}) = c - 1
    BY <2>1, FS_RemoveElement
  <2>4. c \in Nat /\ (T # {} <=> ~(c <= 0))
    <3> HIDE DEF c
    <3> QED BY <2>2
  <2>5. QED BY <2>1, <2>2, <2>3, <2>4
<1>2. 0 \in U
  <2> DEFINE h == [T \in SUBSET S |-> x]
  <2>1. h \in [SUBSET S -> X] /\ h[{}] = x
    OBVIOUS
  <2>2. \A T \in SUBSET S : T # {} => ~(Cardinality(T) <= 0)
    BY <1>1
  <2> HIDE DEF h
  <2>3. Upto(h, 0)
    BY <2>1, <2>2
  <2>4. QED BY <2>3
<1>3. ASSUME NEW m \in U PROVE m + 1 \in U
  <2>1. m \in Nat
    OBVIOUS
  <2>2. PICK h : Upto(h, m)
    OBVIOUS
  <2> DEFINE new(T) == step[<<h[T \ {pick[T]}], pick[T]>>]
             g == [T \in SUBSET S |-> IF Cardinality(T) = m + 1 THEN new(T) ELSE h[T]]
  <2>3. h \in [SUBSET S -> X] /\ h[{}] = x
    BY <2>2
  <2>4. \A T \in SUBSET S : T # {} /\ Cardinality(T) <= m => h[T] = new(T)
    BY <2>2
  <2> HIDE DEF Upto
  <2>5. ASSUME NEW T \in SUBSET S, T # {} PROVE new(T) \in X
    <3>1. <<h[T \ {pick[T]}], pick[T]>> \in X \X S
      BY <1>1, <2>3, <2>5
    <3>2. QED BY <3>1
  <2>6. \A T \in SUBSET S : /\ g[T] = IF Cardinality(T) = m + 1 THEN new(T) ELSE h[T]
                            /\ g[T] \in X
    BY <1>1, <2>1, <2>3, <2>5
  <2>7. g \in [SUBSET S -> X] /\ g[{}] = x
    BY <1>1, <2>1, <2>3, <2>6
  <2> HIDE DEF new, g
  <2>8. ASSUME NEW T \in SUBSET S, T # {}, Cardinality(T) <= m + 1
        PROVE  g[T] = step[<<g[T \ {pick[T]}], pick[T]>>]
    <3>1. g[T \ {pick[T]}] = h[T \ {pick[T]}]
      BY <1>1, <2>1, <2>6, <2>8
    <3>2. g[T] = new(T)
      <4> DEFINE c == Cardinality(T)
      <4>1. c \in Nat /\ c <= m + 1
        BY <1>1, <2>8
      <4>2. c <= m => h[T] = new(T)
        BY <2>4, <2>8
      <4>3. g[T] = IF c = m + 1 THEN new(T) ELSE h[T]
        BY <2>6
      <4> HIDE DEF c
      <4>4. c <= m \/ c = m + 1
        BY <2>1, <4>1
      <4>5. QED BY <2>1, <4>1, <4>2, <4>3, <4>4
    <3>3. QED BY <3>1, <3>2 DEF new
  <2>9. Upto(g, m + 1)
    BY <2>7, <2>8 DEF Upto
  <2>10. QED BY <2>1, <2>9
<1>4. U = Nat
  <2> HIDE DEF U
  <2>1. U \in SUBSET Nat
    BY DEF U
  <2>2. QED BY <1>2, <1>3, <2>1, NatSteps
<1>5. Cardinality(S) \in Nat
  BY FS_CardinalityType
<1>6. PICK h : Upto(h, Cardinality(S))
  BY <1>4, <1>5
<1>7. \A T \in SUBSET S : T # {} => h[T] = step[<<h[T \ {pick[T]}], pick[T]>>]
  BY <1>1, <1>6
<1>8. QED BY <1>6, <1>7 DEF Folded

LEMMA MaxUpTo ==
    ASSUME NEW k \in Nat, k > 0
    PROVE  Max(1..k) = k /\ (1..k) \ {Max(1..k)} = 1..(k - 1)
<1>1. Max(1..k) = k
  BY DEF Max
<1>2. QED BY <1>1

LEMMA Within1N ==
    ASSUME NEW N \in Nat, NEW k \in 1..N
    PROVE  /\ k \in Nat /\ k > 0 /\ k \in 0..N /\ k - 1 \in 0..N
           /\ 1..k \in SUBSET (1..N) /\ 1..k # {}
           /\ Max(1..k) = k /\ (1..k) \ {Max(1..k)} = 1..(k - 1)
<1>1. k \in Nat /\ k > 0 /\ k \in 0..N /\ k - 1 \in 0..N
  OBVIOUS
<1>2. k \in 1..k /\ \A j \in 1..k : j \in 1..N
  OBVIOUS
<1>3. 1..k # {} /\ 1..k \in SUBSET (1..N)
  BY <1>2
<1>4. QED BY <1>1, <1>3, MaxUpTo

\* Over the positions of a sequence, the last one picked.
LastFolded(X, x, N, step, h) ==
    /\ h \in [SUBSET (1..N) -> X] /\ h[{}] = x
    /\ \A T \in SUBSET (1..N) : T # {} =>
          /\ Max(T) \in T /\ <<h[T \ {Max(T)}], Max(T)>> \in X \X (1..N)
          /\ h[T] = step[<<h[T \ {Max(T)}], Max(T)>>]

LEMMA FoldingSeq ==
    ASSUME NEW X, NEW x \in X, NEW N \in Nat, NEW step \in [X \X (1..N) -> X]
    PROVE  \E h : LastFolded(X, x, N, step, h)
<1> DEFINE pick == [T \in SUBSET (1..N) |-> Max(T)]
<1>1. IsFiniteSet(1..N)
  BY FS_Interval
<1>2. ASSUME NEW T \in SUBSET (1..N), T # {} PROVE pick[T] = Max(T) /\ Max(T) \in T
  <2>1. IsFiniteSet(T)
    BY <1>1, FS_Subset
  <2>2. T \in SUBSET Int
    OBVIOUS
  <2>3. Max(T) \in T
    BY <1>2, <2>1, <2>2, MaxIs
  <2>4. QED BY <2>3
<1> HIDE DEF pick
<1>3. \A T \in SUBSET (1..N) : T # {} => pick[T] \in T
  BY <1>2
<1>4. PICK h : Folded(1..N, X, x, pick, step, h)
  BY <1>1, <1>3, Folding
<1>5. ASSUME NEW T \in SUBSET (1..N), T # {}
      PROVE  /\ <<h[T \ {Max(T)}], Max(T)>> \in X \X (1..N)
             /\ h[T] = step[<<h[T \ {Max(T)}], Max(T)>>]
  <2> DEFINE m == Max(T)
  <2>1. pick[T] = m /\ m \in T
    BY <1>2, <1>5
  <2> HIDE DEF m
  <2>2. h \in [SUBSET (1..N) -> X] /\ h[T] = step[<<h[T \ {m}], m>>]
    BY <1>4, <1>5, <2>1 DEF Folded
  <2>3. T \ {m} \in SUBSET (1..N) /\ m \in 1..N
    BY <2>1
  <2>4. h[T \ {m}] \in X
    BY <2>2, <2>3
  <2>5. QED BY <2>2, <2>3, <2>4 DEF m
<1>6. LastFolded(X, x, N, step, h)
  BY <1>2, <1>4, <1>5 DEF Folded, LastFolded
<1>7. QED BY <1>6

\* The values a fold passes through.
Iteration(X, x, N, step, f) ==
    /\ f \in [0..N -> X] /\ f[0] = x
    /\ \A k \in 1..N : f[k - 1] \in X /\ f[k] = step[<<f[k - 1], k>>]

Prefixed(iter, N) == [k \in 0..N |-> iter[1..k]]
Recurs(X, x, N, step, iter) ==
    /\ iter[{}] = x
    /\ \A T \in SUBSET (1..N) : T # {} /\ iter[T \ {Max(T)}] \in X =>
          iter[T] = step[<<iter[T \ {Max(T)}], Max(T)>>]

LEMMA FoldRuns ==
    ASSUME NEW X, NEW x \in X, NEW N \in Nat, NEW step \in [X \X (1..N) -> X], NEW iter,
           Recurs(X, x, N, step, iter)
    PROVE  Iteration(X, x, N, step, Prefixed(iter, N))
<1> DEFINE f == [k \in 0..N |-> iter[1..k]]
           T == {k \in 0..N : f[k] \in X}
<1>1. f[0] = x
  <2>1. 1..0 = {}
    OBVIOUS
  <2>2. QED BY <2>1 DEF Recurs
<1>2. ASSUME NEW k \in 1..N, f[k - 1] \in X PROVE f[k] = step[<<f[k - 1], k>>] /\ f[k] \in X
  <2> DEFINE D == 1..k
  <2>1. k \in Nat /\ k > 0 /\ k \in 0..N /\ k - 1 \in 0..N /\ D \in SUBSET (1..N) /\ D # {}
    OBVIOUS
  <2>2. Max(D) = k /\ D \ {Max(D)} = 1..(k - 1)
    BY <2>1, MaxUpTo
  <2>3. f[k - 1] = iter[D \ {Max(D)}] /\ f[k] = iter[D]
    BY <2>1, <2>2
  <2>4. f[k] = step[<<f[k - 1], k>>]
    <3> HIDE DEF D, f
    <3> QED BY <1>2, <2>1, <2>2, <2>3 DEF Recurs
  <2>5. <<f[k - 1], k>> \in X \X (1..N)
    BY <1>2
  <2>6. QED BY <2>4, <2>5
<1>3. \A k \in 0..N : k \in T
  <2> HIDE DEF f
  <2>1. 0 \in T
    BY <1>1
  <2>2. \A k \in 1..N : k - 1 \in T => k \in T
    <3>1. \A k \in 1..N : k \in 0..N /\ k - 1 \in 0..N
      OBVIOUS
    <3>2. QED BY <1>2, <3>1
  <2> HIDE DEF T
  <2>3. QED BY <2>1, <2>2, UpTo
<1>4. f \in [0..N -> X]
  BY <1>3
<1>5. \A k \in 1..N : k - 1 \in 0..N
  OBVIOUS
<1> HIDE DEF f
<1>6. Iteration(X, x, N, step, f)
  BY <1>1, <1>2, <1>4, <1>5 DEF Iteration
<1>7. QED BY <1>6 DEF f, Prefixed

(***************************************************************************)
(* Sequences laid end to end.                                              *)
(***************************************************************************)
Flat(out, ss, start) ==
    /\ DOMAIN out = 1..Len(out) /\ Len(out) \in Nat
    /\ start \in [DOMAIN ss -> Nat]
    /\ \A k \in DOMAIN ss : \A i \in DOMAIN ss[k] :
          start[k] + i \in DOMAIN out /\ out[start[k] + i] = ss[k][i]
    /\ \A k, l \in DOMAIN ss : k < l => start[k] + Len(ss[k]) <= start[l]
    /\ \A p \in DOMAIN out : \E k \in DOMAIN ss : \E i \in DOMAIN ss[k] : p = start[k] + i

\* f adds the members of ss one after the other.
Joining(E, N, ss, f) ==
    /\ ss \in Seq(Seq(E)) /\ Len(ss) = N
    /\ f \in [0..N -> Seq(E)] /\ f[0] = <<>>
    /\ \A k \in 1..N : f[k] = f[k - 1] \o ss[k]

LEMMA ConcatIs ==
    ASSUME NEW E, NEW s \in Seq(E), NEW t \in Seq(E)
    PROVE  /\ s \o t \in Seq(E) /\ Len(s \o t) = Len(s) + Len(t)
           /\ \A i \in 1..Len(s) : (s \o t)[i] = s[i]
           /\ \A i \in 1..Len(t) : (s \o t)[Len(s) + i] = t[i]
           /\ \A p \in 1..Len(s \o t) : p \in 1..Len(s) \/ p - Len(s) \in 1..Len(t)
OBVIOUS

LEMMA ConcatHolds ==
    ASSUME NEW E, NEW s \in Seq(E), NEW t \in Seq(E)
    PROVE  /\ s \o t \in Seq(E)
           /\ ToSet(s) \subseteq ToSet(s \o t) /\ ToSet(s \o t) \subseteq ToSet(s) \cup ToSet(t)
<1> DEFINE u == s \o t
<1>1. /\ u \in Seq(E) /\ Len(u) = Len(s) + Len(t) /\ Len(s) \in Nat /\ Len(t) \in Nat
      /\ DOMAIN s = 1..Len(s) /\ DOMAIN t = 1..Len(t) /\ DOMAIN u = 1..Len(u)
      /\ \A i \in 1..Len(s) : u[i] = s[i]
      /\ \A i \in 1..Len(t) : u[Len(s) + i] = t[i]
  OBVIOUS
<1> HIDE DEF u
<1>2. \A i \in DOMAIN s : i \in DOMAIN u /\ u[i] = s[i]
  BY <1>1
<1>3. ASSUME NEW i \in DOMAIN u PROVE u[i] \in ToSet(s) \cup ToSet(t)
  <2> DEFINE m == Len(s)
             j == i - m
  <2>1. m \in Nat /\ i \in Nat /\ i <= m + Len(t) /\ 0 < i
    BY <1>1
  <2>2. CASE i <= m
    BY <1>1, <2>1, <2>2 DEF ToSet
  <2>3. CASE ~(i <= m)
    <3>1. j \in 1..Len(t) /\ i = m + j
      BY <1>1, <2>1, <2>3
    <3>2. u[i] = t[j] /\ j \in DOMAIN t
      BY <1>1, <3>1
    <3>3. QED BY <3>2 DEF ToSet
  <2>4. QED BY <2>2, <2>3
<1>4. QED BY <1>1, <1>2, <1>3 DEF ToSet, u

LEMMA LaidFlat ==
    ASSUME NEW E, NEW N \in Nat, NEW ss, NEW f, Joining(E, N, ss, f)
    PROVE  \E start : Flat(f[N], ss, start) /\ f[N] \in Seq(E)
<1>1. /\ DOMAIN ss = 1..N /\ \A k \in 1..N : ss[k] \in Seq(E) /\ Len(ss[k]) \in Nat /\ DOMAIN ss[k] = 1..Len(ss[k])
      /\ \A k \in 0..N : f[k] \in Seq(E) /\ Len(f[k]) \in Nat /\ DOMAIN f[k] = 1..Len(f[k])
      /\ Len(f[0]) = 0
  <2>1. DOMAIN ss = 1..N /\ \A k \in 1..N : ss[k] \in Seq(E)
    BY DEF Joining
  <2>2. \A k \in 0..N : f[k] \in Seq(E)
    BY DEF Joining
  <2>3. \A s \in Seq(E) : Len(s) \in Nat /\ DOMAIN s = 1..Len(s)
    OBVIOUS
  <2>4. Len(f[0]) = 0
    BY DEF Joining
  <2>5. QED BY <2>1, <2>2, <2>3, <2>4
<1> DEFINE L == [k \in 0..N |-> Len(f[k])]
           M == [k \in 1..N |-> Len(ss[k])]
<1>2. /\ \A k \in 0..N : L[k] \in Nat /\ DOMAIN f[k] = 1..L[k] /\ L[k] = Len(f[k])
      /\ \A k \in 1..N : M[k] \in Nat /\ DOMAIN ss[k] = 1..M[k] /\ M[k] = Len(ss[k])
      /\ L[0] = 0
  BY <1>1
<1>3. ASSUME NEW k \in 1..N
      PROVE  /\ L[k] = L[k - 1] + M[k] /\ k - 1 \in 0..N /\ k \in 0..N
             /\ \A i \in 1..L[k - 1] : f[k][i] = f[k - 1][i]
             /\ \A i \in 1..M[k] : f[k][L[k - 1] + i] = ss[k][i]
             /\ \A p \in 1..L[k] : p \in 1..L[k - 1] \/ p - L[k - 1] \in 1..M[k]
  <2>1. k - 1 \in 0..N /\ k \in 0..N
    OBVIOUS
  <2>2. f[k - 1] \in Seq(E) /\ ss[k] \in Seq(E) /\ f[k] = f[k - 1] \o ss[k]
    BY <1>1, <2>1 DEF Joining
  <2>3. L[k - 1] = Len(f[k - 1]) /\ L[k] = Len(f[k]) /\ M[k] = Len(ss[k])
    BY <2>1
  <2> DEFINE s == f[k - 1]
             t == ss[k]
             u == f[k]
  <2>4. s \in Seq(E) /\ t \in Seq(E) /\ u = s \o t
    BY <2>2
  <2>5. L[k - 1] = Len(s) /\ L[k] = Len(u) /\ M[k] = Len(t)
    BY <2>3
  <2> HIDE DEF L, M, s, t, u
  <2>6. /\ Len(u) = Len(s) + Len(t)
        /\ \A i \in 1..Len(s) : u[i] = s[i]
        /\ \A i \in 1..Len(t) : u[Len(s) + i] = t[i]
        /\ \A p \in 1..Len(u) : p \in 1..Len(s) \/ p - Len(s) \in 1..Len(t)
    BY <2>4, ConcatIs
  <2>7. QED BY <2>1, <2>5, <2>6 DEF s, t, u
<1> HIDE DEF L, M
<1>4. \A m \in 0..N : \A k \in 0..m : L[k] <= L[m]
  <2> DEFINE T == {m \in 0..N : \A k \in 0..m : L[k] <= L[m]}
  <2>1. 0 \in T
    BY <1>2
  <2>2. ASSUME NEW m \in 1..N, m - 1 \in T PROVE m \in T
    <3>1. \A k \in 0..(m - 1) : L[k] <= L[m - 1] /\ L[k] \in Nat
      BY <1>2, <2>2
    <3>2. L[m - 1] <= L[m] /\ L[m - 1] \in Nat /\ L[m] \in Nat /\ m \in 0..N
      <4>1. L[m] = L[m - 1] + M[m] /\ m \in 0..N /\ L[m - 1] \in Nat /\ L[m] \in Nat /\ M[m] \in Nat
        BY <1>2, <1>3
      <4>2. QED BY <4>1
    <3>3. \A k \in 0..m : k = m \/ k \in 0..(m - 1)
      OBVIOUS
    <3>4. \A k \in 0..m : L[k] <= L[m]
      BY <3>1, <3>2, <3>3
    <3>5. QED BY <3>2, <3>4
  <2> HIDE DEF T
  <2>3. \A m \in 0..N : m \in T
    BY <2>1, <2>2, UpTo
  <2>4. QED BY <2>3 DEF T
<1>5. \A m \in 0..N : \A k \in 1..m : \A i \in 1..M[k] :
         L[k - 1] + i \in 1..L[m] /\ f[m][L[k - 1] + i] = ss[k][i]
  <2> DEFINE Good(m) == \A k \in 1..m : \A i \in 1..M[k] :
                 L[k - 1] + i \in 1..L[m] /\ f[m][L[k - 1] + i] = ss[k][i]
             T == {m \in 0..N : Good(m)}
  <2>1. 0 \in T
    OBVIOUS
  <2>2. ASSUME NEW m \in 1..N, m - 1 \in T PROVE m \in T
    <3>1. Good(m - 1) /\ m \in 0..N /\ m - 1 \in 0..N
      BY <2>2
    <3>2. ASSUME NEW k \in 1..m, NEW i \in 1..M[k]
          PROVE  L[k - 1] + i \in 1..L[m] /\ f[m][L[k - 1] + i] = ss[k][i]
      <4>1. /\ L[m] = L[m - 1] + M[m] /\ L[m] \in Nat /\ L[m - 1] \in Nat /\ M[m] \in Nat
            /\ k \in 1..N /\ k - 1 \in 0..N /\ L[k - 1] \in Nat /\ i \in Nat
        BY <1>2, <1>3, <3>1
      <4>2. CASE k = m
        <5>1. L[m - 1] + i \in 1..L[m] /\ f[m][L[m - 1] + i] = ss[m][i]
          BY <1>3, <3>2, <4>1, <4>2
        <5>2. QED BY <4>2, <5>1
      <4>3. CASE k # m
        <5> DEFINE p == L[k - 1] + i
        <5>1. k \in 1..(m - 1)
          BY <4>3
        <5>2. p \in 1..L[m - 1] /\ f[m - 1][p] = ss[k][i]
          BY <3>1, <3>2, <5>1
        <5> HIDE DEF p
        <5>3. f[m][p] = f[m - 1][p] /\ p \in 1..L[m]
          BY <1>3, <4>1, <5>2
        <5>4. QED BY <5>2, <5>3 DEF p
      <4>4. QED BY <4>2, <4>3
    <3>3. QED BY <3>1, <3>2
  <2> HIDE DEF T
  <2>3. \A m \in 0..N : m \in T
    BY <2>1, <2>2, UpTo
  <2>4. QED BY <2>3 DEF T
<1>6. \A m \in 0..N : \A p \in 1..L[m] : \E k \in 1..m : \E i \in 1..M[k] : p = L[k - 1] + i
  <2> DEFINE Good(m) == \A p \in 1..L[m] : \E k \in 1..m : \E i \in 1..M[k] : p = L[k - 1] + i
             T == {m \in 0..N : Good(m)}
  <2>1. 0 \in T
    BY <1>2
  <2>2. ASSUME NEW m \in 1..N, m - 1 \in T PROVE m \in T
    <3>1. Good(m - 1) /\ m \in 0..N
      BY <2>2
    <3>2. ASSUME NEW p \in 1..L[m] PROVE \E k \in 1..m : \E i \in 1..M[k] : p = L[k - 1] + i
      <4>1. L[m] = L[m - 1] + M[m] /\ L[m] \in Nat /\ L[m - 1] \in Nat /\ M[m] \in Nat
        BY <1>2, <1>3, <3>1
      <4>2. CASE p <= L[m - 1]
        <5>1. p \in 1..L[m - 1]
          BY <4>1, <4>2
        <5>2. PICK k \in 1..(m - 1) : \E i \in 1..M[k] : p = L[k - 1] + i
          BY <3>1, <5>1
        <5>3. k \in 1..m
          OBVIOUS
        <5>4. QED BY <5>2, <5>3
      <4>3. CASE ~(p <= L[m - 1])
        <5>1. p - L[m - 1] \in 1..M[m] /\ p = L[m - 1] + (p - L[m - 1])
          BY <4>1, <4>3
        <5>2. m \in 1..m
          OBVIOUS
        <5>3. QED BY <5>1, <5>2
      <4>4. QED BY <4>2, <4>3
    <3>3. QED BY <3>1, <3>2
  <2> HIDE DEF T
  <2>3. \A m \in 0..N : m \in T
    BY <2>1, <2>2, UpTo
  <2>4. QED BY <2>3 DEF T
<1> DEFINE start == [k \in 1..N |-> L[k - 1]]
           out == f[N]
<1>7. N \in 0..N
  OBVIOUS
<1>8. \A k \in 1..N : start[k] = L[k - 1] /\ L[k - 1] \in Nat
  BY <1>2, <1>3
<1>9. DOMAIN out = 1..L[N] /\ L[N] = Len(out) /\ L[N] \in Nat
  BY <1>2, <1>7
<1>10. start \in [1..N -> Nat]
  BY <1>8
<1> HIDE DEF start, out
<1>11. \A k \in 1..N : \A i \in DOMAIN ss[k] : start[k] + i \in DOMAIN out /\ out[start[k] + i] = ss[k][i]
  <2> SUFFICES ASSUME NEW k \in 1..N, NEW i \in DOMAIN ss[k]
               PROVE  start[k] + i \in DOMAIN out /\ out[start[k] + i] = ss[k][i]
    OBVIOUS
  <2>1. i \in 1..M[k]
    BY <1>2
  <2>2. L[k - 1] + i \in 1..L[N] /\ f[N][L[k - 1] + i] = ss[k][i]
    BY <1>5, <1>7, <2>1
  <2>3. QED BY <1>8, <1>9, <2>2 DEF out
<1>12. ASSUME NEW k \in 1..N, NEW l \in 1..N, k < l PROVE start[k] + Len(ss[k]) <= start[l]
  <2>1. L[k] = L[k - 1] + M[k] /\ M[k] = Len(ss[k])
    BY <1>2, <1>3
  <2>2. k \in 0..(l - 1) /\ l - 1 \in 0..N
    BY <1>12
  <2>3. L[k] <= L[l - 1]
    BY <1>4, <2>2
  <2>4. QED BY <1>8, <2>1, <2>3
<1>13. \A p \in DOMAIN out : \E k \in 1..N : \E i \in DOMAIN ss[k] : p = start[k] + i
  <2> SUFFICES ASSUME NEW p \in DOMAIN out
               PROVE  \E k \in 1..N : \E i \in DOMAIN ss[k] : p = start[k] + i
    OBVIOUS
  <2>1. PICK k \in 1..N : \E i \in 1..M[k] : p = L[k - 1] + i
    BY <1>6, <1>7, <1>9
  <2>2. DOMAIN ss[k] = 1..M[k] /\ start[k] = L[k - 1]
    BY <1>2, <1>8
  <2>3. QED BY <2>1, <2>2
<1>14. Flat(out, ss, start)
  BY <1>1, <1>9, <1>10, <1>11, <1>12, <1>13 DEF Flat
<1>15. out \in Seq(E)
  BY <1>1, <1>7 DEF out
<1>16. QED BY <1>14, <1>15 DEF out

LEMMA FlattenIs ==
    ASSUME NEW E, NEW ss \in Seq(Seq(E))
    PROVE  \E start : Flat(FlattenSeq(ss), ss, start) /\ FlattenSeq(ss) \in Seq(E)
<1> DEFINE N == Len(ss)
<1>1. N \in Nat /\ DOMAIN ss = 1..N /\ \A k \in 1..N : ss[k] \in Seq(E)
  OBVIOUS
<1>b. ss = <<>> <=> N = 0
  OBVIOUS
<1>c. Len(ss) = N
  OBVIOUS
<1>n. N \in Nat /\ <<>> \in Seq(E)
  OBVIOUS
<1> HIDE DEF N
<1>2. CASE N = 0
  <2>1. ss = <<>> /\ FlattenSeq(ss) = ss
    BY <1>2, <1>b, <1>c DEF FlattenSeq
  <2> DEFINE start == [k \in {} |-> 0]
             out == FlattenSeq(ss)
  <2>2. DOMAIN out = 1..Len(out) /\ Len(out) = 0 /\ out \in Seq(E)
    <3>1. out = <<>>
      BY <2>1
    <3> HIDE DEF out
    <3>2. QED BY <3>1
  <2>3. start \in [DOMAIN ss -> Nat]
    BY <2>1
  <2> HIDE DEF start, out
  <2>4. Flat(out, ss, start)
    BY <2>1, <2>2, <2>3 DEF Flat
  <2>5. QED BY <2>2, <2>4 DEF out
<1>3. CASE N # 0
  <2> DEFINE X == Seq(E)
             step == [w \in X \X (1..N) |-> IF w[2] = 1 THEN ss[1] ELSE w[1] \o ss[w[2]]]
             flatten[i \in 1..N] == IF i = 1 THEN ss[i] ELSE flatten[i - 1] \o ss[i]
  <2>1. FlattenSeq(ss) = flatten[N]
    BY <1>3, <1>c DEF FlattenSeq
  <2>2. <<>> \in X /\ \A w \in X \X (1..N) : step[w] \in X /\ step[w] = IF w[2] = 1 THEN ss[1] ELSE w[1] \o ss[w[2]]
    <3> SUFFICES ASSUME NEW w \in X \X (1..N)
                 PROVE  step[w] \in X /\ step[w] = IF w[2] = 1 THEN ss[1] ELSE w[1] \o ss[w[2]]
      OBVIOUS
    <3>1. w[1] \in X /\ w[2] \in 1..N /\ ss[w[2]] \in X /\ ss[1] \in X
      BY <1>1, <1>3
    <3>2. w[1] \o ss[w[2]] \in X
      BY <3>1
    <3>3. QED BY <3>1, <3>2
  <2>3. step \in [X \X (1..N) -> X]
    BY <2>2
  <2>x. <<>> \in X
    BY <2>2
  <2> DEFINE e == <<>>
  <2>y. e \in X
    BY <2>x
  <2> HIDE DEF X, step, e
  <2>4. PICK h : LastFolded(X, e, N, step, h)
    BY <1>n, <2>y, <2>3, FoldingSeq
  <2> DEFINE g == [i \in 1..N |-> h[1..i]]
  <2>5. ASSUME NEW i \in 1..N
        PROVE  h[1..i] = IF i = 1 THEN ss[i] ELSE h[1..(i - 1)] \o ss[i]
    <3> DEFINE D == 1..i
    <3>1. i \in Nat /\ i > 0 /\ D \in SUBSET (1..N) /\ D # {}
      <4>1. i \in 1..i /\ i \in Nat /\ i > 0
        BY <1>n
      <4>2. \A j \in 1..i : j \in 1..N
        BY <1>n
      <4>3. D \in SUBSET (1..N)
        BY <4>2
      <4>4. D # {}
        BY <4>1
      <4>5. QED BY <4>1, <4>3, <4>4
    <3>2. Max(D) = i /\ D \ {Max(D)} = 1..(i - 1)
      BY <3>1, MaxUpTo
    <3> HIDE DEF D
    <3>3. h[D] = step[<<h[1..(i - 1)], i>>] /\ <<h[1..(i - 1)], i>> \in X \X (1..N)
      BY <2>4, <3>1, <3>2 DEF LastFolded
    <3>4. QED BY <2>2, <3>3 DEF D
  <2>6. \A i \in 1..N : i # 1 => i - 1 \in 1..N
    BY <1>n
  <2>7. g = [i \in 1..N |-> IF i = 1 THEN ss[i] ELSE g[i - 1] \o ss[i]]
    BY SMTT(30), <2>5, <2>6
  <2>8. flatten = [i \in 1..N |-> IF i = 1 THEN ss[i] ELSE flatten[i - 1] \o ss[i]]
    <3> HIDE DEF g
    <3> QED BY <2>7
  <2> DEFINE f == [k \in 0..N |-> IF k = 0 THEN <<>> ELSE flatten[k]]
             T == {k \in 0..N : f[k] \in Seq(E)}
  <2> HIDE DEF flatten
  <2>9. f[0] = <<>> /\ f[N] = flatten[N] /\ <<>> \in Seq(E) /\ 0 \in 0..N
    BY <1>n, <1>3
  <2>10. ASSUME NEW k \in 1..N, f[k - 1] \in Seq(E)
         PROVE  f[k] = f[k - 1] \o ss[k] /\ f[k] \in Seq(E)
    <3>1. ss[k] \in Seq(E) /\ k \in 0..N /\ k - 1 \in 0..N
      BY <1>1
    <3>2. CASE k = 1
      <4>1. f[k] = ss[k] /\ f[k - 1] = <<>>
        BY <2>8, <3>1, <3>2
      <4>2. <<>> \o ss[k] = ss[k]
        BY <3>1
      <4>3. QED BY <3>1, <4>1, <4>2
    <3>3. CASE k # 1
      <4>1. f[k] = flatten[k] /\ f[k - 1] = flatten[k - 1] /\ flatten[k] = flatten[k - 1] \o ss[k]
        <5>1. k \in 1..N /\ k # 0 /\ k - 1 # 0
          BY <1>1, <3>3
        <5>2. QED BY <2>8, <3>1, <3>3, <5>1
      <4>2. f[k - 1] \o ss[k] \in Seq(E)
        BY <2>10, <3>1
      <4>3. QED BY <4>1, <4>2
    <3>4. QED BY <3>2, <3>3
  <2>11. \A k \in 0..N : k \in T
    <3>1. 0 \in T
      <4> HIDE DEF f
      <4> QED BY <2>9
    <3>2. \A k \in 1..N : k - 1 \in T => k \in T
      <4>1. \A k \in 1..N : k \in 0..N
        OBVIOUS
      <4> HIDE DEF f
      <4>2. QED BY <2>10, <4>1
    <3> HIDE DEF T
    <3>3. QED BY <1>1, <3>1, <3>2, UpTo
  <2>12. f = [k \in 0..N |-> f[k]]
    OBVIOUS
  <2> HIDE DEF f
  <2>13. f \in [0..N -> Seq(E)]
    BY <2>11, <2>12
  <2>14. \A k \in 1..N : f[k - 1] \in Seq(E)
    <3>1. \A k \in 1..N : k - 1 \in 0..N
      BY <1>n
    <3>2. QED BY <2>13, <3>1
  <2>15. Joining(E, N, ss, f)
    BY <1>c, <2>9, <2>10, <2>13, <2>14 DEF Joining
  <2>16. QED BY <1>1, <2>1, <2>9, <2>15, LaidFlat
<1>4. QED BY <1>2, <1>3

\* What is laid end to end is what its parts hold.
LEMMA FlatHolds ==
    ASSUME NEW out, NEW ss, NEW start, Flat(out, ss, start)
    PROVE  \A v : v \in ToSet(out) <=> \E k \in DOMAIN ss : v \in ToSet(ss[k])
<1>1. ASSUME NEW v \in ToSet(out) PROVE \E k \in DOMAIN ss : v \in ToSet(ss[k])
  BY DEF ToSet, Flat
<1>2. ASSUME NEW k \in DOMAIN ss, NEW v \in ToSet(ss[k]) PROVE v \in ToSet(out)
  BY DEF ToSet, Flat
<1>3. QED BY <1>1, <1>2

(***************************************************************************)
(* Cluster: what a chain of members of S that share a row joins to i.      *)
(***************************************************************************)
Rowed(tok, S, C) ==
    /\ C \in SUBSET S
    /\ \A j \in S, m \in C : SameRow(tok[j].box, tok[m].box) => j \in C
Grown(tok, S, acc) == acc \cup {j \in S : \E m \in acc : SameRow(tok[j].box, tok[m].box)}

Growing(tok, S, i, N, f) ==
    /\ f \in [0..N -> SUBSET S] /\ f[0] = {i}
    /\ \A k \in 1..N : f[k] = Grown(tok, S, f[k - 1])

LEMMA ClusterRuns ==
    ASSUME NEW tok, NEW S, IsFiniteSet(S), NEW i \in S
    PROVE  \E f : Growing(tok, S, i, Cardinality(S), f) /\ Cluster(tok, S, i) = f[Cardinality(S)]
<1> DEFINE N == Cardinality(S)
           s == [k \in 1..N |-> k]
           X == SUBSET S
           x == {i}
           iter[T \in SUBSET DOMAIN s] ==
               IF T = {} THEN x ELSE LET m == Max(T) IN Grown(tok, S, iter[T \ {m}])
           step == [w \in X \X (1..N) |-> Grown(tok, S, w[1])]
<1>1. Cluster(tok, S, i) = iter[DOMAIN s]
  BY DEF Cluster, FoldLeft, MapThenFoldSet, Grown
<1>2. N \in Nat /\ x \in X /\ DOMAIN s = 1..N
  BY FS_CardinalityType
<1>3. \A a \in X : Grown(tok, S, a) \in X
  BY DEF Grown
<1>4. step \in [X \X (1..N) -> X] /\ \A w \in X \X (1..N) : step[w] = Grown(tok, S, w[1])
  BY <1>3
<1> HIDE DEF X, x, N, s, step
<1>5. PICK h : LastFolded(X, x, N, step, h)
  BY <1>2, <1>4, FoldingSeq
<1>6. h = [T \in SUBSET DOMAIN s |->
             IF T = {} THEN x ELSE LET m == Max(T) IN Grown(tok, S, h[T \ {m}])]
  <2>1. \A T \in SUBSET (1..N) : h[T] = IF T = {} THEN x ELSE Grown(tok, S, h[T \ {Max(T)}])
    BY <1>4, <1>5 DEF LastFolded
  <2>2. h = [T \in SUBSET (1..N) |-> h[T]]
    BY <1>5 DEF LastFolded
  <2>3. QED BY <1>2, <2>1, <2>2
<1>7. iter = [T \in SUBSET DOMAIN s |->
                IF T = {} THEN x ELSE LET m == Max(T) IN Grown(tok, S, iter[T \ {m}])]
  BY <1>6
<1> HIDE DEF iter
<1>8. iter[{}] = x
  BY <1>7
<1>9. ASSUME NEW T \in SUBSET (1..N), T # {}, iter[T \ {Max(T)}] \in X
      PROVE  iter[T] = step[<<iter[T \ {Max(T)}], Max(T)>>]
  <2>1. Max(T) \in 1..N
    BY <1>5, <1>9 DEF LastFolded
  <2>2. iter[T] = Grown(tok, S, iter[T \ {Max(T)}])
    BY <1>2, <1>7, <1>9
  <2>3. QED BY <1>4, <1>9, <2>1, <2>2
<1> DEFINE f == Prefixed(iter, N)
<1>10. Iteration(X, x, N, step, f)
  <2>1. Recurs(X, x, N, step, iter)
    BY <1>8, <1>9 DEF Recurs
  <2>2. QED BY <1>2, <1>4, <2>1, FoldRuns
<1>11. f[N] = iter[DOMAIN s]
  BY <1>2 DEF Prefixed
<1> HIDE DEF f
<1>12. \A k \in 1..N : f[k] = Grown(tok, S, f[k - 1])
  BY <1>4, <1>10 DEF Iteration
<1>13. Growing(tok, S, i, N, f)
  BY <1>10, <1>12 DEF Iteration, X, x, Growing
<1>14. QED BY <1>1, <1>11, <1>13 DEF N

LEMMA ClusterIs ==
    ASSUME NEW tok, NEW S, IsFiniteSet(S), NEW i \in S
    PROVE  /\ i \in Cluster(tok, S, i) /\ Rowed(tok, S, Cluster(tok, S, i))
           /\ \A C : Rowed(tok, S, C) /\ i \in C => Cluster(tok, S, i) \subseteq C
<1> DEFINE N == Cardinality(S)
<1>0. PICK f : Growing(tok, S, i, N, f) /\ Cluster(tok, S, i) = f[N]
  BY ClusterRuns
<1>1. /\ f \in [0..N -> SUBSET S] /\ f[0] = {i}
      /\ \A k \in 1..N : f[k] = Grown(tok, S, f[k - 1])
      /\ Cluster(tok, S, i) = f[N]
  BY <1>0 DEF Growing
<1>2. N \in Nat /\ \A k \in 1..N : k \in 0..N /\ k - 1 \in 0..N
  BY FS_CardinalityType
<1>3. \A k \in 0..N : f[k] \in SUBSET S
  BY <1>1
<1> HIDE DEF N
<1>4. ASSUME NEW C, Rowed(tok, S, C), i \in C PROVE f[N] \subseteq C
  <2> DEFINE T == {k \in 0..N : f[k] \subseteq C}
  <2>1. 0 \in T
    BY <1>1, <1>2, <1>4
  <2>2. \A k \in 1..N : k - 1 \in T => k \in T
    <3> SUFFICES ASSUME NEW k \in 1..N, f[k - 1] \subseteq C PROVE f[k] \subseteq C
      BY <1>2
    <3>1. QED BY <1>1, <1>4 DEF Rowed, Grown
  <2> HIDE DEF T
  <2>3. \A k \in 0..N : k \in T
    BY <1>2, <2>1, <2>2, UpTo
  <2>4. QED BY <1>2, <2>3 DEF T
<1>5. i \in f[N] /\ (Rowed(tok, S, f[N]) \/ Cardinality(f[N]) > N)
  <2> DEFINE Good(k) == i \in f[k] /\ (Rowed(tok, S, f[k]) \/ Cardinality(f[k]) > k)
             T == {k \in 0..N : Good(k)}
  <2>1. 0 \in T
    <3>1. Cardinality({i}) = 1
      BY FS_Singleton
    <3>2. f[0] = {i} /\ i \in f[0] /\ Cardinality(f[0]) > 0 /\ 0 \in 0..N
      BY <1>1, <1>2, <3>1
    <3>3. QED BY <3>2
  <2>2. ASSUME NEW k \in 1..N, Good(k - 1) PROVE Good(k)
    <3> DEFINE A == f[k - 1]
               B == f[k]
    <3>1. A \in SUBSET S /\ B \in SUBSET S /\ B = Grown(tok, S, A) /\ i \in A
      BY <1>1, <1>2, <1>3, <2>2
    <3> HIDE DEF A, B
    <3>2. A \subseteq B /\ i \in B
      BY <3>1 DEF Grown
    <3>3. CASE Rowed(tok, S, A)
      <4>1. B = A
        BY <3>1, <3>3 DEF Grown, Rowed
      <4>2. QED BY <3>2, <3>3, <4>1 DEF B
    <3>4. CASE ~ Rowed(tok, S, A)
      <4>1. B # A
        BY <3>1, <3>4 DEF Grown, Rowed
      <4>2. Cardinality(A) > k - 1
        BY <2>2, <3>4 DEF A
      <4>3. IsFiniteSet(B)
        BY <3>1, FS_Subset
      <4>4. IsFiniteSet(A) /\ Cardinality(A) <= Cardinality(B) /\ Cardinality(A) # Cardinality(B)
        BY <3>2, <4>1, <4>3, FS_Subset
      <4>5. Cardinality(A) \in Nat /\ Cardinality(B) \in Nat
        BY <4>3, <4>4, FS_CardinalityType
      <4> DEFINE a == Cardinality(A)
                 b == Cardinality(B)
      <4>6. a \in Nat /\ b \in Nat /\ a > k - 1 /\ a <= b /\ a # b
        BY <4>2, <4>4, <4>5
      <4> HIDE DEF a, b
      <4>7. b > k
        BY <1>2, <4>6
      <4>8. QED BY <3>2, <4>7 DEF B, b
    <3>5. QED BY <3>3, <3>4
  <2>3. \A k \in 1..N : k - 1 \in T => k \in T
    <3> HIDE DEF Good
    <3> QED BY <1>2, <2>2
  <2> HIDE DEF T
  <2>4. \A k \in 0..N : k \in T
    BY <1>2, <2>1, <2>3, UpTo
  <2>5. N \in T
    BY <1>2, <2>4
  <2>6. QED BY <2>5 DEF T
<1>6. ~(Cardinality(f[N]) > N)
  <2>1. N \in 0..N
    BY <1>2
  <2>2. f[N] \in SUBSET S
    BY <1>3, <2>1
  <2> DEFINE c == Cardinality(f[N])
  <2>3. IsFiniteSet(f[N]) /\ c <= N
    BY <2>2, FS_Subset DEF N
  <2>4. c \in Nat
    BY <2>3, FS_CardinalityType
  <2> HIDE DEF c
  <2>5. ~(c > N)
    BY <1>2, <2>3, <2>4
  <2>6. QED BY <2>5 DEF c
<1>7. QED BY <1>1, <1>4, <1>5, <1>6

LEMMA SameRowBack == \A a, b : SameRow(a, b) <=> SameRow(b, a)
<1>1. \A x, y : {x, y} = {y, x}
  OBVIOUS
<1>2. \A a, b : AlongY(a, b) = AlongY(b, a)
  BY <1>1 DEF AlongY, Along
<1>3. QED BY <1>1, <1>2 DEF SameRow

\* A cluster is the cluster of each of its members.
LEMMA ClustersPart ==
    ASSUME NEW tok, NEW S, IsFiniteSet(S), NEW i \in S, NEW j \in Cluster(tok, S, i)
    PROVE  Cluster(tok, S, j) = Cluster(tok, S, i)
<1> DEFINE A == Cluster(tok, S, i)
           B == Cluster(tok, S, j)
           D == A \ B
<1>1. i \in A /\ Rowed(tok, S, A) /\ \A C : Rowed(tok, S, C) /\ i \in C => A \subseteq C
  BY ClusterIs
<1>2. j \in S
  BY <1>1 DEF Rowed
<1>3. j \in B /\ Rowed(tok, S, B) /\ \A C : Rowed(tok, S, C) /\ j \in C => B \subseteq C
  BY <1>2, ClusterIs
<1> HIDE DEF A, B
<1>4. j \in A
  BY DEF A
<1>5. B \subseteq A
  BY <1>1, <1>3, <1>4
<1>6. i \in B
  <2> SUFFICES ASSUME i \notin B PROVE FALSE
    OBVIOUS
  <2>1. Rowed(tok, S, D)
    BY <1>1, <1>3, SameRowBack DEF Rowed
  <2>2. A \subseteq D
    BY <1>1, <2>1
  <2>3. QED BY <1>3, <1>4, <2>2
<1>7. A \subseteq B
  BY <1>1, <1>3, <1>6
<1>8. QED BY <1>5, <1>7 DEF A, B

(***************************************************************************)
(* Ordered, by keys of any length: K gives each key as three numbers.      *)
(***************************************************************************)
Below(S, K, e) == Cardinality({d \in S : Less(K[d], K[e])})
Sorting(q, S, K) ==
    /\ q = [i \in 1..Cardinality(S) |-> q[i]]
    /\ \A i \in 1..Cardinality(S) :
          (\E e \in S : Below(S, K, e) = i - 1) => q[i] \in S /\ Below(S, K, q[i]) = i - 1

LEMMA SortedIs ==
    ASSUME NEW S, IsFiniteSet(S), NEW K, Keys(S, K), NEW q, Sorting(q, S, K)
    PROVE  Enumerates(q, S, Keyed(S, K)) /\ Lists(q, S)
<1> DEFINE LT == Keyed(S, K)
<1>1. Chain(S, LT)
  BY KeysChain
<1>2. \A e \in S : Rank(S, LT, e) = Below(S, K, e)
  <2> SUFFICES ASSUME NEW e \in S PROVE Rank(S, LT, e) = Below(S, K, e)
    OBVIOUS
  <2>1. {d \in S : <<d, e>> \in LT} = {d \in S : Less(K[d], K[e])}
    BY DEF Keyed
  <2>2. QED BY <2>1 DEF Rank, Below
<1> HIDE DEF LT
<1>3. Choosing(q, S, LT)
  BY <1>2 DEF Sorting, Choosing
<1>4. Enumerates(q, S, LT) /\ Lists(q, S)
  BY <1>1, <1>3, Enumerating, EnumeratesLists
<1>5. QED BY <1>4 DEF LT

LEMMA LessFour ==
    \A a1, a2, a3, a4, b1, b2, b3, b4 \in Int :
       Less(<<a1, a2, a3, a4>>, <<b1, b2, b3, b4>>)
          <=> \/ a1 < b1 \/ (a1 = b1 /\ a2 < b2) \/ (a1 = b1 /\ a2 = b2 /\ a3 < b3)
              \/ a1 = b1 /\ a2 = b2 /\ a3 = b3 /\ a4 < b4
<1> SUFFICES ASSUME NEW a1 \in Int, NEW a2 \in Int, NEW a3 \in Int, NEW a4 \in Int,
                    NEW b1 \in Int, NEW b2 \in Int, NEW b3 \in Int, NEW b4 \in Int
             PROVE  Less(<<a1, a2, a3, a4>>, <<b1, b2, b3, b4>>)
                       <=> \/ a1 < b1 \/ (a1 = b1 /\ a2 < b2) \/ (a1 = b1 /\ a2 = b2 /\ a3 < b3)
                           \/ a1 = b1 /\ a2 = b2 /\ a3 = b3 /\ a4 < b4
  OBVIOUS
<1> DEFINE s == <<a1, a2, a3, a4>>
           t == <<b1, b2, b3, b4>>
<1>1. /\ DOMAIN s = {1, 2, 3, 4} /\ s[1] = a1 /\ s[2] = a2 /\ s[3] = a3 /\ s[4] = a4
      /\ t[1] = b1 /\ t[2] = b2 /\ t[3] = b3 /\ t[4] = b4
  OBVIOUS
<1>2. 1..(1 - 1) = {} /\ 1..(2 - 1) = {1} /\ 1..(3 - 1) = {1, 2} /\ 1..(4 - 1) = {1, 2, 3}
  OBVIOUS
<1> HIDE DEF s, t
<1>3. Less(s, t) <=> \/ s[1] < t[1]
                     \/ s[2] < t[2] /\ s[1] = t[1]
                     \/ s[3] < t[3] /\ s[1] = t[1] /\ s[2] = t[2]
                     \/ s[4] < t[4] /\ s[1] = t[1] /\ s[2] = t[2] /\ s[3] = t[3]
  BY <1>1, <1>2 DEF Less
<1>4. QED BY <1>1, <1>3 DEF s, t

\* A list holds its set.
LEMMA ListHolds ==
    ASSUME NEW q, NEW S, Lists(q, S)
    PROVE  /\ q \in Seq(S) /\ Len(q) \in Nat /\ DOMAIN q = 1..Len(q)
           /\ \A e : e \in S <=> \E k \in DOMAIN q : q[k] = e
<1>1. q \in Seq(S) /\ Len(q) \in Nat /\ DOMAIN q = 1..Len(q)
  BY DEF Lists
<1>2. \A k \in DOMAIN q : q[k] \in S
  BY <1>1
<1>3. QED BY <1>1, <1>2 DEF Lists

-----------------------------------------------------------------------------
(***************************************************************************)
(* A second reading of an element.                                         *)
(***************************************************************************)
Heard == Seq([box : Bounding, words : Seq(Int)])
LEMMA SeqHas ==
    ASSUME NEW T, NEW s \in Seq(T)
    PROVE  Len(s) \in Nat /\ DOMAIN s = 1..Len(s) /\ \A i \in DOMAIN s : s[i] \in T
OBVIOUS

LEMMA SeqMade ==
    ASSUME NEW T, NEW m \in Nat, NEW s, s = [k \in 1..m |-> s[k]], \A k \in 1..m : s[k] \in T
    PROVE  s \in Seq(T) /\ Len(s) = m /\ DOMAIN s = 1..m
OBVIOUS

LEMMA HeardIs ==
    ASSUME NEW second \in Heard
    PROVE  /\ Len(second) \in Nat /\ DOMAIN second = 1..Len(second) /\ IsFiniteSet(DOMAIN second)
           /\ \A i \in DOMAIN second : second[i].box \in Bounding /\ second[i].words \in Seq(Int)
<1> DEFINE T == [box : Bounding, words : Seq(Int)]
<1>1. \A t \in T : t.box \in Bounding /\ t.words \in Seq(Int)
  OBVIOUS
<1>2. second \in Seq(T)
  BY DEF Heard
<1> HIDE DEF T
<1>3. Len(second) \in Nat /\ DOMAIN second = 1..Len(second) /\ \A i \in DOMAIN second : second[i] \in T
  BY <1>2, SeqHas
<1>4. QED BY <1>1, <1>3, FS_Interval

Said(e) == e.text \in Seq(Int) /\ e.box \in Bounding

\* The order of Say.
SayKey(e, second, i) ==
    <<PlaceOf(e, second, i).y0, PlaceOf(e, second, i).x0, IF i = 0 THEN 1 ELSE 0, i>>
SaidAt(e, second, S, i) ==
    CHOOSE v \in S : Cardinality({d \in S : Less(SayKey(e, second, d), SayKey(e, second, v))}) = i - 1
InSaying(e, second, S) == [i \in 1..Cardinality(S) |-> SaidAt(e, second, S, i)]

LEMMA InSayingIs ==
    ASSUME NEW e, NEW second, Said(e), second \in Heard, NEW S \in SUBSET ({0} \cup DOMAIN second)
    PROVE  Lists(InSaying(e, second, S), S)
<1> DEFINE q == InSaying(e, second, S)
           N == Len(second)
           K == [i \in S |-> <<PlaceOf(e, second, i).y0, PlaceOf(e, second, i).x0,
                               IF i = 0 THEN N + 1 ELSE i>>]
<1>1. /\ N \in Nat /\ DOMAIN second = 1..N
      /\ \A i \in DOMAIN second : second[i].box \in Bounding
  BY HeardIs
<1>2. IsFiniteSet(S)
  <2>1. IsFiniteSet({0} \cup DOMAIN second)
    <3>1. IsFiniteSet(DOMAIN second) /\ IsFiniteSet({0})
      BY HeardIs, FS_Singleton
    <3>2. QED BY <3>1, FS_Union
  <2>2. QED BY <2>1, FS_Subset
<1> HIDE DEF N
<1>3. \A i \in S : /\ i \in Int /\ (i = 0 \/ i \in 1..N)
                   /\ PlaceOf(e, second, i).y0 \in Int /\ PlaceOf(e, second, i).x0 \in Int
  BY <1>1 DEF PlaceOf, Said, Bounding
<1>4. Keys(S, K)
  <2>1. ASSUME NEW i \in S PROVE K[i] \in Int \X Int \X Int /\ K[i][3] = IF i = 0 THEN N + 1 ELSE i
    BY <1>1, <1>3
  <2>2. ASSUME NEW i \in S, NEW j \in S, K[i] = K[j] PROVE i = j
    <3>1. (IF i = 0 THEN N + 1 ELSE i) = (IF j = 0 THEN N + 1 ELSE j)
      BY <2>1, <2>2
    <3>2. QED BY <1>1, <1>3, <3>1
  <2>3. K \in [S -> Int \X Int \X Int]
    BY <2>1
  <2> HIDE DEF K
  <2>4. QED BY <2>2, <2>3 DEF Keys
<1>5. \A d, v \in S : Less(SayKey(e, second, d), SayKey(e, second, v)) <=> Less(K[d], K[v])
  <2> SUFFICES ASSUME NEW d \in S, NEW v \in S
               PROVE  Less(SayKey(e, second, d), SayKey(e, second, v)) <=> Less(K[d], K[v])
    OBVIOUS
  <2> DEFINE dy == PlaceOf(e, second, d).y0
             dx == PlaceOf(e, second, d).x0
             vy == PlaceOf(e, second, v).y0
             vx == PlaceOf(e, second, v).x0
             df == IF d = 0 THEN 1 ELSE 0
             vf == IF v = 0 THEN 1 ELSE 0
             dn == IF d = 0 THEN N + 1 ELSE d
             vn == IF v = 0 THEN N + 1 ELSE v
  <2>1. /\ dy \in Int /\ dx \in Int /\ vy \in Int /\ vx \in Int /\ d \in Int /\ v \in Int
        /\ df \in Int /\ vf \in Int /\ dn \in Int /\ vn \in Int
    BY <1>1, <1>3
  <2>2. df < vf \/ (df = vf /\ d < v) <=> dn < vn
    BY <1>1, <1>3
  <2>3. /\ SayKey(e, second, d) = <<dy, dx, df, d>> /\ SayKey(e, second, v) = <<vy, vx, vf, v>>
        /\ K[d] = <<dy, dx, dn>> /\ K[v] = <<vy, vx, vn>>
    BY DEF SayKey
  <2> HIDE DEF dy, dx, vy, vx, df, vf, dn, vn, K
  <2>4. Less(<<dy, dx, df, d>>, <<vy, vx, vf, v>>)
          <=> \/ dy < vy \/ (dy = vy /\ dx < vx) \/ (dy = vy /\ dx = vx /\ df < vf)
              \/ dy = vy /\ dx = vx /\ df = vf /\ d < v
    BY SMTT(30), <2>1, LessFour
  <2>5. Less(<<dy, dx, dn>>, <<vy, vx, vn>>)
          <=> dy < vy \/ (dy = vy /\ (dx < vx \/ (dx = vx /\ dn < vn)))
    BY <2>1, LessIs
  <2>6. QED BY <2>2, <2>3, <2>4, <2>5
<1> HIDE DEF K
<1>6. \A v \in S : Cardinality({d \in S : Less(SayKey(e, second, d), SayKey(e, second, v))}) = Below(S, K, v)
  <2> SUFFICES ASSUME NEW v \in S
               PROVE  Cardinality({d \in S : Less(SayKey(e, second, d), SayKey(e, second, v))}) = Below(S, K, v)
    OBVIOUS
  <2>1. {d \in S : Less(SayKey(e, second, d), SayKey(e, second, v))} = {d \in S : Less(K[d], K[v])}
    BY <1>5
  <2>2. QED BY <2>1 DEF Below
<1>7. ASSUME NEW i \in 1..Cardinality(S), \E v \in S : Below(S, K, v) = i - 1
      PROVE  q[i] \in S /\ Below(S, K, q[i]) = i - 1
  <2>1. q[i] = CHOOSE v \in S :
            Cardinality({d \in S : Less(SayKey(e, second, d), SayKey(e, second, v))}) = i - 1
    BY DEF InSaying, SaidAt
  <2>2. \E v \in S : Cardinality({d \in S : Less(SayKey(e, second, d), SayKey(e, second, v))}) = i - 1
    BY <1>6, <1>7
  <2>3. q[i] \in S /\ Cardinality({d \in S : Less(SayKey(e, second, d), SayKey(e, second, q[i]))}) = i - 1
    <3> HIDE DEF q
    <3> QED BY <2>1, <2>2
  <2>4. QED BY <1>6, <2>3
<1>8. q = [i \in 1..Cardinality(S) |-> q[i]]
  BY DEF InSaying
<1> HIDE DEF q
<1>9. Sorting(q, S, K)
  BY <1>7, <1>8 DEF Sorting
<1>10. Lists(q, S)
  BY <1>2, <1>4, <1>9, SortedIs
<1>11. QED BY <1>10 DEF q

LEMMA SayIs ==
    ASSUME NEW e, NEW second, Said(e), second \in Heard, NEW S \in SUBSET ({0} \cup DOMAIN second)
    PROVE  /\ Say(e, second, S) \in Seq(Int)
           /\ \A v : v \in ToSet(Say(e, second, S))
                        <=> \E i \in S : v \in ToSet(WordsOf(e, second, i))
<1> DEFINE q == InSaying(e, second, S)
           ss == [k \in DOMAIN q |-> WordsOf(e, second, q[k])]
<1>1. Say(e, second, S) = FlattenSeq(ss)
  BY DEF Say, Ordered, InSaying, SaidAt, SayKey
<1>2. Lists(q, S)
  BY InSayingIs
<1> HIDE DEF q
<1>3. /\ q \in Seq(S) /\ Len(q) \in Nat /\ DOMAIN q = 1..Len(q)
      /\ \A i : i \in S <=> \E k \in DOMAIN q : q[k] = i
  BY <1>2, ListHolds
<1>4. \A i \in S : WordsOf(e, second, i) \in Seq(Int)
  BY HeardIs DEF WordsOf, Said
<1>5. ss \in Seq(Seq(Int)) /\ DOMAIN ss = DOMAIN q /\ \A k \in DOMAIN q : ss[k] = WordsOf(e, second, q[k])
  <2> DEFINE m == Len(q)
  <2>1. m \in Nat /\ DOMAIN q = 1..m
    BY <1>3
  <2>2. ss = [k \in 1..m |-> ss[k]] /\ \A k \in 1..m : ss[k] = WordsOf(e, second, q[k])
    BY <2>1
  <2>3. \A k \in 1..m : ss[k] \in Seq(Int)
    BY <1>3, <1>4, <2>1, <2>2
  <2> HIDE DEF m, ss
  <2>4. QED BY <2>1, <2>2, <2>3, SeqMade
<1> HIDE DEF ss
<1>6. PICK start : Flat(FlattenSeq(ss), ss, start) /\ FlattenSeq(ss) \in Seq(Int)
  BY <1>5, FlattenIs
<1>7. \A v : v \in ToSet(FlattenSeq(ss)) <=> \E k \in DOMAIN ss : v \in ToSet(ss[k])
  BY <1>6, FlatHolds
<1>8. QED BY ZenonT(30), <1>1, <1>3, <1>5, <1>6, <1>7

\* The order of FusedGroups.
GroupKey(e, second, i) == <<Band(PlaceOf(e, second, i).y0), PlaceOf(e, second, i).x0, i>>
GroupAt(e, second, S, i) ==
    CHOOSE v \in S : Cardinality({d \in S : Less(GroupKey(e, second, d), GroupKey(e, second, v))}) = i - 1
InGroups(e, second, S) == [i \in 1..Cardinality(S) |-> GroupAt(e, second, S, i)]

LEMMA BandIs == \A y \in Int : Band(y) \in Int
BY DEF Band

LEMMA InGroupsIs ==
    ASSUME NEW e, NEW second, Said(e), second \in Heard, NEW S \in SUBSET ({0} \cup DOMAIN second)
    PROVE  Lists(InGroups(e, second, S), S)
<1> DEFINE q == InGroups(e, second, S)
           K == [i \in S |-> GroupKey(e, second, i)]
<1>1. IsFiniteSet(S)
  <2>1. IsFiniteSet(DOMAIN second) /\ IsFiniteSet({0})
    BY HeardIs, FS_Singleton
  <2>2. IsFiniteSet({0} \cup DOMAIN second)
    BY <2>1, FS_Union
  <2>3. QED BY <2>2, FS_Subset
<1>2. \A i \in S : i \in Int
  BY HeardIs
<1>3. Keys(S, K)
  <2>1. ASSUME NEW i \in S
        PROVE  GroupKey(e, second, i) \in Int \X Int \X Int /\ GroupKey(e, second, i)[3] = i
    <3>1. PlaceOf(e, second, i) \in Bounding
      BY HeardIs DEF PlaceOf, Said
    <3>2. PlaceOf(e, second, i).y0 \in Int /\ PlaceOf(e, second, i).x0 \in Int
      BY <3>1 DEF Bounding
    <3>3. QED BY <1>2, <3>2, BandIs DEF GroupKey
  <2>2. QED BY <2>1 DEF Keys
<1>4. \A d, v \in S : Less(GroupKey(e, second, d), GroupKey(e, second, v)) <=> Less(K[d], K[v])
  OBVIOUS
<1> HIDE DEF K
<1>5. ASSUME NEW v \in S
      PROVE  Cardinality({d \in S : Less(GroupKey(e, second, d), GroupKey(e, second, v))}) = Below(S, K, v)
  <2>1. {d \in S : Less(GroupKey(e, second, d), GroupKey(e, second, v))} = {d \in S : Less(K[d], K[v])}
    BY <1>4
  <2>2. QED BY <2>1 DEF Below
<1>6. ASSUME NEW i \in 1..Cardinality(S), \E v \in S : Below(S, K, v) = i - 1
      PROVE  q[i] \in S /\ Below(S, K, q[i]) = i - 1
  <2>1. q[i] = CHOOSE v \in S :
            Cardinality({d \in S : Less(GroupKey(e, second, d), GroupKey(e, second, v))}) = i - 1
    BY DEF InGroups, GroupAt
  <2>2. \E v \in S : Cardinality({d \in S : Less(GroupKey(e, second, d), GroupKey(e, second, v))}) = i - 1
    BY <1>5, <1>6
  <2>3. q[i] \in S /\ Cardinality({d \in S : Less(GroupKey(e, second, d), GroupKey(e, second, q[i]))}) = i - 1
    <3> HIDE DEF q
    <3> QED BY <2>1, <2>2
  <2>4. QED BY <1>5, <2>3
<1>7. q = [i \in 1..Cardinality(S) |-> q[i]]
  BY DEF InGroups
<1> HIDE DEF q
<1>8. Sorting(q, S, K)
  BY <1>6, <1>7 DEF Sorting
<1>9. Lists(q, S)
  BY <1>1, <1>3, <1>8, SortedIs
<1>10. QED BY <1>9 DEF q

\* The text of the element's own group keeps what the element said.
LEMMA AnchorTextIs ==
    ASSUME NEW e, NEW second, Said(e), second \in Heard
    PROVE  /\ AnchorText(e, second) \in Seq(Int)
           /\ ToSet(e.text) \subseteq ToSet(AnchorText(e, second))
           /\ ToSet(AnchorText(e, second)) \subseteq ToSet(e.text) \cup Spoken(second, Readings(second, e.box))
<1> DEFINE A == Anchored(e, second)
           M == MergedAgreeing(e, second)
           R == Readings(second, e.box)
           known == ToSet(e.text) \subseteq Spoken(second, A)
<1>1. A \in SUBSET R /\ R \in SUBSET DOMAIN second
  BY DEF Anchored, Readings
<1>2. M = A \cup (IF known THEN {} ELSE {0})
  BY DEF MergedAgreeing
<1>3. 0 \notin DOMAIN second
  BY HeardIs
<1>4. \A i \in R : WordsOf(e, second, i) = second[i].words
  BY <1>1, <1>3 DEF WordsOf
<1>5. \A S : \A v : v \in Spoken(second, S) <=> \E i \in S : v \in ToSet(second[i].words)
  BY DEF Spoken
<1> HIDE DEF A, M, R, known
<1>6. A \in SUBSET ({0} \cup DOMAIN second) /\ M \in SUBSET ({0} \cup DOMAIN second)
  BY <1>1, <1>2
<1>7. CASE Decision(e, second) = "keep_both_agree"
  <2>1. AnchorText(e, second) = Say(e, second, M)
    BY <1>7 DEF AnchorText, M
  <2>2. /\ Say(e, second, M) \in Seq(Int)
        /\ \A v : v \in ToSet(Say(e, second, M)) <=> \E i \in M : v \in ToSet(WordsOf(e, second, i))
    BY <1>6, SayIs
  <2>3. ASSUME NEW v \in ToSet(e.text) PROVE v \in ToSet(Say(e, second, M))
    <3>1. CASE known
      <4>1. v \in Spoken(second, A)
        BY <2>3, <3>1 DEF known
      <4>2. PICK i \in A : v \in ToSet(second[i].words)
        BY <1>5, <4>1
      <4>3. QED BY <1>1, <1>2, <1>4, <2>2, <4>2
    <3>2. CASE ~ known
      <4>1. 0 \in M /\ WordsOf(e, second, 0) = e.text
        BY <1>2, <3>2 DEF WordsOf
      <4>2. QED BY <2>2, <4>1
    <3>3. QED BY <3>1, <3>2
  <2>4. ASSUME NEW v \in ToSet(Say(e, second, M)) PROVE v \in ToSet(e.text) \cup Spoken(second, R)
    <3>1. PICK i \in M : v \in ToSet(WordsOf(e, second, i))
      BY <2>2, <2>4
    <3>2. CASE i \in A
      BY <1>1, <1>4, <1>5, <3>1, <3>2
    <3>3. CASE i = 0
      BY <3>1, <3>3 DEF WordsOf
    <3>4. QED BY <1>2, <3>2, <3>3
  <2>5. QED BY <2>1, <2>2, <2>3, <2>4 DEF R
<1>8. CASE Decision(e, second) # "keep_both_agree"
  <2> DEFINE s == e.text
             t == Say(e, second, A)
  <2>1. AnchorText(e, second) = s \o t
    BY <1>8 DEF AnchorText, A
  <2>2. /\ t \in Seq(Int)
        /\ \A v : v \in ToSet(t) <=> \E i \in A : v \in ToSet(WordsOf(e, second, i))
    BY <1>6, SayIs
  <2>3. s \in Seq(Int)
    BY DEF Said
  <2>4. \A v \in ToSet(t) : v \in Spoken(second, R)
    BY <1>1, <1>4, <1>5, <2>2
  <2>5. ToSet(s) \subseteq ToSet(s \o t) /\ ToSet(s \o t) \subseteq ToSet(s) \cup ToSet(t) /\ s \o t \in Seq(Int)
    <3> HIDE DEF s, t
    <3> QED BY <2>2, <2>3, ConcatHolds
  <2>6. QED BY <2>1, <2>4, <2>5 DEF R
<1>9. QED BY <1>7, <1>8

LEMMA FusedTextIs ==
    ASSUME NEW e, NEW second, Said(e), second \in Heard
    PROVE  /\ ToSet(e.text) \subseteq ToSet(FusedText(e, second))
           /\ ToSet(FusedText(e, second)) \subseteq ToSet(e.text) \cup Spoken(second, Readings(second, e.box))
<1> DEFINE R == Readings(second, e.box)
           S == {0} \cup (R \ Anchored(e, second))
           q == InGroups(e, second, S)
           text(i) == IF i = 0 THEN AnchorText(e, second) ELSE second[i].words
           ss == [k \in DOMAIN q |-> text(q[k])]
<1>1. FusedText(e, second) = FlattenSeq(ss)
  BY DEF FusedText, FusedGroups, Ordered, InGroups, GroupAt, GroupKey
<1>2. R \in SUBSET DOMAIN second /\ S \in SUBSET ({0} \cup DOMAIN second) /\ S \in SUBSET ({0} \cup R) /\ 0 \in S
  BY DEF Readings
<1>3. Lists(q, S)
  <2> HIDE DEF S
  <2> QED BY <1>2, InGroupsIs
<1>4. \A i \in S : text(i) \in Seq(Int)
  BY <1>2, AnchorTextIs, HeardIs
<1>5. \A i \in S : \A v \in ToSet(text(i)) : v \in ToSet(e.text) \cup Spoken(second, R)
  <2>1. \A i \in R : \A v \in ToSet(second[i].words) : v \in Spoken(second, R)
    BY DEF Spoken
  <2>2. QED BY <1>2, <2>1, AnchorTextIs
<1>6. ToSet(e.text) \subseteq ToSet(text(0))
  BY AnchorTextIs
<1> HIDE DEF q, R, S, text
<1>7. /\ q \in Seq(S) /\ Len(q) \in Nat /\ DOMAIN q = 1..Len(q)
      /\ \A i : i \in S <=> \E k \in DOMAIN q : q[k] = i
  BY <1>3, ListHolds
<1>8. ss \in Seq(Seq(Int)) /\ DOMAIN ss = DOMAIN q /\ \A k \in DOMAIN q : ss[k] = text(q[k])
  <2> DEFINE m == Len(q)
  <2>1. m \in Nat /\ DOMAIN q = 1..m
    BY <1>7
  <2>2. ss = [k \in 1..m |-> ss[k]] /\ \A k \in 1..m : ss[k] = text(q[k])
    BY <2>1
  <2>3. \A k \in 1..m : ss[k] \in Seq(Int)
    BY <1>4, <1>7, <2>1, <2>2
  <2> HIDE DEF m, ss
  <2>4. QED BY <2>1, <2>2, <2>3, SeqMade
<1> HIDE DEF ss
<1>9. PICK start : Flat(FlattenSeq(ss), ss, start)
  BY <1>8, FlattenIs
<1>10. \A v : v \in ToSet(FlattenSeq(ss)) <=> \E k \in DOMAIN ss : v \in ToSet(ss[k])
  BY <1>9, FlatHolds
<1>11. \A v \in ToSet(FlattenSeq(ss)) : v \in ToSet(e.text) \cup Spoken(second, R)
  BY <1>5, <1>7, <1>8, <1>10
<1>12. \A v \in ToSet(e.text) : v \in ToSet(FlattenSeq(ss))
  BY <1>2, <1>6, <1>7, <1>8, <1>10
<1>13. QED BY <1>1, <1>11, <1>12 DEF R

(***************************************************************************)
(* A fold that only adds to the end, and one that stays in a set.          *)
(***************************************************************************)
Appends(h, N, ss) ==
    h = [T \in SUBSET (1..N) |-> IF T = {} THEN <<>> ELSE h[T \ {Max(T)}] \o ss[Max(T)]]

LEMMA AppendsExist ==
    ASSUME NEW E, NEW N \in Nat, NEW ss \in Seq(Seq(E)), Len(ss) = N
    PROVE  \E h : Appends(h, N, ss)
<1> DEFINE X == Seq(E)
           x == <<>>
           step == [w \in X \X (1..N) |-> w[1] \o ss[w[2]]]
<1>1. x \in X /\ DOMAIN ss = 1..N /\ \A k \in 1..N : ss[k] \in X
  BY SeqHas
<1>2. \A w \in X \X (1..N) : step[w] = w[1] \o ss[w[2]] /\ step[w] \in X
  <2> SUFFICES ASSUME NEW w \in X \X (1..N) PROVE step[w] = w[1] \o ss[w[2]] /\ step[w] \in X
    OBVIOUS
  <2>1. w[1] \in X /\ ss[w[2]] \in X
    BY <1>1
  <2>2. w[1] \o ss[w[2]] \in X
    BY <2>1, ConcatIs
  <2>3. QED BY <2>2
<1>3. step \in [X \X (1..N) -> X]
  BY <1>2
<1> HIDE DEF X, x, step
<1>4. PICK h : LastFolded(X, x, N, step, h)
  BY <1>1, <1>3, FoldingSeq
<1>5. \A T \in SUBSET (1..N) : h[T] = IF T = {} THEN x ELSE h[T \ {Max(T)}] \o ss[Max(T)]
  BY <1>2, <1>4 DEF LastFolded
<1>6. h = [T \in SUBSET (1..N) |-> h[T]]
  BY <1>4 DEF LastFolded
<1>7. Appends(h, N, ss)
  BY <1>5, <1>6 DEF Appends, x
<1>8. QED BY <1>7

LEMMA AppendsLay ==
    ASSUME NEW E, NEW N \in Nat, NEW ss \in Seq(Seq(E)), Len(ss) = N, NEW h, Appends(h, N, ss)
    PROVE  \E start : Flat(h[1..N], ss, start) /\ h[1..N] \in Seq(E)
<1> DEFINE f == [k \in 0..N |-> h[1..k]]
           T == {k \in 0..N : f[k] \in Seq(E)}
<1>1. DOMAIN ss = 1..N /\ \A k \in 1..N : ss[k] \in Seq(E)
  BY SeqHas
<1>2. f[0] = <<>>
  <2>1. 1..0 = {} /\ {} \in SUBSET (1..N)
    OBVIOUS
  <2>2. QED BY <2>1 DEF Appends
<1>3. ASSUME NEW k \in 1..N PROVE f[k] = f[k - 1] \o ss[k] /\ k \in 0..N /\ k - 1 \in 0..N
  <2> DEFINE D == 1..k
  <2>1. k \in Nat /\ k > 0 /\ k \in 0..N /\ k - 1 \in 0..N /\ D \in SUBSET (1..N) /\ D # {}
    BY Within1N
  <2>2. Max(D) = k /\ D \ {Max(D)} = 1..(k - 1)
    BY Within1N
  <2> HIDE DEF D
  <2>3. h[D] = h[1..(k - 1)] \o ss[k]
    BY <2>1, <2>2 DEF Appends
  <2>4. QED BY <2>1, <2>3 DEF D
<1>4. f = [k \in 0..N |-> f[k]] /\ f[N] = h[1..N]
  OBVIOUS
<1> HIDE DEF f
<1>5. \A k \in 0..N : k \in T
  <2>1. 0 \in T
    <3>1. 0 \in 0..N /\ <<>> \in Seq(E)
      OBVIOUS
    <3>2. QED BY <1>2, <3>1
  <2>2. ASSUME NEW k \in 1..N, k - 1 \in T PROVE k \in T
    <3>1. f[k - 1] \in Seq(E) /\ ss[k] \in Seq(E)
      BY <1>1, <2>2
    <3>2. f[k - 1] \o ss[k] \in Seq(E)
      BY <3>1, ConcatIs
    <3>3. QED BY <1>3, <3>2
  <2> HIDE DEF T
  <2>3. QED BY <2>1, <2>2, UpTo
<1>6. f \in [0..N -> Seq(E)]
  BY <1>4, <1>5
<1>7. Joining(E, N, ss, f)
  BY <1>2, <1>3, <1>6 DEF Joining
<1>8. QED BY <1>4, <1>7, LaidFlat

LEMMA FoldStays ==
    ASSUME NEW S, IsFiniteSet(S), NEW X, NEW pick, NEW iter, iter[{}] \in X,
           \A T \in SUBSET S : T # {} => pick[T] \in T /\ (iter[T \ {pick[T]}] \in X => iter[T] \in X)
    PROVE  iter[S] \in X
<1> DEFINE U == {m \in Nat : \A T \in SUBSET S : Cardinality(T) = m => iter[T] \in X}
<1>1. ASSUME NEW T \in SUBSET S
      PROVE  IsFiniteSet(T) /\ Cardinality(T) \in Nat /\ (Cardinality(T) = 0 <=> T = {})
  BY FS_Subset, FS_CardinalityType, FS_EmptySet
<1>2. 0 \in U
  BY <1>1
<1>3. ASSUME NEW m \in U PROVE m + 1 \in U
  <2>1. m \in Nat /\ \A T \in SUBSET S : Cardinality(T) = m => iter[T] \in X
    OBVIOUS
  <2>2. ASSUME NEW T \in SUBSET S, Cardinality(T) = m + 1 PROVE iter[T] \in X
    <3>1. T # {}
      BY <1>1, <2>1, <2>2
    <3> DEFINE D == T \ {pick[T]}
    <3>2. Cardinality(D) = Cardinality(T) - 1 /\ D \in SUBSET S
      BY <1>1, <3>1, FS_RemoveElement
    <3>3. Cardinality(D) = m
      BY <2>1, <2>2, <3>2
    <3>4. QED BY <2>1, <3>1, <3>2, <3>3
  <2>3. QED BY <2>1, <2>2
<1>4. U = Nat
  <2> HIDE DEF U
  <2>1. U \in SUBSET Nat
    BY DEF U
  <2>2. QED BY <1>2, <1>3, <2>1, NatSteps
<1>5. Cardinality(S) \in U
  BY <1>1, <1>4
<1>6. QED BY <1>5

-----------------------------------------------------------------------------
LEMMA MeanTopIs ==
    ASSUME NEW second \in Heard, NEW line \in SUBSET DOMAIN second, line # {}
    PROVE  MeanTop(second, line) \in Int
<1> DEFINE y(i) == second[i].box.y0
           iter[T \in SUBSET line] == IF T = {} THEN 0 ELSE LET v == CHOOSE w \in T : TRUE
                                                            IN  iter[T \ {v}] + y(v)
           pick == [T \in SUBSET line |-> CHOOSE w \in T : TRUE]
           step == [w \in Int \X line |-> w[1] + y(w[2])]
<1>1. FoldSet(LAMBDA i, sum : sum + second[i].box.y0, 0, line) = iter[line]
  BY DEF FoldSet, MapThenFoldSet
<1>2. IsFiniteSet(line)
  BY HeardIs, FS_Subset
<1>3. \A i \in line : y(i) \in Int
  BY HeardIs DEF Bounding
<1>4. \A T \in SUBSET line : T # {} => pick[T] \in T
  OBVIOUS
<1>5. step \in [Int \X line -> Int] /\ \A w \in Int \X line : step[w] = w[1] + y(w[2])
  BY <1>3
<1>6. \A T \in SUBSET line : pick[T] = CHOOSE w \in T : TRUE
  OBVIOUS
<1> HIDE DEF y, pick, step
<1>7. PICK h : Folded(line, Int, 0, pick, step, h)
  <2>1. 0 \in Int
    OBVIOUS
  <2>2. QED BY <1>2, <1>4, <1>5, <2>1, Folding
<1>8. ASSUME NEW T \in SUBSET line
      PROVE  h[T] = IF T = {} THEN 0 ELSE LET v == CHOOSE w \in T : TRUE IN h[T \ {v}] + y(v)
  <2>1. CASE T = {}
    BY <1>7, <2>1 DEF Folded
  <2>2. CASE T # {}
    <3> DEFINE v == pick[T]
    <3>1. v \in line /\ T \ {v} \in SUBSET line
      BY <1>4, <2>2
    <3>2. h[T \ {v}] \in Int /\ h[T] = step[<<h[T \ {v}], v>>]
      BY <1>7, <2>2, <3>1 DEF Folded
    <3>3. step[<<h[T \ {v}], v>>] = h[T \ {v}] + y(v)
      <4> HIDE DEF v
      <4> QED BY <1>5, <3>1, <3>2
    <3>4. QED BY <1>6, <2>2, <3>2, <3>3
  <2>3. QED BY <2>1, <2>2
<1>9. h = [T \in SUBSET line |-> IF T = {} THEN 0 ELSE LET v == CHOOSE w \in T : TRUE IN h[T \ {v}] + y(v)]
  <2>1. h = [T \in SUBSET line |-> h[T]]
    BY <1>7 DEF Folded
  <2>2. QED BY <1>8, <2>1
<1>10. iter = [T \in SUBSET line |-> IF T = {} THEN 0 ELSE LET v == CHOOSE w \in T : TRUE
                                                          IN iter[T \ {v}] + y(v)]
  BY <1>9
<1> HIDE DEF iter
<1>11. iter[{}] \in Int
  BY <1>10
<1>12. ASSUME NEW T \in SUBSET line, T # {} PROVE pick[T] \in T /\ (iter[T \ {pick[T]}] \in Int => iter[T] \in Int)
  <2>1. iter[T] = iter[T \ {pick[T]}] + y(pick[T])
    BY <1>6, <1>10, <1>12
  <2>2. pick[T] \in T /\ y(pick[T]) \in Int
    BY <1>3, <1>4, <1>12
  <2>3. QED BY <2>1, <2>2
<1>13. iter[line] \in Int
  BY <1>2, <1>11, <1>12, FoldStays
<1>14. Cardinality(line) \in Nat /\ Cardinality(line) # 0
  BY <1>2, FS_CardinalityType, FS_EmptySet
<1> DEFINE a == iter[line]
           c == Cardinality(line)
<1>15. MeanTop(second, line) = (60 * a) \div c
  BY <1>1 DEF MeanTop
<1>16. a \in Int /\ c \in Nat /\ c # 0
  BY <1>13, <1>14
<1> HIDE DEF a, c
<1>17. QED BY <1>15, <1>16

\* The order of the readings of a line, and of the lines.
LeftKey(second, i) == <<second[i].box.x0, i>>
LeftAt(second, S, i) ==
    CHOOSE v \in S : Cardinality({d \in S : Less(LeftKey(second, d), LeftKey(second, v))}) = i - 1
FromLeft(second, S) == [i \in 1..Cardinality(S) |-> LeftAt(second, S, i)]

LEMMA LessTwo ==
    \A a1, a2, b1, b2 \in Int : Less(<<a1, a2>>, <<b1, b2>>) <=> Less(<<a1, a2, 0>>, <<b1, b2, 0>>)
<1> SUFFICES ASSUME NEW a1 \in Int, NEW a2 \in Int, NEW b1 \in Int, NEW b2 \in Int
             PROVE  Less(<<a1, a2>>, <<b1, b2>>) <=> Less(<<a1, a2, 0>>, <<b1, b2, 0>>)
  OBVIOUS
<1>1. Less(<<a1, a2>>, <<b1, b2>>) <=> a1 < b1 \/ (a1 = b1 /\ a2 < b2)
  BY LessIs
<1>2. Less(<<a1, a2, 0>>, <<b1, b2, 0>>) <=> a1 < b1 \/ (a1 = b1 /\ (a2 < b2 \/ (a2 = b2 /\ 0 < 0)))
  BY LessIs
<1>3. QED BY <1>1, <1>2

LEMMA FromLeftIs ==
    ASSUME NEW second \in Heard, NEW S \in SUBSET DOMAIN second
    PROVE  Lists(FromLeft(second, S), S)
<1> DEFINE q == FromLeft(second, S)
           K == [i \in S |-> <<second[i].box.x0, i, 0>>]
<1>1. IsFiniteSet(S)
  BY HeardIs, FS_Subset
<1>2. \A i \in S : i \in Int /\ second[i].box.x0 \in Int
  BY HeardIs DEF Bounding
<1>3. Keys(S, K)
  <2>1. K \in [S -> Int \X Int \X Int]
    BY <1>2
  <2>2. \A i \in S : K[i][2] = i
    OBVIOUS
  <2> HIDE DEF K
  <2>3. QED BY <2>1, <2>2 DEF Keys
<1>4. \A d, v \in S : Less(LeftKey(second, d), LeftKey(second, v)) <=> Less(K[d], K[v])
  <2> SUFFICES ASSUME NEW d \in S, NEW v \in S
               PROVE  Less(LeftKey(second, d), LeftKey(second, v)) <=> Less(K[d], K[v])
    OBVIOUS
  <2> DEFINE a == second[d].box.x0
             b == second[v].box.x0
  <2>1. a \in Int /\ b \in Int /\ d \in Int /\ v \in Int
    BY <1>2
  <2>2. /\ LeftKey(second, d) = <<a, d>> /\ LeftKey(second, v) = <<b, v>>
        /\ K[d] = <<a, d, 0>> /\ K[v] = <<b, v, 0>>
    BY DEF LeftKey
  <2> HIDE DEF a, b, K
  <2>3. QED BY <2>1, <2>2, LessTwo
<1> HIDE DEF K
<1>5. ASSUME NEW v \in S
      PROVE  Cardinality({d \in S : Less(LeftKey(second, d), LeftKey(second, v))}) = Below(S, K, v)
  <2>1. {d \in S : Less(LeftKey(second, d), LeftKey(second, v))} = {d \in S : Less(K[d], K[v])}
    BY <1>4
  <2>2. QED BY <2>1 DEF Below
<1>6. ASSUME NEW i \in 1..Cardinality(S), \E v \in S : Below(S, K, v) = i - 1
      PROVE  q[i] \in S /\ Below(S, K, q[i]) = i - 1
  <2>1. q[i] = CHOOSE v \in S : Cardinality({d \in S : Less(LeftKey(second, d), LeftKey(second, v))}) = i - 1
    BY DEF FromLeft, LeftAt
  <2>2. \E v \in S : Cardinality({d \in S : Less(LeftKey(second, d), LeftKey(second, v))}) = i - 1
    BY <1>5, <1>6
  <2>3. q[i] \in S /\ Cardinality({d \in S : Less(LeftKey(second, d), LeftKey(second, q[i]))}) = i - 1
    <3> HIDE DEF q
    <3> QED BY <2>1, <2>2
  <2>4. QED BY <1>5, <2>3
<1>7. q = [i \in 1..Cardinality(S) |-> q[i]]
  BY DEF FromLeft
<1> HIDE DEF q
<1>8. Sorting(q, S, K)
  BY <1>6, <1>7 DEF Sorting
<1>9. Lists(q, S)
  BY <1>1, <1>3, <1>8, SortedIs
<1>10. QED BY <1>9 DEF q

TopKey(second, line) == <<MeanTop(second, line), Min(line)>>
TopLine(second, S, i) ==
    CHOOSE v \in S : Cardinality({d \in S : Less(TopKey(second, d), TopKey(second, v))}) = i - 1
FromTop(second, S) == [i \in 1..Cardinality(S) |-> TopLine(second, S, i)]

LEMMA FromTopIs ==
    ASSUME NEW second \in Heard, NEW R \in SUBSET DOMAIN second
    PROVE  Lists(FromTop(second, Lines(second, R)), Lines(second, R))
<1> DEFINE S == Lines(second, R)
           q == FromTop(second, S)
           K == [l \in S |-> <<MeanTop(second, l), Min(l), 0>>]
<1>1. IsFiniteSet(R) /\ R \in SUBSET Int
  BY HeardIs, FS_Subset
<1>2. S = {Cluster(second, R, i) : i \in R}
  BY DEF Lines
<1>3. IsFiniteSet(S)
  <2> DEFINE g == [i \in R |-> Cluster(second, R, i)]
  <2>1. S = {g[i] : i \in R}
    BY <1>2
  <2> HIDE DEF g
  <2>2. QED BY <1>1, <2>1, ImageIsFinite
<1>4. ASSUME NEW l \in S
      PROVE  l \in SUBSET R /\ l # {} /\ \A j \in l : l = Cluster(second, R, j)
  <2>1. PICK i \in R : l = Cluster(second, R, i)
    BY <1>2
  <2>2. i \in l /\ l \in SUBSET R
    BY <1>1, <2>1, ClusterIs DEF Rowed
  <2>3. QED BY <1>1, <2>1, <2>2, ClustersPart
<1> HIDE DEF S
<1>5. ASSUME NEW l \in S PROVE MeanTop(second, l) \in Int /\ Min(l) \in Int /\ Min(l) \in l
  <2>1. l \in SUBSET R /\ l # {} /\ IsFiniteSet(l) /\ l \in SUBSET Int
    BY <1>1, <1>4, FS_Subset
  <2>2. Min(l) \in l
    BY <2>1, MinIs
  <2>3. QED BY <2>1, <2>2, MeanTopIs
<1>6. Keys(S, K)
  <2>1. K \in [S -> Int \X Int \X Int]
    BY <1>5
  <2>2. ASSUME NEW l \in S, NEW m \in S, K[l] = K[m] PROVE l = m
    <3>1. Min(l) = Min(m)
      BY <2>2
    <3>2. l = Cluster(second, R, Min(l)) /\ m = Cluster(second, R, Min(m))
      BY <1>4, <1>5
    <3>3. QED BY <3>1, <3>2
  <2> HIDE DEF K
  <2>3. QED BY <2>1, <2>2 DEF Keys
<1>7. \A d, v \in S : Less(TopKey(second, d), TopKey(second, v)) <=> Less(K[d], K[v])
  <2> SUFFICES ASSUME NEW d \in S, NEW v \in S
               PROVE  Less(TopKey(second, d), TopKey(second, v)) <=> Less(K[d], K[v])
    OBVIOUS
  <2> DEFINE a1 == MeanTop(second, d)
             a2 == Min(d)
             b1 == MeanTop(second, v)
             b2 == Min(v)
  <2>1. a1 \in Int /\ a2 \in Int /\ b1 \in Int /\ b2 \in Int
    BY <1>5
  <2>2. /\ TopKey(second, d) = <<a1, a2>> /\ TopKey(second, v) = <<b1, b2>>
        /\ K[d] = <<a1, a2, 0>> /\ K[v] = <<b1, b2, 0>>
    BY DEF TopKey
  <2> HIDE DEF a1, a2, b1, b2, K
  <2>3. QED BY <2>1, <2>2, LessTwo
<1> HIDE DEF K
<1>8. ASSUME NEW v \in S
      PROVE  Cardinality({d \in S : Less(TopKey(second, d), TopKey(second, v))}) = Below(S, K, v)
  <2>1. {d \in S : Less(TopKey(second, d), TopKey(second, v))} = {d \in S : Less(K[d], K[v])}
    BY <1>7
  <2>2. QED BY <2>1 DEF Below
<1>9. ASSUME NEW i \in 1..Cardinality(S), \E v \in S : Below(S, K, v) = i - 1
      PROVE  q[i] \in S /\ Below(S, K, q[i]) = i - 1
  <2>1. q[i] = CHOOSE v \in S : Cardinality({d \in S : Less(TopKey(second, d), TopKey(second, v))}) = i - 1
    BY DEF FromTop, TopLine
  <2>2. \E v \in S : Cardinality({d \in S : Less(TopKey(second, d), TopKey(second, v))}) = i - 1
    BY <1>8, <1>9
  <2>3. q[i] \in S /\ Cardinality({d \in S : Less(TopKey(second, d), TopKey(second, q[i]))}) = i - 1
    <3> HIDE DEF q
    <3> QED BY <2>1, <2>2
  <2>4. QED BY <1>8, <2>3
<1>10. q = [i \in 1..Cardinality(S) |-> q[i]]
  BY DEF FromTop
<1> HIDE DEF q
<1>11. Sorting(q, S, K)
  BY <1>9, <1>10 DEF Sorting
<1>12. Lists(q, S)
  BY <1>3, <1>6, <1>11, SortedIs
<1>13. QED BY <1>12 DEF q, S

\* What one line reads.
LineText(second, line) ==
    LET read(out, i) == out \o second[i].words
    IN  FoldLeft(read, <<>>, FromLeft(second, line))

LEMMA LineTextIs ==
    ASSUME NEW second \in Heard, NEW line \in SUBSET DOMAIN second
    PROVE  /\ LineText(second, line) \in Seq(Int)
           /\ \A v : v \in ToSet(LineText(second, line)) <=> \E i \in line : v \in ToSet(second[i].words)
<1> DEFINE q == FromLeft(second, line)
           N == Len(q)
           ss == [k \in 1..N |-> second[q[k]].words]
           iter[T \in SUBSET DOMAIN q] ==
               IF T = {} THEN <<>> ELSE LET m == Max(T) IN iter[T \ {m}] \o second[q[m]].words
<1>1. LineText(second, line) = iter[DOMAIN q]
  BY DEF LineText, FoldLeft, MapThenFoldSet
<1>2. Lists(q, line)
  BY FromLeftIs
<1> HIDE DEF q
<1>3. /\ q \in Seq(line) /\ N \in Nat /\ DOMAIN q = 1..N
      /\ \A i : i \in line <=> \E k \in 1..N : q[k] = i
  BY <1>2, ListHolds
<1>4. \A i \in line : second[i].words \in Seq(Int)
  BY HeardIs
<1> HIDE DEF N
<1>5. ss = [k \in 1..N |-> ss[k]] /\ \A k \in 1..N : ss[k] = second[q[k]].words /\ ss[k] \in Seq(Int)
  BY <1>3, <1>4
<1> HIDE DEF ss
<1>6. ss \in Seq(Seq(Int)) /\ Len(ss) = N /\ DOMAIN ss = 1..N
  BY ZenonT(30), <1>3, <1>5, SeqMade
<1>7. \A T \in SUBSET (1..N) : T # {} => Max(T) \in 1..N
  <2> SUFFICES ASSUME NEW T \in SUBSET (1..N), T # {} PROVE Max(T) \in 1..N
    OBVIOUS
  <2>1. IsFiniteSet(T) /\ T \in SUBSET Int
    <3>1. IsFiniteSet(1..N)
      BY <1>3, FS_Interval
    <3>2. IsFiniteSet(T)
      BY <3>1, FS_Subset
    <3>3. \A j \in 1..N : j \in Int
      BY <1>3
    <3>4. QED BY <3>2, <3>3
  <2>2. Max(T) \in T
    BY <2>1, MaxIs
  <2>3. QED BY <2>2
<1>8. \A h : Appends(h, N, ss) <=>
             h = [T \in SUBSET DOMAIN q |->
                    IF T = {} THEN <<>> ELSE LET m == Max(T) IN h[T \ {m}] \o second[q[m]].words]
  BY <1>3, <1>5, <1>7 DEF Appends
<1>9. PICK h : Appends(h, N, ss)
  BY <1>3, <1>6, AppendsExist
<1>10. iter = [T \in SUBSET DOMAIN q |->
                 IF T = {} THEN <<>> ELSE LET m == Max(T) IN iter[T \ {m}] \o second[q[m]].words]
  BY <1>8, <1>9
<1> HIDE DEF iter
<1>11. Appends(iter, N, ss)
  BY <1>8, <1>10
<1>12. PICK start : Flat(iter[1..N], ss, start) /\ iter[1..N] \in Seq(Int)
  BY <1>3, <1>6, <1>11, AppendsLay
<1>13. \A v : v \in ToSet(iter[1..N]) <=> \E k \in 1..N : v \in ToSet(ss[k])
  <2> DEFINE out == iter[1..N]
  <2>1. Flat(out, ss, start)
    BY <1>12
  <2> HIDE DEF out
  <2>2. \A v : v \in ToSet(out) <=> \E k \in DOMAIN ss : v \in ToSet(ss[k])
    BY <2>1, FlatHolds
  <2>3. QED BY <1>6, <2>2 DEF out
<1>14. LineText(second, line) = iter[1..N]
  BY <1>1, <1>3
<1>15. ASSUME NEW v
       PROVE  (\E k \in 1..N : v \in ToSet(ss[k])) <=> \E i \in line : v \in ToSet(second[i].words)
  <2>1. \A k \in 1..N : ss[k] = second[q[k]].words
    BY <1>5
  <2> HIDE DEF LineText
  <2>2. QED BY <1>3, <2>1
<1>16. \A v : v \in ToSet(iter[1..N]) <=> \E i \in line : v \in ToSet(second[i].words)
  BY <1>13, <1>15
<1>17. QED BY <1>12, <1>14, <1>16

LEMMA ReconstructionIs ==
    ASSUME NEW e, NEW second \in Heard
    PROVE  /\ Reconstruction(e, second) \in Seq(Int)
           /\ ToSet(Reconstruction(e, second)) = Spoken(second, Readings(second, e.box))
<1> DEFINE R == Readings(second, e.box)
           S == Lines(second, R)
           q == FromTop(second, S)
           ss == [k \in DOMAIN q |-> LineText(second, q[k])]
<1>1. Reconstruction(e, second) = FlattenSeq(ss)
  BY DEF Reconstruction, Ordered, FromTop, TopLine, TopKey, LineText, FromLeft, LeftAt, LeftKey
<1>2. R \in SUBSET DOMAIN second
  BY DEF Readings
<1> HIDE DEF R
<1>3. Lists(q, S)
  BY <1>2, FromTopIs
<1>4. IsFiniteSet(R)
  BY <1>2, HeardIs, FS_Subset
<1>5. \A l \in S : l \in SUBSET R
  <2> SUFFICES ASSUME NEW l \in S PROVE l \in SUBSET R
    OBVIOUS
  <2>1. PICK i \in R : l = Cluster(second, R, i)
    BY DEF Lines
  <2>2. QED BY <1>4, <2>1, ClusterIs DEF Rowed
<1>6. \A i \in R : \E l \in S : i \in l
  BY <1>4, ClusterIs DEF Lines
<1> HIDE DEF S, q
<1>7. /\ q \in Seq(S) /\ Len(q) \in Nat /\ DOMAIN q = 1..Len(q)
      /\ \A l : l \in S <=> \E k \in DOMAIN q : q[k] = l
  BY <1>3, ListHolds
<1>8. \A l \in S : /\ LineText(second, l) \in Seq(Int)
                   /\ \A v : v \in ToSet(LineText(second, l)) <=> \E i \in l : v \in ToSet(second[i].words)
  <2> SUFFICES ASSUME NEW l \in S
               PROVE  /\ LineText(second, l) \in Seq(Int)
                      /\ \A v : v \in ToSet(LineText(second, l)) <=> \E i \in l : v \in ToSet(second[i].words)
    OBVIOUS
  <2>1. l \in SUBSET DOMAIN second
    BY <1>2, <1>5
  <2>2. QED BY <2>1, LineTextIs
<1>9. ss \in Seq(Seq(Int)) /\ DOMAIN ss = DOMAIN q /\ \A k \in DOMAIN q : ss[k] = LineText(second, q[k])
  <2> DEFINE m == Len(q)
  <2>1. m \in Nat /\ DOMAIN q = 1..m
    BY <1>7
  <2>2. ss = [k \in 1..m |-> ss[k]] /\ \A k \in 1..m : ss[k] = LineText(second, q[k])
    BY <2>1
  <2>3. \A k \in 1..m : ss[k] \in Seq(Int)
    BY <1>7, <1>8, <2>1, <2>2
  <2> HIDE DEF m, ss
  <2>4. QED BY <2>1, <2>2, <2>3, SeqMade
<1> HIDE DEF ss
<1>10. PICK start : Flat(FlattenSeq(ss), ss, start) /\ FlattenSeq(ss) \in Seq(Int)
  BY <1>9, FlattenIs
<1>11. \A v : v \in ToSet(FlattenSeq(ss)) <=> \E k \in DOMAIN ss : v \in ToSet(ss[k])
  BY <1>10, FlatHolds
<1>12. ASSUME NEW v PROVE v \in ToSet(FlattenSeq(ss)) <=> \E i \in R : v \in ToSet(second[i].words)
  <2>1. v \in ToSet(FlattenSeq(ss)) <=> \E l \in S : v \in ToSet(LineText(second, l))
    BY <1>7, <1>9, <1>11
  <2>2. v \in ToSet(FlattenSeq(ss)) <=> \E l \in S : \E i \in l : v \in ToSet(second[i].words)
    BY <1>8, <2>1
  <2>3. QED BY <1>5, <1>6, <2>2
<1>13. \A v : v \in Spoken(second, R) <=> \E i \in R : v \in ToSet(second[i].words)
  BY DEF Spoken
<1>14. ToSet(FlattenSeq(ss)) = Spoken(second, R)
  BY <1>12, <1>13
<1>15. QED BY <1>1, <1>10, <1>14 DEF R

(***************************************************************************)
(* order_consistency over words that all come once and in the same order.  *)
(***************************************************************************)
Seek(b, at, w) ==
    LET free == {j \in DOMAIN b : b[j] = w /\ j \notin ToSet(at)}
    IN  IF free = {} THEN at ELSE Append(at, Min(free))
Put(tails, x) ==
    LET at == Min({Len(tails) + 1} \cup {i \in DOMAIN tails : tails[i] >= x})
    IN  IF at > Len(tails) THEN Append(tails, x) ELSE [tails EXCEPT ![at] = x]

\* The first k values of a function over 1..N.
First(s, k) == [i \in 1..k |-> s[i]]

LEMMA FirstIs ==
    ASSUME NEW T, NEW s \in Seq(T), NEW k \in 1..Len(s)
    PROVE  /\ First(s, k - 1) \in Seq(T) /\ First(s, k) \in Seq(T) /\ Len(First(s, k - 1)) = k - 1
           /\ DOMAIN First(s, k - 1) = 1..(k - 1)
           /\ \A i \in 1..(k - 1) : First(s, k - 1)[i] = s[i]
           /\ First(s, k) = Append(First(s, k - 1), s[k])
<1> DEFINE a == First(s, k - 1)
           b == First(s, k)
<1>1. Len(s) \in Nat /\ k \in Nat /\ k - 1 \in Nat /\ \A i \in 1..Len(s) : s[i] \in T
  OBVIOUS
<1>2. a = [i \in 1..(k - 1) |-> s[i]] /\ b = [i \in 1..k |-> s[i]]
  BY DEF First
<1>3. (\A i \in 1..(k - 1) : s[i] \in T) /\ (\A i \in 1..k : s[i] \in T)
  BY <1>1
<1>4. a \in Seq(T) /\ b \in Seq(T) /\ Len(a) = k - 1 /\ Len(b) = k /\ DOMAIN a = 1..(k - 1) /\ DOMAIN b = 1..k
  BY <1>1, <1>2, <1>3
<1>5. (\A i \in 1..(k - 1) : a[i] = s[i]) /\ (\A i \in 1..k : b[i] = s[i])
  BY <1>2
<1> HIDE DEF a, b
<1>6. b = Append(a, s[k])
  <2> DEFINE c == Append(a, s[k])
  <2>1. c \in Seq(T) /\ Len(c) = k /\ DOMAIN c = 1..k
    BY <1>1, <1>4
  <2>2. \A i \in 1..k : c[i] = IF i <= k - 1 THEN a[i] ELSE s[k]
    BY <1>1, <1>4
  <2>3. \A i \in 1..k : c[i] = b[i]
    <3> SUFFICES ASSUME NEW i \in 1..k PROVE c[i] = b[i]
      OBVIOUS
    <3>1. i \in Nat /\ (i \in 1..(k - 1) \/ i = k) /\ ~ (k <= k - 1)
      BY <1>1
    <3>2. CASE i \in 1..(k - 1)
      <4>1. i <= k - 1
        BY <1>1, <3>2
      <4>2. c[i] = a[i] /\ a[i] = s[i] /\ b[i] = s[i]
        BY <1>5, <2>2, <3>2, <4>1
      <4>3. QED BY <4>2
    <3>3. CASE i = k
      BY <1>5, <2>2, <3>1, <3>3
    <3>4. QED BY <3>1, <3>2, <3>3
  <2> HIDE DEF c
  <2>4. b = c
    BY <1>4, <2>1, <2>3
  <2>5. QED BY <2>4 DEF c
<1>7. QED BY <1>4, <1>5, <1>6 DEF a, b

LEMMA ReplacedIs ==
    ASSUME NEW t \in Seq(Int), NEW v \in Int, NEW at
    PROVE  [t EXCEPT ![at] = v] \in Seq(Int)
<1> DEFINE r == [t EXCEPT ![at] = v]
           m == Len(t)
<1>1. m \in Nat /\ DOMAIN t = 1..m /\ \A i \in 1..m : t[i] \in Int
  OBVIOUS
<1>2. r = [i \in DOMAIN t |-> IF i = at THEN v ELSE t[i]]
  BY Zenon
<1>3. r = [i \in 1..m |-> r[i]] /\ \A i \in 1..m : r[i] \in Int
  BY <1>1, <1>2
<1> HIDE DEF r, m
<1>4. r \in Seq(Int)
  BY <1>1, <1>3, SeqMade
<1>5. QED BY <1>4 DEF r

LEMMA SeekRuns ==
    ASSUME NEW a \in Seq(Int), NEW b \in Seq(Int)
    PROVE  \E f : /\ f[0] = <<>> /\ Positions(a, b) = f[Len(a)]
                  /\ \A k \in 1..Len(a) : f[k] = Seek(b, f[k - 1], a[k])
<1> DEFINE N == Len(a)
           X == Seq(Nat)
           x == <<>>
           iter[T \in SUBSET DOMAIN a] ==
               IF T = {} THEN x ELSE LET m == Max(T) IN Seek(b, iter[T \ {m}], a[m])
           step == [w \in X \X (1..N) |-> Seek(b, w[1], a[w[2]])]
<1>1. Positions(a, b) = iter[DOMAIN a]
  BY DEF Positions, FoldLeft, MapThenFoldSet, Seek
<1>2. N \in Nat /\ x \in X /\ DOMAIN a = 1..N
  OBVIOUS
<1>3. ASSUME NEW at \in X, NEW w PROVE Seek(b, at, w) \in X
  <2> DEFINE free == {j \in DOMAIN b : b[j] = w /\ j \notin ToSet(at)}
  <2>1. DOMAIN b = 1..Len(b) /\ Len(b) \in Nat
    OBVIOUS
  <2>2. free \in SUBSET (1..Len(b)) /\ IsFiniteSet(1..Len(b))
    BY <2>1, FS_Interval
  <2>3. free \in SUBSET Nat /\ IsFiniteSet(free)
    <3> HIDE DEF free
    <3>1. \A j \in 1..Len(b) : j \in Nat
      BY <2>1
    <3>2. QED BY <2>2, <3>1, FS_Subset
  <2>4. Seek(b, at, w) = IF free = {} THEN at ELSE Append(at, Min(free))
    BY DEF Seek
  <2> HIDE DEF free
  <2>5. free # {} => Min(free) \in Nat
    <3>1. free \in SUBSET Int
      BY <2>3
    <3>2. free # {} => Min(free) \in free
      BY <2>3, <3>1, MinIs
    <3>3. QED BY <2>3, <3>2
  <2>6. QED BY <2>4, <2>5
<1>4. step \in [X \X (1..N) -> X] /\ \A w \in X \X (1..N) : step[w] = Seek(b, w[1], a[w[2]])
  BY <1>3
<1> HIDE DEF X, x, N, step
<1>5. PICK h : LastFolded(X, x, N, step, h)
  BY <1>2, <1>4, FoldingSeq
<1>6. h = [T \in SUBSET DOMAIN a |-> IF T = {} THEN x ELSE LET m == Max(T) IN Seek(b, h[T \ {m}], a[m])]
  <2>1. \A T \in SUBSET (1..N) : h[T] = IF T = {} THEN x ELSE Seek(b, h[T \ {Max(T)}], a[Max(T)])
    BY <1>4, <1>5 DEF LastFolded
  <2>2. h = [T \in SUBSET (1..N) |-> h[T]]
    BY <1>5 DEF LastFolded
  <2>3. QED BY <1>2, <2>1, <2>2
<1>7. iter = [T \in SUBSET DOMAIN a |-> IF T = {} THEN x ELSE LET m == Max(T) IN Seek(b, iter[T \ {m}], a[m])]
  BY <1>6
<1> HIDE DEF iter
<1> DEFINE f == [k \in 0..N |-> iter[1..k]]
<1>8. f[0] = x /\ f[N] = iter[DOMAIN a]
  <2>1. 1..0 = {} /\ 0 \in 0..N /\ N \in 0..N
    BY <1>2
  <2>2. QED BY <1>2, <1>7, <2>1
<1>9. \A k \in 1..N : f[k] = Seek(b, f[k - 1], a[k])
  <2> SUFFICES ASSUME NEW k \in 1..N PROVE f[k] = Seek(b, f[k - 1], a[k])
    OBVIOUS
  <2> DEFINE D == 1..k
  <2>1. k \in 0..N /\ k - 1 \in 0..N /\ D \in SUBSET (1..N) /\ D # {} /\ Max(D) = k /\ D \ {Max(D)} = 1..(k - 1)
    BY <1>2, Within1N
  <2> HIDE DEF D
  <2>2. iter[D] = Seek(b, iter[1..(k - 1)], a[k])
    BY <1>2, <1>7, <2>1
  <2>3. QED BY <2>1, <2>2 DEF D
<1> HIDE DEF f
<1>10. QED BY <1>1, <1>8, <1>9 DEF N, x

LEMMA PutRuns ==
    ASSUME NEW s \in Seq(Int)
    PROVE  \E f : /\ f[0] = <<>> /\ LisLength(s) = Len(f[Len(s)])
                  /\ \A k \in 1..Len(s) : f[k] = Put(f[k - 1], s[k])
<1> DEFINE N == Len(s)
           X == Seq(Int)
           x == <<>>
           iter[T \in SUBSET DOMAIN s] ==
               IF T = {} THEN x ELSE LET m == Max(T) IN Put(iter[T \ {m}], s[m])
           step == [w \in X \X (1..N) |-> Put(w[1], s[w[2]])]
<1>1. LisLength(s) = Len(iter[DOMAIN s])
  BY DEF LisLength, FoldLeft, MapThenFoldSet, Put
<1>2. N \in Nat /\ x \in X /\ DOMAIN s = 1..N /\ \A k \in 1..N : s[k] \in Int
  OBVIOUS
<1>3. ASSUME NEW t \in X, NEW v \in Int PROVE Put(t, v) \in X
  <2> DEFINE at == Min({Len(t) + 1} \cup {i \in DOMAIN t : t[i] >= v})
  <2>1. Put(t, v) = IF at > Len(t) THEN Append(t, v) ELSE [t EXCEPT ![at] = v]
    BY DEF Put
  <2> HIDE DEF at
  <2>2. t \in Seq(Int) /\ v \in Int
    OBVIOUS
  <2>3. Append(t, v) \in Seq(Int)
    BY <2>2
  <2>4. [t EXCEPT ![at] = v] \in Seq(Int)
    BY <2>2, ReplacedIs
  <2>5. Put(t, v) \in Seq(Int)
    BY <2>1, <2>3, <2>4
  <2>6. QED BY <2>5
<1>4. step \in [X \X (1..N) -> X] /\ \A w \in X \X (1..N) : step[w] = Put(w[1], s[w[2]])
  BY <1>2, <1>3
<1> HIDE DEF X, x, N, step
<1>5. PICK h : LastFolded(X, x, N, step, h)
  BY <1>2, <1>4, FoldingSeq
<1>6. h = [T \in SUBSET DOMAIN s |-> IF T = {} THEN x ELSE LET m == Max(T) IN Put(h[T \ {m}], s[m])]
  <2>1. \A T \in SUBSET (1..N) : h[T] = IF T = {} THEN x ELSE Put(h[T \ {Max(T)}], s[Max(T)])
    BY <1>4, <1>5 DEF LastFolded
  <2>2. h = [T \in SUBSET (1..N) |-> h[T]]
    BY <1>5 DEF LastFolded
  <2>3. QED BY <1>2, <2>1, <2>2
<1>7. iter = [T \in SUBSET DOMAIN s |-> IF T = {} THEN x ELSE LET m == Max(T) IN Put(iter[T \ {m}], s[m])]
  BY <1>6
<1> HIDE DEF iter
<1> DEFINE f == [k \in 0..N |-> iter[1..k]]
<1>8. f[0] = x /\ f[N] = iter[DOMAIN s]
  <2>1. 1..0 = {} /\ 0 \in 0..N /\ N \in 0..N
    BY <1>2
  <2>2. QED BY <1>2, <1>7, <2>1
<1>9. \A k \in 1..N : f[k] = Put(f[k - 1], s[k])
  <2> SUFFICES ASSUME NEW k \in 1..N PROVE f[k] = Put(f[k - 1], s[k])
    OBVIOUS
  <2> DEFINE D == 1..k
  <2>1. k \in 0..N /\ k - 1 \in 0..N /\ D \in SUBSET (1..N) /\ D # {} /\ Max(D) = k /\ D \ {Max(D)} = 1..(k - 1)
    BY <1>2, Within1N
  <2> HIDE DEF D
  <2>2. iter[D] = Put(iter[1..(k - 1)], s[k])
    BY <1>2, <1>7, <2>1
  <2>3. QED BY <2>1, <2>2 DEF D
<1> HIDE DEF f
<1>10. QED BY <1>1, <1>8, <1>9 DEF N, x

\* Words in the same order, each once in b, are found there where they are.
LEMMA KinPositions ==
    ASSUME NEW a \in Seq(Int), NEW b \in Seq(Int), IsInjective(b), NEW at \in [DOMAIN a -> DOMAIN b],
           \A i \in DOMAIN a : b[at[i]] = a[i],
           \A i, j \in DOMAIN a : i < j => at[i] < at[j]
    PROVE  Positions(a, b) = at /\ at \in Seq(Int) /\ Len(at) = Len(a)
<1> DEFINE N == Len(a)
           M == Len(b)
<1>1. N \in Nat /\ DOMAIN a = 1..N /\ M \in Nat /\ DOMAIN b = 1..M
  OBVIOUS
<1>2. at = [k \in 1..N |-> at[k]] /\ \A k \in 1..N : at[k] \in 1..M /\ at[k] \in Int
  BY SMTT(30), <1>1
<1>3. at \in Seq(Int) /\ Len(at) = N
  BY <1>1, <1>2, SeqMade
<1>4. PICK f : /\ f[0] = <<>> /\ Positions(a, b) = f[N]
               /\ \A k \in 1..N : f[k] = Seek(b, f[k - 1], a[k])
  BY SeekRuns
<1>5. \A k \in 1..N : b[at[k]] = a[k]
  BY <1>1
<1>6. \A i, j \in 1..N : i < j => at[i] < at[j]
  BY <1>1
<1> HIDE DEF N, M
<1>7. ASSUME NEW k \in 1..N, f[k - 1] = First(at, k - 1) PROVE f[k] = First(at, k)
  <2> DEFINE free == {j \in DOMAIN b : b[j] = a[k] /\ j \notin ToSet(f[k - 1])}
  <2>1. /\ DOMAIN f[k - 1] = 1..(k - 1) /\ \A i \in 1..(k - 1) : f[k - 1][i] = at[i]
        /\ First(at, k) = Append(f[k - 1], at[k])
    <3>1. k \in 1..Len(at)
      BY <1>3
    <3> DEFINE g == First(at, k - 1)
    <3>2. /\ DOMAIN g = 1..(k - 1) /\ \A i \in 1..(k - 1) : g[i] = at[i]
          /\ First(at, k) = Append(g, at[k])
      BY ZenonT(30), <1>3, <3>1, FirstIs
    <3>3. f[k - 1] = g
      BY <1>7
    <3> HIDE DEF g
    <3>4. QED BY <3>2, <3>3
  <2>2. at[k] \notin ToSet(f[k - 1])
    <3> SUFFICES ASSUME NEW i \in 1..(k - 1), at[i] = at[k] PROVE FALSE
      BY <2>1 DEF ToSet
    <3>1. i \in 1..N /\ i < k
      BY <1>1
    <3>2. at[i] < at[k] /\ at[i] \in Int /\ at[k] \in Int
      BY <1>2, <1>6, <3>1
    <3>3. QED BY <3>2
  <2>3. at[k] \in free
    BY <1>1, <1>2, <1>5, <2>2
  <2>4. \A j \in free : j = at[k]
    BY <1>1, <1>2, <1>5 DEF IsInjective
  <2>5. free = {at[k]}
    BY <2>3, <2>4
  <2>6. Seek(b, f[k - 1], a[k]) = IF free = {} THEN f[k - 1] ELSE Append(f[k - 1], Min(free))
    BY DEF Seek
  <2> HIDE DEF free
  <2>7. Min(free) = at[k]
    <3>1. IsFiniteSet({at[k]})
      BY FS_Singleton
    <3>2. {at[k]} \in SUBSET Int /\ {at[k]} # {}
      BY <1>2
    <3>3. Min({at[k]}) \in {at[k]}
      BY <3>1, <3>2, MinIs
    <3>4. QED BY <2>5, <3>3
  <2>8. QED BY <1>4, <2>1, <2>3, <2>6, <2>7
<1>8. f[0] = First(at, 0)
  BY <1>4 DEF First
<1>9. f[N] = First(at, N)
  <2> DEFINE T == {k \in 0..N : f[k] = First(at, k)}
  <2>1. 0 \in T
    BY <1>1, <1>8
  <2>2. \A k \in 1..N : k - 1 \in T => k \in T
    <3>1. \A k \in 1..N : k \in 0..N
      BY <1>1
    <3>2. QED BY <1>7, <3>1
  <2> HIDE DEF T
  <2>3. \A k \in 0..N : k \in T
    BY <1>1, <2>1, <2>2, UpTo
  <2>4. N \in T
    BY <1>1, <2>3
  <2>5. QED BY <2>4 DEF T
<1>10. First(at, N) = at
  BY <1>2 DEF First
<1>11. QED BY <1>3, <1>4, <1>9, <1>10 DEF N

LEMMA GrowingLis ==
    ASSUME NEW s \in Seq(Int), \A i, j \in DOMAIN s : i < j => s[i] < s[j]
    PROVE  LisLength(s) = Len(s)
<1> DEFINE N == Len(s)
<1>1. N \in Nat /\ DOMAIN s = 1..N /\ \A k \in 1..N : s[k] \in Int
  OBVIOUS
<1>2. PICK f : /\ f[0] = <<>> /\ LisLength(s) = Len(f[N])
               /\ \A k \in 1..N : f[k] = Put(f[k - 1], s[k])
  BY PutRuns
<1>3. ASSUME NEW k \in 1..N, f[k - 1] = First(s, k - 1) PROVE f[k] = First(s, k)
  <2> DEFINE t == f[k - 1]
             over == {i \in DOMAIN t : t[i] >= s[k]}
             S == {Len(t) + 1} \cup over
  <2>1. /\ Len(t) = k - 1 /\ DOMAIN t = 1..(k - 1) /\ \A i \in 1..(k - 1) : t[i] = s[i]
        /\ First(s, k) = Append(t, s[k])
    <3>1. k \in 1..Len(s)
      OBVIOUS
    <3> DEFINE g == First(s, k - 1)
    <3>2. /\ Len(g) = k - 1 /\ DOMAIN g = 1..(k - 1) /\ \A i \in 1..(k - 1) : g[i] = s[i]
          /\ First(s, k) = Append(g, s[k])
      BY ZenonT(30), <3>1, FirstIs
    <3>3. t = g
      BY <1>3
    <3> HIDE DEF g, t
    <3>4. QED BY <3>2, <3>3
  <2>2. f[k] = LET at == Min(S) IN IF at > Len(t) THEN Append(t, s[k]) ELSE [t EXCEPT ![at] = s[k]]
    BY <1>2 DEF Put
  <2> HIDE DEF t
  <2>3. over = {}
    <3> SUFFICES ASSUME NEW i \in 1..(k - 1), t[i] >= s[k] PROVE FALSE
      BY <2>1
    <3>1. i \in DOMAIN s /\ i < k /\ k \in DOMAIN s
      BY <1>1
    <3>2. s[i] < s[k] /\ s[i] \in Int /\ s[k] \in Int /\ t[i] = s[i]
      BY <1>1, <2>1, <3>1
    <3>3. QED BY <3>2
  <2>4. S = {k}
    BY <1>1, <2>1, <2>3
  <2> HIDE DEF S
  <2>5. Min(S) = k
    <3>0. k \in Int
      BY <1>1
    <3>1. IsFiniteSet({k})
      BY FS_Singleton
    <3>3. {k} \in SUBSET Int /\ {k} # {}
      BY <3>0
    <3>2. Min({k}) \in {k}
      BY <3>1, <3>3, MinIs
    <3>4. QED BY <2>4, <3>2
  <2>6. k > Len(t)
    BY <1>1, <2>1
  <2>7. QED BY <2>1, <2>2, <2>5, <2>6
<1>4. f[0] = First(s, 0)
  BY <1>2 DEF First
<1> HIDE DEF N
<1>5. f[N] = First(s, N)
  <2> DEFINE T == {k \in 0..N : f[k] = First(s, k)}
  <2>1. 0 \in T
    BY <1>1, <1>4
  <2>2. \A k \in 1..N : k - 1 \in T => k \in T
    <3>1. \A k \in 1..N : k \in 0..N
      BY <1>1
    <3>2. QED BY <1>3, <3>1
  <2> HIDE DEF T
  <2>3. \A k \in 0..N : k \in T
    BY <1>1, <2>1, <2>2, UpTo
  <2>4. N \in T
    BY <1>1, <2>3
  <2>5. QED BY <2>4 DEF T
<1>6. First(s, N) = s
  <2>1. s = [k \in 1..N |-> s[k]]
    BY <1>1
  <2>2. QED BY <2>1 DEF First
<1>7. QED BY <1>2, <1>5, <1>6 DEF N

LEMMA KinIsConsistent ==
    ASSUME NEW a \in Seq(Int), NEW b \in Seq(Int), IsInjective(b), Kin(a, b)
    PROVE  Consistent(a, b)
<1>1. PICK at \in [DOMAIN a -> DOMAIN b] : /\ \A i \in DOMAIN a : b[at[i]] = a[i]
                                          /\ \A i, j \in DOMAIN a : i < j => at[i] < at[j]
  BY DEF Kin
<1>2. Positions(a, b) = at /\ at \in Seq(Int) /\ Len(at) = Len(a)
  BY <1>1, KinPositions
<1>3. DOMAIN at = DOMAIN a
  BY <1>1
<1>4. LisLength(at) = Len(at)
  BY <1>1, <1>2, <1>3, GrowingLis
<1> DEFINE m == Len(a)
<1>5. m \in Nat /\ LisLength(Positions(a, b)) = m
  BY <1>2, <1>4
<1> HIDE DEF m
<1>6. 100 * m >= 95 * m
  BY <1>5
<1>7. QED BY <1>5, <1>6 DEF Consistent, m

\* An element that can be read again: with a text it has a box and words.
Readable(e) == "text" \in DOMAIN e /\ (e.text # <<>> /\ e.box # NoBox => Said(e))

\* A fused text keeps every word of the old one.
KeepsAll(old, new, spoken) ==
    ToSet(new) \subseteq ToSet(old) \cup spoken /\ Plausible(new) /\ ToSet(old) \subseteq ToSet(new)
\* A reordered one loses little, and nothing the second engine read.
KeepsMost(old, new, spoken) ==
    /\ ToSet(new) \subseteq ToSet(old) \cup spoken /\ Plausible(new)
    /\ (ToSet(old) \ ToSet(new)) \cap spoken = {}
    /\ 10 * Cardinality(ToSet(old) \ ToSet(new)) <= 3 * Len(old)
    /\ IsInjective(new) => ~ Kin(old, new)

LEMMA FusedIs ==
    ASSUME NEW e, Readable(e), NEW second \in Heard, Fused(e, second).text # e.text
    PROVE  KeepsAll(e.text, Fused(e, second).text, Spoken(second, Readings(second, e.box)))
<1> DEFINE t == FusedText(e, second)
<1>1. Fused(e, second) # e
  OBVIOUS
<1>2. /\ e.text # <<>> /\ e.box # NoBox /\ Plausible(t)
      /\ Fused(e, second) = [e EXCEPT !.text = t]
  BY <1>1 DEF Fused
<1>3. Fused(e, second).text = t
  BY <1>2 DEF Readable
<1>4. Said(e)
  BY <1>2 DEF Readable
<1>5. /\ ToSet(e.text) \subseteq ToSet(t)
      /\ ToSet(t) \subseteq ToSet(e.text) \cup Spoken(second, Readings(second, e.box))
  BY <1>4, FusedTextIs
<1> HIDE DEF t
<1>6. QED BY <1>2, <1>3, <1>5 DEF KeepsAll

LEMMA FewWords == ASSUME NEW s \in Seq(Int)
                  PROVE  IsFiniteSet(ToSet(s)) /\ Cardinality(ToSet(s)) <= Len(s) /\ Len(s) \in Nat
<1> DEFINE N == Len(s)
           f == [k \in 1..N |-> s[k]]
<1>1. N \in Nat /\ DOMAIN s = 1..N /\ IsFiniteSet(1..N) /\ Cardinality(1..N) = N
  <2>1. N \in Nat /\ DOMAIN s = 1..N
    OBVIOUS
  <2> HIDE DEF N
  <2>2. IsFiniteSet(1..N) /\ Cardinality(1..N) = IF 1 > N THEN 0 ELSE N - 1 + 1
    BY <2>1, FS_Interval
  <2>3. QED BY <2>1, <2>2
<1>2. ToSet(s) = {s[k] : k \in 1..N}
  BY <1>1 DEF ToSet
<1> HIDE DEF N
<1>3. f \in Surjection(1..N, ToSet(s))
  BY <1>2 DEF Surjection
<1>4. IsFiniteSet(ToSet(s)) /\ Cardinality(ToSet(s)) <= Cardinality(1..N)
  BY <1>1, <1>3, FS_Surjection
<1>5. QED BY <1>1, <1>4 DEF N

LEMMA FewLost ==
    ASSUME NEW a \in Seq(Int), NEW b \in Seq(Int), a # <<>>, AtLeast(Jaccard(ToSet(a), ToSet(b)), 7)
    PROVE  10 * Cardinality(ToSet(a) \ ToSet(b)) <= 3 * Len(a)
<1> DEFINE A == ToSet(a)
           B == ToSet(b)
           I == A \cap B
           U == A \cup B
           n0 == Len(a)
           nA == Cardinality(A)
           nI == Cardinality(I)
           nU == Cardinality(U)
           nD == Cardinality(A \ B)
<1>1. IsFiniteSet(A) /\ IsFiniteSet(B) /\ nA <= n0 /\ n0 \in Nat
  BY FewWords
<1>2. IsFiniteSet(U) /\ IsFiniteSet(I) /\ IsFiniteSet(A \ B)
  BY <1>1, FS_Union, FS_Intersection, FS_Difference
<1>3. nA \in Nat /\ nI \in Nat /\ nU \in Nat /\ nD \in Nat
  BY <1>1, <1>2, FS_CardinalityType
<1>4. nD = nA - nI
  BY <1>1, FS_Difference
<1>5. nA <= nU
  BY <1>2, FS_Subset
<1>6. U # {}
  <2>1. a[1] \in A
    BY DEF ToSet
  <2>2. QED BY <2>1
<1>7. 10 * nI >= 7 * nU
  <2>1. AtLeast(Jaccard(A, B), 7)
    OBVIOUS
  <2>2. Jaccard(A, B) = <<nI, nU>>
    BY <1>6 DEF Jaccard
  <2> HIDE DEF nI, nU, A, B, U
  <2>3. QED BY <2>1, <2>2 DEF AtLeast
<1> HIDE DEF n0, nA, nI, nU, nD
<1>8. 10 * nD <= 3 * n0
  BY <1>1, <1>3, <1>4, <1>5, <1>7
<1>9. QED BY <1>8 DEF nD, n0

LEMMA ReorderedIs ==
    ASSUME NEW e, Readable(e), NEW second \in Heard, Reordered(e, second).text # e.text
    PROVE  KeepsMost(e.text, Reordered(e, second).text, Spoken(second, Readings(second, e.box)))
<1> DEFINE t == Reconstruction(e, second)
           spoken == Spoken(second, Readings(second, e.box))
<1>1. Reordered(e, second) # e
  OBVIOUS
<1>2. /\ e.text # <<>> /\ e.box # NoBox /\ Plausible(t) /\ ~ Consistent(e.text, t)
      /\ AtLeast(Jaccard(ToSet(e.text), ToSet(t)), 7)
      /\ Reordered(e, second) = [e EXCEPT !.text = t]
  BY <1>1 DEF Reordered
<1>3. Reordered(e, second).text = t
  BY <1>2 DEF Readable
<1>4. Said(e)
  BY <1>2 DEF Readable
<1>5. t \in Seq(Int) /\ ToSet(t) = spoken
  BY ReconstructionIs
<1>6. e.text \in Seq(Int)
  BY <1>4 DEF Said
<1> HIDE DEF t, spoken
<1>7. 10 * Cardinality(ToSet(e.text) \ ToSet(t)) <= 3 * Len(e.text)
  BY <1>2, <1>5, <1>6, FewLost
<1>8. IsInjective(t) => ~ Kin(e.text, t)
  BY <1>2, <1>5, <1>6, KinIsConsistent
<1>9. ToSet(t) \subseteq ToSet(e.text) \cup spoken /\ (ToSet(e.text) \ ToSet(t)) \cap spoken = {}
  BY <1>5
<1>10. QED BY <1>2, <1>3, <1>7, <1>8, <1>9 DEF KeepsMost, spoken

(***************************************************************************)
(* The orders of page assembly.                                            *)
(***************************************************************************)
\* The key of Bands.
DownwardKey(s, i) == <<s[i].box.y0, s[i].box.x0, i>>
DownwardAt(s, S, m) ==
    CHOOSE v \in S : Cardinality({d \in S : Less(DownwardKey(s, d), DownwardKey(s, v))}) = m - 1
Downward(s, S) == [m \in 1..Cardinality(S) |-> DownwardAt(s, S, m)]

LEMMA DownwardIs ==
    ASSUME NEW s, NEW S \in SUBSET Int, IsFiniteSet(S), \A i \in S : s[i].box \in Bounding
    PROVE  Lists(Downward(s, S), S)
<1> DEFINE q == Downward(s, S)
           K == [i \in S |-> <<s[i].box.y0, s[i].box.x0, i>>]
<1>1. \A i \in S : s[i].box.y0 \in Int /\ s[i].box.x0 \in Int /\ i \in Int
  BY DEF Bounding
<1>2. Keys(S, K)
  <2>1. K \in [S -> Int \X Int \X Int]
    BY <1>1
  <2>2. \A i \in S : K[i][3] = i
    OBVIOUS
  <2> HIDE DEF K
  <2>3. QED BY <2>1, <2>2 DEF Keys
<1>3. ASSUME NEW d \in S, NEW v \in S PROVE Less(DownwardKey(s, d), DownwardKey(s, v)) <=> Less(K[d], K[v])
  BY DEF DownwardKey
<1> HIDE DEF K
<1>4. ASSUME NEW v \in S PROVE Cardinality({d \in S : Less(DownwardKey(s, d), DownwardKey(s, v))}) = Below(S, K, v)
  <2>1. {d \in S : Less(DownwardKey(s, d), DownwardKey(s, v))} = {d \in S : Less(K[d], K[v])}
    BY <1>3
  <2>2. QED BY <2>1 DEF Below
<1>5. ASSUME NEW m \in 1..Cardinality(S), \E v \in S : Below(S, K, v) = m - 1
      PROVE  q[m] \in S /\ Below(S, K, q[m]) = m - 1
  <2>1. q[m] = CHOOSE v \in S : Cardinality({d \in S : Less(DownwardKey(s, d), DownwardKey(s, v))}) = m - 1
    BY DEF Downward, DownwardAt
  <2>2. \E v \in S : Cardinality({d \in S : Less(DownwardKey(s, d), DownwardKey(s, v))}) = m - 1
    BY <1>4, <1>5
  <2> HIDE DEF q
  <2>3. q[m] \in S /\ Cardinality({d \in S : Less(DownwardKey(s, d), DownwardKey(s, q[m]))}) = m - 1
    BY <2>1, <2>2
  <2>4. QED BY <1>4, <2>3
<1>6. q = [m \in 1..Cardinality(S) |-> q[m]]
  BY DEF Downward
<1> HIDE DEF q
<1>7. Sorting(q, S, K)
  BY <1>5, <1>6 DEF Sorting
<1>8. Lists(q, S) /\ Enumerates(q, S, Keyed(S, K))
  BY <1>2, <1>7, SortedIs
<1>9. QED BY <1>8 DEF q

\* A printed line from left to right, as in InLines.
RightwardKey(s, i) == <<s[i].box.x0, s[i].box.y0, i>>
RightwardAt(s, S, m) ==
    CHOOSE v \in S : Cardinality({d \in S : Less(RightwardKey(s, d), RightwardKey(s, v))}) = m - 1
Rightward(s, S) == [m \in 1..Cardinality(S) |-> RightwardAt(s, S, m)]

LEMMA RightwardIs ==
    ASSUME NEW s, NEW S \in SUBSET Int, IsFiniteSet(S), \A i \in S : s[i].box \in Bounding
    PROVE  Lists(Rightward(s, S), S)
<1> DEFINE q == Rightward(s, S)
           K == [i \in S |-> <<s[i].box.x0, s[i].box.y0, i>>]
<1>1. \A i \in S : s[i].box.x0 \in Int /\ s[i].box.y0 \in Int /\ i \in Int
  BY DEF Bounding
<1>2. Keys(S, K)
  <2>1. K \in [S -> Int \X Int \X Int]
    BY <1>1
  <2>2. \A i \in S : K[i][3] = i
    OBVIOUS
  <2> HIDE DEF K
  <2>3. QED BY <2>1, <2>2 DEF Keys
<1>3. ASSUME NEW d \in S, NEW v \in S PROVE Less(RightwardKey(s, d), RightwardKey(s, v)) <=> Less(K[d], K[v])
  BY DEF RightwardKey
<1> HIDE DEF K
<1>4. ASSUME NEW v \in S PROVE Cardinality({d \in S : Less(RightwardKey(s, d), RightwardKey(s, v))}) = Below(S, K, v)
  <2>1. {d \in S : Less(RightwardKey(s, d), RightwardKey(s, v))} = {d \in S : Less(K[d], K[v])}
    BY <1>3
  <2>2. QED BY <2>1 DEF Below
<1>5. ASSUME NEW m \in 1..Cardinality(S), \E v \in S : Below(S, K, v) = m - 1
      PROVE  q[m] \in S /\ Below(S, K, q[m]) = m - 1
  <2>1. q[m] = CHOOSE v \in S : Cardinality({d \in S : Less(RightwardKey(s, d), RightwardKey(s, v))}) = m - 1
    BY DEF Rightward, RightwardAt
  <2>2. \E v \in S : Cardinality({d \in S : Less(RightwardKey(s, d), RightwardKey(s, v))}) = m - 1
    BY <1>4, <1>5
  <2> HIDE DEF q
  <2>3. q[m] \in S /\ Cardinality({d \in S : Less(RightwardKey(s, d), RightwardKey(s, q[m]))}) = m - 1
    BY <2>1, <2>2
  <2>4. QED BY <1>4, <2>3
<1>6. q = [m \in 1..Cardinality(S) |-> q[m]]
  BY DEF Rightward
<1> HIDE DEF q
<1>7. Sorting(q, S, K)
  BY <1>5, <1>6 DEF Sorting
<1>8. Lists(q, S) /\ Enumerates(q, S, Keyed(S, K))
  BY <1>2, <1>7, SortedIs
<1>9. QED BY <1>8 DEF q


-----------------------------------------------------------------------------
(***************************************************************************)
(* Printed lines: each token is in one band.                               *)
(***************************************************************************)
Tokens == Seq([box : Bounding, ink : {"word", "mark", "none"}])
Strip == [nth : Nat, box : Bounding, ids : SUBSET Int]

LEMMA TokensAre ==
    ASSUME NEW tok \in Tokens
    PROVE  /\ DOMAIN tok = 1..Len(tok) /\ Len(tok) \in Nat /\ IsFiniteSet(DOMAIN tok)
           /\ DOMAIN tok \in SUBSET Int
           /\ \A i \in DOMAIN tok : tok[i].box \in Bounding
<1>1. /\ Len(tok) \in Nat /\ DOMAIN tok = 1..Len(tok)
      /\ \A i \in DOMAIN tok : tok[i] \in [box : Bounding, ink : {"word", "mark", "none"}]
  BY SeqHas DEF Tokens
<1>2. IsFiniteSet(1..Len(tok))
  BY <1>1, FS_Interval
<1>3. \A i \in 1..Len(tok) : i \in Int
  BY <1>1
<1>4. QED BY <1>1, <1>2, <1>3

LEMMA HullIs ==
    ASSUME NEW S \in SUBSET Bounding, IsFiniteSet(S), S # {}
    PROVE  /\ Hull(S) \in Bounding
           /\ \A b \in S : /\ Hull(S).x0 <= b.x0 /\ Hull(S).y0 <= b.y0
                           /\ b.x1 <= Hull(S).x1 /\ b.y1 <= Hull(S).y1
           /\ (\E b \in S : Hull(S).x0 = b.x0) /\ (\E b \in S : Hull(S).y0 = b.y0)
           /\ (\E b \in S : Hull(S).x1 = b.x1) /\ (\E b \in S : Hull(S).y1 = b.y1)
<1> DEFINE X0 == {b.x0 : b \in S}
           Y0 == {b.y0 : b \in S}
           X1 == {b.x1 : b \in S}
           Y1 == {b.y1 : b \in S}
<1>1. /\ X0 \in SUBSET Int /\ X0 # {} /\ Y0 \in SUBSET Int /\ Y0 # {}
      /\ X1 \in SUBSET Int /\ X1 # {} /\ Y1 \in SUBSET Int /\ Y1 # {}
  BY DEF Bounding
<1>2. IsFiniteSet(X0)
  <2> DEFINE g == [b \in S |-> b.x0]
  <2>1. X0 = {g[b] : b \in S}
    OBVIOUS
  <2> HIDE DEF g
  <2>2. QED BY <2>1, ImageIsFinite
<1>3. IsFiniteSet(Y0)
  <2> DEFINE g == [b \in S |-> b.y0]
  <2>1. Y0 = {g[b] : b \in S}
    OBVIOUS
  <2> HIDE DEF g
  <2>2. QED BY <2>1, ImageIsFinite
<1>4. IsFiniteSet(X1)
  <2> DEFINE g == [b \in S |-> b.x1]
  <2>1. X1 = {g[b] : b \in S}
    OBVIOUS
  <2> HIDE DEF g
  <2>2. QED BY <2>1, ImageIsFinite
<1>5. IsFiniteSet(Y1)
  <2> DEFINE g == [b \in S |-> b.y1]
  <2>1. Y1 = {g[b] : b \in S}
    OBVIOUS
  <2> HIDE DEF g
  <2>2. QED BY <2>1, ImageIsFinite
<1>6. Hull(S) = [x0 |-> Min(X0), y0 |-> Min(Y0), x1 |-> Max(X1), y1 |-> Max(Y1)]
  BY DEF Hull, Box
<1>7. \A b \in S : b.x0 \in X0 /\ b.y0 \in Y0 /\ b.x1 \in X1 /\ b.y1 \in Y1
  OBVIOUS
<1>8. /\ \A v \in X0 : \E b \in S : v = b.x0
      /\ \A v \in Y0 : \E b \in S : v = b.y0
      /\ \A v \in X1 : \E b \in S : v = b.x1
      /\ \A v \in Y1 : \E b \in S : v = b.y1
  OBVIOUS
<1> HIDE DEF X0, Y0, X1, Y1
<1>9. Min(X0) \in X0 /\ (\A v \in X0 : Min(X0) <= v) /\ Min(Y0) \in Y0 /\ \A v \in Y0 : Min(Y0) <= v
  BY <1>1, <1>2, <1>3, MinIs
<1>10. Max(X1) \in X1 /\ (\A v \in X1 : v <= Max(X1)) /\ Max(Y1) \in Y1 /\ \A v \in Y1 : v <= Max(Y1)
  BY <1>1, <1>4, <1>5, MaxIs
<1>11. Hull(S) \in Bounding
  <2>1. Min(X0) \in Int /\ Min(Y0) \in Int /\ Max(X1) \in Int /\ Max(Y1) \in Int
    BY <1>1, <1>9, <1>10
  <2>2. QED BY <1>6, <2>1 DEF Bounding
<1>12. \A b \in S : /\ Hull(S).x0 <= b.x0 /\ Hull(S).y0 <= b.y0
                    /\ b.x1 <= Hull(S).x1 /\ b.y1 <= Hull(S).y1
  BY <1>6, <1>7, <1>9, <1>10
<1>13. QED BY <1>6, <1>8, <1>9, <1>10, <1>11, <1>12

\* What a token does to the bands.
Onto(tok, bands, i) ==
    LET fits == {k \in DOMAIN bands : SameLine(bands[k].box, tok[i].box)}
    IN  IF fits = {} THEN Append(bands, [nth |-> Len(bands), box |-> tok[i].box, ids |-> {i}])
        ELSE [bands EXCEPT ![Min(fits)].box = Hull({@, tok[i].box}), ![Min(fits)].ids = @ \cup {i}]
BandList(tok, q) ==
    LET join(bands, i) ==
            LET fits == {k \in DOMAIN bands : SameLine(bands[k].box, tok[i].box)}
            IN  IF fits = {} THEN Append(bands, [nth |-> Len(bands), box |-> tok[i].box, ids |-> {i}])
                ELSE [bands EXCEPT ![Min(fits)].box = Hull({@, tok[i].box}), ![Min(fits)].ids = @ \cup {i}]
    IN  FoldLeft(join, <<>>, q)
Extended(bands, r, i) ==
    /\ Len(r) = Len(bands) + 1 /\ \A k \in DOMAIN bands : r[k] = bands[k]
    /\ r[Len(bands) + 1].nth = Len(bands) /\ r[Len(bands) + 1].ids = {i}
Widened(bands, r, i, m) ==
    /\ Len(r) = Len(bands) /\ \A k \in DOMAIN bands : k # m => r[k] = bands[k]
    /\ m \in DOMAIN bands /\ r[m].nth = bands[m].nth /\ r[m].ids = bands[m].ids \cup {i}

LEMMA OntoIs ==
    ASSUME NEW tok, NEW bands \in Seq(Strip), NEW i \in Int, tok[i].box \in Bounding
    PROVE  /\ Onto(tok, bands, i) \in Seq(Strip)
           /\ Extended(bands, Onto(tok, bands, i), i) \/ \E m : Widened(bands, Onto(tok, bands, i), i, m)
<1> DEFINE fits == {k \in DOMAIN bands : SameLine(bands[k].box, tok[i].box)}
           N == Len(bands)
           new == [nth |-> N, box |-> tok[i].box, ids |-> {i}]
<1>1. N \in Nat /\ DOMAIN bands = 1..N /\ \A k \in 1..N : bands[k] \in Strip
  BY SeqHas
<1>2. CASE fits = {}
  <2>1. Onto(tok, bands, i) = Append(bands, new)
    BY <1>2 DEF Onto
  <2>2. new \in Strip /\ new.nth = N /\ new.ids = {i}
    BY <1>1 DEF Strip
  <2> DEFINE r == Append(bands, new)
  <2> HIDE DEF new
  <2>3. r \in Seq(Strip) /\ Len(r) = N + 1 /\ (\A k \in 1..N : r[k] = bands[k]) /\ r[N + 1] = new
    BY <1>1, <2>2
  <2> HIDE DEF r
  <2>4. Extended(bands, r, i)
    BY <1>1, <2>2, <2>3 DEF Extended
  <2>5. QED BY <2>1, <2>3, <2>4 DEF r
<1>3. CASE fits # {}
  <2> DEFINE m == Min(fits)
             old == bands[m]
             put == [[old EXCEPT !.box = Hull({@, tok[i].box})] EXCEPT !.ids = @ \cup {i}]
             r == [bands EXCEPT ![m] = put]
  <2>1. m \in 1..N
    <3>1. fits \in SUBSET (1..N) /\ IsFiniteSet(1..N)
      BY <1>1, FS_Interval
    <3>2. IsFiniteSet(fits)
      BY <3>1, FS_Subset
    <3>3. fits \in SUBSET Int
      BY <1>1, <3>1
    <3> HIDE DEF fits
    <3>4. Min(fits) \in fits
      BY <1>3, <3>2, <3>3, MinIs
    <3>5. QED BY <3>1, <3>4
  <2>2. Onto(tok, bands, i) = [bands EXCEPT ![Min(fits)].box = Hull({@, tok[i].box}), ![Min(fits)].ids = @ \cup {i}]
    BY <1>3 DEF Onto
  <2> HIDE DEF fits
  <2>3. Onto(tok, bands, i) = r
    BY ZenonT(30), <1>1, <2>1, <2>2
  <2>4. old \in Strip
    BY <1>1, <2>1
  <2> HIDE DEF m
  <2>5. Hull({old.box, tok[i].box}) \in Bounding
    <3>1. {old.box, tok[i].box} \in SUBSET Bounding /\ {old.box, tok[i].box} # {}
      BY <2>4 DEF Strip
    <3>2. IsFiniteSet({old.box, tok[i].box})
      <4>1. IsFiniteSet({old.box}) /\ IsFiniteSet({tok[i].box})
        BY FS_Singleton
      <4>2. {old.box, tok[i].box} = {old.box} \cup {tok[i].box}
        OBVIOUS
      <4>3. QED BY ZenonT(30), <4>1, <4>2, FS_Union
    <3>3. QED BY <3>1, <3>2, HullIs
  <2>6. put.nth = old.nth /\ put.ids = old.ids \cup {i} /\ put.box = Hull({old.box, tok[i].box}) /\ put \in Strip
    <3> DEFINE hull == Hull({old.box, tok[i].box})
    <3>1. hull \in Bounding
      BY <2>5
    <3> HIDE DEF hull
    <3>2. put = [old EXCEPT !.box = hull, !.ids = @ \cup {i}]
      BY <2>4 DEF hull, Strip
    <3> HIDE DEF put, old
    <3>3. QED BY <2>4, <3>1, <3>2 DEF Strip, hull
  <2> HIDE DEF put
  <2>7. r = [k \in 1..N |-> IF k = m THEN put ELSE bands[k]]
    BY <1>1
  <2>8. r = [k \in 1..N |-> r[k]] /\ \A k \in 1..N : r[k] \in Strip
    BY <1>1, <2>6, <2>7
  <2>9. r[m] = put /\ \A k \in 1..N : k # m => r[k] = bands[k]
    BY <2>1, <2>7 DEF m
  <2> HIDE DEF r
  <2>10. r \in Seq(Strip) /\ Len(r) = N
    BY <1>1, <2>8, SeqMade
  <2>11. Widened(bands, r, i, m)
    <3>1. m \in 1..N
      BY <2>1 DEF m
    <3>2. QED BY <1>1, <2>6, <2>9, <2>10, <3>1 DEF Widened, old
  <2>12. QED BY <2>3, <2>10, <2>11
<1>4. QED BY <1>2, <1>3
LEMMA BandRuns ==
    ASSUME NEW tok, NEW S \in SUBSET Int, \A i \in S : tok[i].box \in Bounding, NEW q \in Seq(S)
    PROVE  \E f : /\ f[0] = <<>> /\ BandList(tok, q) = f[Len(q)]
                  /\ \A k \in 1..Len(q) : f[k] = Onto(tok, f[k - 1], q[k])
<1> DEFINE N == Len(q)
           X == Seq(Strip)
           x == <<>>
           iter[T \in SUBSET DOMAIN q] ==
               IF T = {} THEN x ELSE LET m == Max(T) IN Onto(tok, iter[T \ {m}], q[m])
           step == [w \in X \X (1..N) |-> Onto(tok, w[1], q[w[2]])]
<1>1. BandList(tok, q) = iter[DOMAIN q]
  BY DEF BandList, Onto, FoldLeft, MapThenFoldSet
<1>2. N \in Nat /\ x \in X /\ DOMAIN q = 1..N /\ \A k \in 1..N : q[k] \in S
  OBVIOUS
<1>3. ASSUME NEW acc \in X, NEW v \in S PROVE Onto(tok, acc, v) \in X
  BY OntoIs
<1>4. step \in [X \X (1..N) -> X] /\ \A w \in X \X (1..N) : step[w] = Onto(tok, w[1], q[w[2]])
  BY <1>2, <1>3
<1> HIDE DEF X, x, N, step
<1>5. PICK h : LastFolded(X, x, N, step, h)
  BY <1>2, <1>4, FoldingSeq
<1>6. h = [T \in SUBSET DOMAIN q |-> IF T = {} THEN x ELSE LET m == Max(T) IN Onto(tok, h[T \ {m}], q[m])]
  <2>1. \A T \in SUBSET (1..N) : h[T] = IF T = {} THEN x ELSE Onto(tok, h[T \ {Max(T)}], q[Max(T)])
    BY <1>4, <1>5 DEF LastFolded
  <2>2. h = [T \in SUBSET (1..N) |-> h[T]]
    BY <1>5 DEF LastFolded
  <2>3. QED BY <1>2, <2>1, <2>2
<1>7. iter = [T \in SUBSET DOMAIN q |-> IF T = {} THEN x ELSE LET m == Max(T) IN Onto(tok, iter[T \ {m}], q[m])]
  BY <1>6
<1> HIDE DEF iter
<1> DEFINE f == [k \in 0..N |-> iter[1..k]]
<1>8. f[0] = x /\ f[N] = iter[DOMAIN q]
  <2>1. 1..0 = {} /\ 0 \in 0..N /\ N \in 0..N
    BY <1>2
  <2>2. QED BY <1>2, <1>7, <2>1
<1>9. \A k \in 1..N : f[k] = Onto(tok, f[k - 1], q[k])
  <2> SUFFICES ASSUME NEW k \in 1..N PROVE f[k] = Onto(tok, f[k - 1], q[k])
    OBVIOUS
  <2> DEFINE D == 1..k
  <2>1. k \in 0..N /\ k - 1 \in 0..N /\ D \in SUBSET (1..N) /\ D # {} /\ Max(D) = k /\ D \ {Max(D)} = 1..(k - 1)
    BY <1>2, Within1N
  <2> HIDE DEF D
  <2>2. iter[D] = Onto(tok, iter[1..(k - 1)], q[k])
    BY <1>2, <1>7, <2>1
  <2>3. QED BY <2>1, <2>2 DEF D
<1> HIDE DEF f
<1>10. QED BY <1>1, <1>8, <1>9 DEF N, x

\* The bands of the tokens D: numbered, each token in one.
BandInv(bands, D) ==
    /\ bands \in Seq(Strip)
    /\ \A k \in DOMAIN bands : bands[k].nth = k - 1 /\ bands[k].ids \subseteq D /\ bands[k].ids # {}
    /\ \A x \in D : \E k \in DOMAIN bands : x \in bands[k].ids
    /\ \A k, m \in DOMAIN bands : \A x : x \in bands[k].ids /\ x \in bands[m].ids => k = m

LEMMA OntoKeeps ==
    ASSUME NEW tok, NEW bands, NEW D, BandInv(bands, D), NEW i \in Int, i \notin D, tok[i].box \in Bounding
    PROVE  BandInv(Onto(tok, bands, i), D \cup {i})
<1> DEFINE r == Onto(tok, bands, i)
           N == Len(bands)
           M == Len(r)
<1>1. /\ bands \in Seq(Strip)
      /\ \A k \in DOMAIN bands : bands[k].nth = k - 1 /\ bands[k].ids \subseteq D /\ bands[k].ids # {}
      /\ \A x \in D : \E k \in DOMAIN bands : x \in bands[k].ids
      /\ \A k, m \in DOMAIN bands : \A x : x \in bands[k].ids /\ x \in bands[m].ids => k = m
  BY DEF BandInv
<1>2. /\ r \in Seq(Strip)
      /\ Extended(bands, r, i) \/ \E m : Widened(bands, r, i, m)
  BY <1>1, OntoIs
<1>3. N \in Nat /\ DOMAIN bands = 1..N
  BY <1>1, SeqHas
<1> HIDE DEF r
<1>4. M \in Nat /\ DOMAIN r = 1..M
  BY <1>2, SeqHas
<1>5. CASE Extended(bands, r, i)
  <2>1. M = N + 1 /\ (\A k \in 1..N : r[k] = bands[k]) /\ r[N + 1].nth = N /\ r[N + 1].ids = {i}
    BY <1>3, <1>5 DEF Extended
  <2> HIDE DEF N, M
  <2>2. \A k \in 1..M : k \in 1..N \/ k = N + 1
    BY <1>3, <2>1
  <2>3. N + 1 \in 1..M /\ \A k \in 1..N : k \in 1..M
    BY <1>3, <2>1
  <2>4. \A k \in 1..M : r[k].nth = k - 1 /\ r[k].ids \subseteq D \cup {i} /\ r[k].ids # {}
    <3> SUFFICES ASSUME NEW k \in 1..M PROVE r[k].nth = k - 1 /\ r[k].ids \subseteq D \cup {i} /\ r[k].ids # {}
      OBVIOUS
    <3>1. CASE k \in 1..N
      BY <1>1, <1>3, <2>1, <3>1
    <3>2. CASE k = N + 1
      BY <1>3, <2>1, <3>2
    <3>3. QED BY <2>2, <3>1, <3>2
  <2>5. \A x \in D \cup {i} : \E k \in 1..M : x \in r[k].ids
    <3>1. i \in r[N + 1].ids
      BY <2>1
    <3>2. ASSUME NEW x \in D PROVE \E k \in 1..M : x \in r[k].ids
      <4>1. PICK k \in 1..N : x \in bands[k].ids
        BY <1>1, <1>3
      <4>2. QED BY <2>1, <2>3, <4>1
    <3>3. QED BY <2>3, <3>1, <3>2
  <2>6. ASSUME NEW k \in 1..M, NEW m \in 1..M, NEW x, x \in r[k].ids, x \in r[m].ids PROVE k = m
    <3>1. \A j \in 1..N : i \notin r[j].ids
      BY <1>1, <1>3, <2>1
    <3>2. CASE k = N + 1
      <4>1. x = i
        BY <2>1, <2>6, <3>2
      <4>2. m \notin 1..N
        BY <2>6, <3>1, <4>1
      <4>3. QED BY <2>2, <3>2, <4>2
    <3>3. CASE m = N + 1
      <4>1. x = i
        BY <2>1, <2>6, <3>3
      <4>2. k \notin 1..N
        BY <2>6, <3>1, <4>1
      <4>3. QED BY <2>2, <3>3, <4>2
    <3>4. CASE k \in 1..N /\ m \in 1..N
      BY <1>1, <1>3, <2>1, <2>6, <3>4
    <3>5. QED BY <2>2, <3>2, <3>3, <3>4
  <2>7. QED BY <1>2, <1>4, <2>4, <2>5, <2>6 DEF BandInv, r
<1>6. CASE \E m : Widened(bands, r, i, m)
  <2>1. PICK m : Widened(bands, r, i, m)
    BY <1>6
  <2>2. /\ M = N /\ m \in 1..N /\ \A k \in 1..N : k # m => r[k] = bands[k]
        /\ r[m].nth = bands[m].nth /\ r[m].ids = bands[m].ids \cup {i}
    BY <1>3, <2>1 DEF Widened
  <2> HIDE DEF N, M
  <2>3. \A k \in 1..N : r[k].nth = k - 1 /\ r[k].ids \subseteq D \cup {i} /\ r[k].ids # {}
    <3> SUFFICES ASSUME NEW k \in 1..N PROVE r[k].nth = k - 1 /\ r[k].ids \subseteq D \cup {i} /\ r[k].ids # {}
      OBVIOUS
    <3>1. CASE k = m
      BY <1>1, <1>3, <2>2, <3>1
    <3>2. CASE k # m
      BY <1>1, <1>3, <2>2, <3>2
    <3>3. QED BY <3>1, <3>2
  <2>4. \A x \in D \cup {i} : \E k \in 1..N : x \in r[k].ids
    <3>1. i \in r[m].ids
      BY <2>2
    <3>2. ASSUME NEW x \in D PROVE \E k \in 1..N : x \in r[k].ids
      <4>1. PICK k \in 1..N : x \in bands[k].ids
        BY <1>1, <1>3
      <4>2. QED BY <2>2, <4>1
    <3>3. QED BY <2>2, <3>1, <3>2
  <2>5. ASSUME NEW k \in 1..N, NEW j \in 1..N, NEW x, x \in r[k].ids, x \in r[j].ids PROVE k = j
    <3>1. \A l \in 1..N : x \in r[l].ids => IF x = i THEN l = m ELSE x \in bands[l].ids
      <4> SUFFICES ASSUME NEW l \in 1..N, x \in r[l].ids PROVE IF x = i THEN l = m ELSE x \in bands[l].ids
        OBVIOUS
      <4>1. CASE l = m
        BY <2>2, <4>1
      <4>2. CASE l # m
        <5>1. x \in bands[l].ids
          BY <2>2, <4>2
        <5>2. x # i
          BY <1>1, <1>3, <5>1
        <5>3. QED BY <5>1, <5>2
      <4>3. QED BY <4>1, <4>2
    <3>2. CASE x = i
      BY <2>5, <3>1, <3>2
    <3>3. CASE x # i
      BY <1>1, <1>3, <2>5, <3>1, <3>3
    <3>4. QED BY <3>2, <3>3
  <2>6. QED BY <1>2, <1>4, <2>2, <2>3, <2>4, <2>5 DEF BandInv, r
<1>7. QED BY <1>2, <1>5, <1>6

\* What the first k of a list are.
Passed(q, k) == {q[j] : j \in 1..k}

LEMMA PassedAre ==
    ASSUME NEW S, NEW q, Lists(q, S)
    PROVE  /\ Len(q) \in Nat /\ DOMAIN q = 1..Len(q) /\ q \in Seq(S)
           /\ Passed(q, 0) = {} /\ Passed(q, Len(q)) = S
           /\ \A k \in 1..Len(q) : /\ Passed(q, k) = Passed(q, k - 1) \cup {q[k]}
                                   /\ q[k] \notin Passed(q, k - 1) /\ q[k] \in S
<1> DEFINE N == Len(q)
<1>1. /\ N \in Nat /\ DOMAIN q = 1..N /\ q \in Seq(S)
      /\ \A e \in S : \E i \in 1..N : q[i] = e
      /\ \A i, j \in 1..N : q[i] = q[j] => i = j
  BY DEF Lists
<1>2. \A k \in 1..N : q[k] \in S
  BY <1>1
<1> HIDE DEF N
<1>3. Passed(q, 0) = {}
  <2>1. 1..0 = {}
    OBVIOUS
  <2>2. QED BY <2>1 DEF Passed
<1>4. Passed(q, N) = S
  BY <1>1, <1>2 DEF Passed
<1>5. ASSUME NEW k \in 1..N
      PROVE  Passed(q, k) = Passed(q, k - 1) \cup {q[k]} /\ q[k] \notin Passed(q, k - 1)
  <2>1. k \in Nat /\ 1..k = 1..(k - 1) \cup {k} /\ \A j \in 1..(k - 1) : j \in 1..N /\ j # k
    BY <1>1
  <2>2. \A j \in 1..(k - 1) : q[j] # q[k]
    BY <1>1, <2>1
  <2>3. QED BY <2>1, <2>2 DEF Passed
<1>6. QED BY <1>1, <1>2, <1>3, <1>4, <1>5 DEF N

LEMMA BandsAre ==
    ASSUME NEW tok \in Tokens, NEW S \in SUBSET DOMAIN tok
    PROVE  \E bands : BandInv(bands, S) /\ Bands(tok, S) = ToSet(bands)
<1> DEFINE q == Downward(tok, S)
           N == Len(q)
<1>1. Bands(tok, S) = ToSet(BandList(tok, q))
  BY DEF Bands, BandList, Ordered, Downward, DownwardAt, DownwardKey
<1>2. IsFiniteSet(S) /\ S \in SUBSET Int /\ \A i \in S : tok[i].box \in Bounding
  <2>1. IsFiniteSet(S)
    BY TokensAre, FS_Subset
  <2>2. QED BY <2>1, TokensAre
<1>3. Lists(q, S)
  BY <1>2, DownwardIs
<1> HIDE DEF q
<1>4. /\ N \in Nat /\ q \in Seq(S)
      /\ Passed(q, 0) = {} /\ Passed(q, N) = S
      /\ \A k \in 1..N : /\ Passed(q, k) = Passed(q, k - 1) \cup {q[k]}
                         /\ q[k] \notin Passed(q, k - 1) /\ q[k] \in S
  BY <1>3, PassedAre
<1>5. PICK f : /\ f[0] = <<>> /\ BandList(tok, q) = f[N]
               /\ \A k \in 1..N : f[k] = Onto(tok, f[k - 1], q[k])
  <2>1. S \in SUBSET Int /\ \A i \in S : tok[i].box \in Bounding
    BY <1>2
  <2>2. q \in Seq(S)
    BY <1>4
  <2>3. \E f : /\ f[0] = <<>> /\ BandList(tok, q) = f[Len(q)]
               /\ \A k \in 1..Len(q) : f[k] = Onto(tok, f[k - 1], q[k])
    BY <2>1, <2>2, BandRuns
  <2>4. QED BY <2>3
<1> HIDE DEF N
<1>6. BandInv(f[N], S)
  <2> DEFINE T == {k \in 0..N : BandInv(f[k], Passed(q, k))}
  <2>1. 0 \in T
    <3>1. BandInv(<<>>, {})
      BY DEF BandInv
    <3>2. 0 \in 0..N
      BY <1>4
    <3>3. QED BY <1>4, <1>5, <3>1, <3>2
  <2>2. ASSUME NEW k \in 1..N, k - 1 \in T PROVE k \in T
    <3>1. BandInv(f[k - 1], Passed(q, k - 1))
      BY <2>2
    <3>2. q[k] \in S /\ q[k] \notin Passed(q, k - 1) /\ Passed(q, k) = Passed(q, k - 1) \cup {q[k]}
      BY <1>4
    <3>3. q[k] \in Int /\ tok[q[k]].box \in Bounding
      BY <1>2, <3>2
    <3>4. BandInv(Onto(tok, f[k - 1], q[k]), Passed(q, k - 1) \cup {q[k]})
      BY <3>1, <3>2, <3>3, OntoKeeps
    <3>5. BandInv(f[k], Passed(q, k)) /\ k \in 0..N
      BY <1>4, <1>5, <3>2, <3>4
    <3>6. QED BY <3>5
  <2> HIDE DEF T
  <2>3. \A k \in 0..N : k \in T
    BY <1>4, <2>1, <2>2, UpTo
  <2>4. N \in T
    BY <1>4, <2>3
  <2>5. QED BY <1>4, <2>4 DEF T
<1>7. QED BY <1>1, <1>5, <1>6

\* Bands from the top, as in InLines.
FromTopBandKey(b) == <<b.box.y0, b.nth>>
FromTopBandAt(S, m) ==
    CHOOSE v \in S : Cardinality({d \in S : Less(FromTopBandKey(d), FromTopBandKey(v))}) = m - 1
FromTopBand(S) == [m \in 1..Cardinality(S) |-> FromTopBandAt(S, m)]

LEMMA FromTopBandIs ==
    ASSUME NEW S, IsFiniteSet(S), S \in SUBSET Strip, \A b, c \in S : b.nth = c.nth => b = c
    PROVE  Lists(FromTopBand(S), S)
<1> DEFINE q == FromTopBand(S)
           K == [b \in S |-> <<b.box.y0, b.nth, 0>>]
<1>1. \A b \in S : b.box.y0 \in Int /\ b.nth \in Int
  BY DEF Strip, Bounding
<1>2. Keys(S, K)
  <2>1. K \in [S -> Int \X Int \X Int]
    BY <1>1
  <2>2. \A b \in S : K[b][2] = b.nth
    OBVIOUS
  <2> HIDE DEF K
  <2>3. \A b, j \in S : b.nth = j.nth => b = j
    OBVIOUS
  <2>4. QED BY <2>1, <2>2, <2>3 DEF Keys
<1>3. ASSUME NEW d \in S, NEW v \in S PROVE Less(FromTopBandKey(d), FromTopBandKey(v)) <=> Less(K[d], K[v])
  <2> DEFINE a1 == d.box.y0  a2 == d.nth
             b1 == v.box.y0  b2 == v.nth
  <2>1. a1 \in Int /\ b1 \in Int /\ a2 \in Int /\ b2 \in Int
    BY <1>1
  <2>2. /\ FromTopBandKey(d) = <<a1, a2>> /\ FromTopBandKey(v) = <<b1, b2>>
        /\ K[d] = <<a1, a2, 0>> /\ K[v] = <<b1, b2, 0>>
    BY DEF FromTopBandKey
  <2> HIDE DEF K, a1, b1, a2, b2
  <2>3. QED BY <2>1, <2>2, LessTwo
<1> HIDE DEF K
<1>4. ASSUME NEW v \in S PROVE Cardinality({d \in S : Less(FromTopBandKey(d), FromTopBandKey(v))}) = Below(S, K, v)
  <2>1. {d \in S : Less(FromTopBandKey(d), FromTopBandKey(v))} = {d \in S : Less(K[d], K[v])}
    BY <1>3
  <2>2. QED BY <2>1 DEF Below
<1>5. ASSUME NEW m \in 1..Cardinality(S), \E v \in S : Below(S, K, v) = m - 1
      PROVE  q[m] \in S /\ Below(S, K, q[m]) = m - 1
  <2>1. q[m] = CHOOSE v \in S : Cardinality({d \in S : Less(FromTopBandKey(d), FromTopBandKey(v))}) = m - 1
    BY DEF FromTopBand, FromTopBandAt
  <2>2. \E v \in S : Cardinality({d \in S : Less(FromTopBandKey(d), FromTopBandKey(v))}) = m - 1
    BY <1>4, <1>5
  <2> HIDE DEF q
  <2>3. q[m] \in S /\ Cardinality({d \in S : Less(FromTopBandKey(d), FromTopBandKey(q[m]))}) = m - 1
    BY <2>1, <2>2
  <2>4. QED BY <1>4, <2>3
<1>6. q = [m \in 1..Cardinality(S) |-> q[m]]
  BY DEF FromTopBand
<1> HIDE DEF q
<1>7. Sorting(q, S, K)
  BY <1>5, <1>6 DEF Sorting
<1>8. Lists(q, S) /\ Enumerates(q, S, Keyed(S, K))
  BY <1>2, <1>7, SortedIs
<1>9. QED BY <1>8 DEF q

\* Bands from the top, as in Blocks.
DownBandKey(b) == <<b.box.y0, b.box.x0, b.nth>>
DownBandAt(S, m) ==
    CHOOSE v \in S : Cardinality({d \in S : Less(DownBandKey(d), DownBandKey(v))}) = m - 1
DownBand(S) == [m \in 1..Cardinality(S) |-> DownBandAt(S, m)]

LEMMA DownBandIs ==
    ASSUME NEW S, IsFiniteSet(S), S \in SUBSET Strip, \A b, c \in S : b.nth = c.nth => b = c
    PROVE  Lists(DownBand(S), S)
<1> DEFINE q == DownBand(S)
           K == [b \in S |-> <<b.box.y0, b.box.x0, b.nth>>]
<1>1. \A b \in S : b.box.y0 \in Int /\ b.box.x0 \in Int /\ b.nth \in Int
  BY DEF Strip, Bounding
<1>2. Keys(S, K)
  <2>1. K \in [S -> Int \X Int \X Int]
    BY <1>1
  <2>2. \A b \in S : K[b][3] = b.nth
    OBVIOUS
  <2> HIDE DEF K
  <2>3. \A b, j \in S : b.nth = j.nth => b = j
    OBVIOUS
  <2>4. QED BY <2>1, <2>2, <2>3 DEF Keys
<1>3. ASSUME NEW d \in S, NEW v \in S PROVE Less(DownBandKey(d), DownBandKey(v)) <=> Less(K[d], K[v])
  BY DEF DownBandKey
<1> HIDE DEF K
<1>4. ASSUME NEW v \in S PROVE Cardinality({d \in S : Less(DownBandKey(d), DownBandKey(v))}) = Below(S, K, v)
  <2>1. {d \in S : Less(DownBandKey(d), DownBandKey(v))} = {d \in S : Less(K[d], K[v])}
    BY <1>3
  <2>2. QED BY <2>1 DEF Below
<1>5. ASSUME NEW m \in 1..Cardinality(S), \E v \in S : Below(S, K, v) = m - 1
      PROVE  q[m] \in S /\ Below(S, K, q[m]) = m - 1
  <2>1. q[m] = CHOOSE v \in S : Cardinality({d \in S : Less(DownBandKey(d), DownBandKey(v))}) = m - 1
    BY DEF DownBand, DownBandAt
  <2>2. \E v \in S : Cardinality({d \in S : Less(DownBandKey(d), DownBandKey(v))}) = m - 1
    BY <1>4, <1>5
  <2> HIDE DEF q
  <2>3. q[m] \in S /\ Cardinality({d \in S : Less(DownBandKey(d), DownBandKey(q[m]))}) = m - 1
    BY <2>1, <2>2
  <2>4. QED BY <1>4, <2>3
<1>6. q = [m \in 1..Cardinality(S) |-> q[m]]
  BY DEF DownBand
<1> HIDE DEF q
<1>7. Sorting(q, S, K)
  BY <1>5, <1>6 DEF Sorting
<1>8. Lists(q, S) /\ Enumerates(q, S, Keyed(S, K))
  BY <1>2, <1>7, SortedIs
<1>9. QED BY <1>8 DEF q

\* Two lists of disjoint sets, one after the other.
LEMMA ListsJoin ==
    ASSUME NEW A, NEW B, NEW s, Lists(s, A), NEW t, Lists(t, B), \A x \in A : x \notin B
    PROVE  Lists(s \o t, A \cup B)
<1> DEFINE u == s \o t
           E == A \cup B
           m == Len(s)
           l == Len(t)
<1>1. /\ s \in Seq(E) /\ DOMAIN s = 1..m /\ m \in Nat /\ \A i \in 1..m : s[i] \in A
      /\ t \in Seq(E) /\ DOMAIN t = 1..l /\ l \in Nat /\ \A i \in 1..l : t[i] \in B
  <2>1. s \in Seq(A) /\ t \in Seq(B)
    BY DEF Lists
  <2>2. QED BY <2>1
<1>2. /\ u \in Seq(E) /\ Len(u) = m + l
      /\ \A i \in 1..m : u[i] = s[i]
      /\ \A i \in 1..l : u[m + i] = t[i]
  BY <1>1, ConcatIs
<1>3. /\ \A e \in A : \E i \in 1..m : s[i] = e
      /\ \A i, j \in 1..m : s[i] = s[j] => i = j
      /\ \A e \in B : \E i \in 1..l : t[i] = e
      /\ \A i, j \in 1..l : t[i] = t[j] => i = j
  BY DEF Lists
<1> HIDE DEF u, m, l
<1>4. DOMAIN u = 1..Len(u) /\ Len(u) \in Nat
  BY <1>2, SeqHas
<1>5. \A e \in E : \E i \in 1..(m + l) : u[i] = e
  <2>1. ASSUME NEW e \in A PROVE \E i \in 1..(m + l) : u[i] = e
    <3>1. PICK i \in 1..m : s[i] = e
      BY <1>3
    <3>2. i \in 1..(m + l)
      BY <1>1
    <3>3. QED BY <1>2, <3>1, <3>2
  <2>2. ASSUME NEW e \in B PROVE \E i \in 1..(m + l) : u[i] = e
    <3>1. PICK i \in 1..l : t[i] = e
      BY <1>3
    <3>2. m + i \in 1..(m + l)
      BY <1>1
    <3>3. QED BY <1>2, <3>1, <3>2
  <2>3. QED BY <2>1, <2>2
<1>6. ASSUME NEW i \in 1..(m + l)
      PROVE  \/ i \in 1..m /\ u[i] = s[i] /\ u[i] \in A
             \/ i - m \in 1..l /\ u[i] = t[i - m] /\ u[i] \in B
  <2>1. CASE i \in 1..m
    BY <1>1, <1>2, <2>1
  <2>2. CASE i \notin 1..m
    <3>1. i - m \in 1..l /\ m + (i - m) = i
      BY <1>1, <2>2
    <3>2. QED BY <1>1, <1>2, <3>1
  <2>3. QED BY <2>1, <2>2
<1>7. ASSUME NEW i \in 1..(m + l), NEW j \in 1..(m + l), u[i] = u[j] PROVE i = j
  <2>1. CASE u[i] \in A
    <3>1. i \in 1..m /\ j \in 1..m /\ s[i] = s[j]
      BY <1>6, <1>7, <2>1
    <3>2. QED BY <1>3, <3>1
  <2>2. CASE u[i] \in B
    <3>1. i - m \in 1..l /\ j - m \in 1..l /\ t[i - m] = t[j - m]
      BY <1>6, <1>7, <2>2
    <3>2. i - m = j - m
      BY <1>3, <3>1
    <3>3. QED BY <1>1, <3>2
  <2>3. QED BY <1>6, <2>1, <2>2
<1>8. Lists(u, E)
  BY <1>2, <1>4, <1>5, <1>7 DEF Lists
<1>9. QED BY <1>8 DEF u

\* The bands as a set.
BandSet(B, S) ==
    /\ B \in SUBSET Strip /\ IsFiniteSet(B) /\ \A b, c \in B : b.nth = c.nth => b = c
    /\ \A b \in B : b.ids \in SUBSET S
    /\ \A x \in S : \E b \in B : x \in b.ids
    /\ \A b, c \in B : \A x : x \in b.ids /\ x \in c.ids => b = c

LEMMA BandSetIs ==
    ASSUME NEW tok \in Tokens, NEW S \in SUBSET DOMAIN tok
    PROVE  BandSet(Bands(tok, S), S)
<1> DEFINE B == Bands(tok, S)
<1>1. PICK bands : BandInv(bands, S) /\ B = ToSet(bands)
  BY BandsAre
<1>2. /\ bands \in Seq(Strip)
      /\ \A k \in DOMAIN bands : bands[k].nth = k - 1 /\ bands[k].ids \in SUBSET S
      /\ \A x \in S : \E k \in DOMAIN bands : x \in bands[k].ids
      /\ \A k, m \in DOMAIN bands : \A x : x \in bands[k].ids /\ x \in bands[m].ids => k = m
  BY <1>1 DEF BandInv
<1> DEFINE N == Len(bands)
<1>3. N \in Nat /\ DOMAIN bands = 1..N /\ \A k \in 1..N : bands[k] \in Strip
  BY <1>2, SeqHas
<1>4. \A b : b \in B <=> \E k \in 1..N : b = bands[k]
  BY <1>1, <1>3 DEF ToSet
<1>5. B = {bands[k] : k \in 1..N}
  BY <1>4
<1>6. IsFiniteSet(B)
  <2>1. IsFiniteSet(1..N)
    BY <1>3, FS_Interval
  <2>2. QED BY <1>5, <2>1, ImageIsFinite
<1> HIDE DEF B, N
<1>7. B \in SUBSET Strip
  BY <1>3, <1>4
<1>8. ASSUME NEW b \in B, NEW c \in B, b.nth = c.nth PROVE b = c
  <2>1. PICK k \in 1..N : b = bands[k]
    BY <1>4
  <2>2. PICK m \in 1..N : c = bands[m]
    BY <1>4
  <2>3. k - 1 = m - 1 /\ k \in Int /\ m \in Int
    BY <1>2, <1>3, <1>8, <2>1, <2>2
  <2>4. QED BY <2>1, <2>2, <2>3
<1>9. ASSUME NEW b \in B, NEW c \in B, NEW x, x \in b.ids, x \in c.ids PROVE b = c
  <2>1. PICK k \in 1..N : b = bands[k]
    BY <1>4
  <2>2. PICK m \in 1..N : c = bands[m]
    BY <1>4
  <2>3. QED BY <1>2, <1>3, <1>9, <2>1, <2>2
<1>10. \A b \in B : b.ids \in SUBSET S
  BY <1>2, <1>3, <1>4
<1>11. \A x \in S : \E b \in B : x \in b.ids
  BY <1>2, <1>3, <1>4
<1>12. BandSet(B, S)
  BY <1>6, <1>7, <1>8, <1>9, <1>10, <1>11 DEF BandSet
<1>13. QED BY <1>12 DEF B

\* The lines of bands, one after the other.
WithLine(tok, out, b) == out \o Rightward(tok, b.ids)
LineList(tok, q) == LET read(out, b) == out \o Rightward(tok, b.ids) IN FoldLeft(read, <<>>, q)

LEMMA RightwardHas ==
    ASSUME NEW tok \in Tokens, NEW R \in SUBSET DOMAIN tok
    PROVE  Lists(Rightward(tok, R), R) /\ Rightward(tok, R) \in Seq(Int)
<1>1. IsFiniteSet(R) /\ R \in SUBSET Int /\ \A i \in R : tok[i].box \in Bounding
  BY TokensAre, FS_Subset
<1>2. Lists(Rightward(tok, R), R)
  BY <1>1, RightwardIs
<1>3. Rightward(tok, R) \in Seq(R)
  BY <1>2 DEF Lists
<1>4. QED BY <1>1, <1>2, <1>3

LEMMA JoinedLine ==
    ASSUME NEW tok \in Tokens, NEW out \in Seq(Int), NEW b, b.ids \in SUBSET DOMAIN tok
    PROVE  WithLine(tok, out, b) \in Seq(Int)
<1>1. Rightward(tok, b.ids) \in Seq(Int)
  BY RightwardHas
<1>2. QED BY <1>1, ConcatIs DEF WithLine

LEMMA LineRuns ==
    ASSUME NEW tok \in Tokens, NEW B, \A b \in B : b.ids \in SUBSET DOMAIN tok, NEW q \in Seq(B)
    PROVE  \E f : /\ f[0] = <<>> /\ LineList(tok, q) = f[Len(q)]
                  /\ \A k \in 1..Len(q) : f[k] = WithLine(tok, f[k - 1], q[k])
<1> DEFINE N == Len(q)
           X == Seq(Int)
           x == <<>>
           iter[T \in SUBSET DOMAIN q] ==
               IF T = {} THEN x ELSE LET m == Max(T) IN WithLine(tok, iter[T \ {m}], q[m])
           step == [w \in X \X (1..N) |-> WithLine(tok, w[1], q[w[2]])]
<1>1. LineList(tok, q) = iter[DOMAIN q]
  BY DEF LineList, WithLine, FoldLeft, MapThenFoldSet
<1>2. N \in Nat /\ x \in X /\ DOMAIN q = 1..N /\ \A k \in 1..N : q[k] \in B
  OBVIOUS
<1>3. ASSUME NEW acc \in X, NEW v \in B PROVE WithLine(tok, acc, v) \in X
  BY JoinedLine
<1>4. step \in [X \X (1..N) -> X] /\ \A w \in X \X (1..N) : step[w] = WithLine(tok, w[1], q[w[2]])
  BY <1>2, <1>3
<1> HIDE DEF X, x, N, step
<1>5. PICK h : LastFolded(X, x, N, step, h)
  BY <1>2, <1>4, FoldingSeq
<1>6. h = [T \in SUBSET DOMAIN q |-> IF T = {} THEN x ELSE LET m == Max(T) IN WithLine(tok, h[T \ {m}], q[m])]
  <2>1. \A T \in SUBSET (1..N) : h[T] = IF T = {} THEN x ELSE WithLine(tok, h[T \ {Max(T)}], q[Max(T)])
    BY <1>4, <1>5 DEF LastFolded
  <2>2. h = [T \in SUBSET (1..N) |-> h[T]]
    BY <1>5 DEF LastFolded
  <2>3. QED BY <1>2, <2>1, <2>2
<1>7. iter = [T \in SUBSET DOMAIN q |-> IF T = {} THEN x ELSE LET m == Max(T) IN WithLine(tok, iter[T \ {m}], q[m])]
  BY <1>6
<1> HIDE DEF iter
<1> DEFINE f == [k \in 0..N |-> iter[1..k]]
<1>8. f[0] = x /\ f[N] = iter[DOMAIN q]
  <2>1. 1..0 = {} /\ 0 \in 0..N /\ N \in 0..N
    BY <1>2
  <2>2. QED BY <1>2, <1>7, <2>1
<1>9. \A k \in 1..N : f[k] = WithLine(tok, f[k - 1], q[k])
  <2> SUFFICES ASSUME NEW k \in 1..N PROVE f[k] = WithLine(tok, f[k - 1], q[k])
    OBVIOUS
  <2> DEFINE D == 1..k
  <2>1. k \in 0..N /\ k - 1 \in 0..N /\ D \in SUBSET (1..N) /\ D # {} /\ Max(D) = k /\ D \ {Max(D)} = 1..(k - 1)
    BY <1>2, Within1N
  <2> HIDE DEF D
  <2>2. iter[D] = WithLine(tok, iter[1..(k - 1)], q[k])
    BY <1>2, <1>7, <2>1
  <2>3. QED BY <2>1, <2>2 DEF D
<1> HIDE DEF f
<1>10. QED BY <1>1, <1>8, <1>9 DEF N, x

LEMMA InLinesIs ==
    ASSUME NEW tok \in Tokens, NEW S \in SUBSET DOMAIN tok
    PROVE  Lists(InLines(tok, S), S) /\ InLines(tok, S) \in Seq(Int)
<1> DEFINE B == Bands(tok, S)
           q == FromTopBand(B)
           N == Len(q)
<1>1. InLines(tok, S) = LineList(tok, q)
  BY DEF InLines, LineList, Ordered, FromTopBand, FromTopBandAt, FromTopBandKey, Rightward, RightwardAt, RightwardKey
<1>2. BandSet(B, S)
  BY BandSetIs
<1> HIDE DEF B
<1>3. /\ B \in SUBSET Strip /\ IsFiniteSet(B) /\ \A b, c \in B : b.nth = c.nth => b = c
      /\ \A b \in B : b.ids \in SUBSET S
      /\ \A x \in S : \E b \in B : x \in b.ids
      /\ \A b, c \in B : \A x : x \in b.ids /\ x \in c.ids => b = c
  BY <1>2 DEF BandSet
<1>4. Lists(q, B)
  BY <1>3, FromTopBandIs
<1> HIDE DEF q
<1>5. /\ N \in Nat /\ q \in Seq(B)
      /\ Passed(q, 0) = {} /\ Passed(q, N) = B
      /\ \A k \in 1..N : /\ Passed(q, k) = Passed(q, k - 1) \cup {q[k]}
                         /\ q[k] \notin Passed(q, k - 1) /\ q[k] \in B
  BY <1>4, PassedAre
<1>6. PICK f : /\ f[0] = <<>> /\ LineList(tok, q) = f[N]
               /\ \A k \in 1..N : f[k] = WithLine(tok, f[k - 1], q[k])
  <2>1. q \in Seq(B) /\ \A b \in B : b.ids \in SUBSET DOMAIN tok
    BY <1>3, <1>5
  <2>2. \E f : /\ f[0] = <<>> /\ LineList(tok, q) = f[Len(q)]
               /\ \A k \in 1..Len(q) : f[k] = WithLine(tok, f[k - 1], q[k])
    BY <2>1, LineRuns
  <2>3. QED BY <2>2
<1> HIDE DEF N
<1> DEFINE U(k) == UNION {b.ids : b \in Passed(q, k)}
           T == {k \in 0..N : Passed(q, k) \in SUBSET B /\ Lists(f[k], U(k))}
<1>7. 0 \in T
  <2>1. U(0) = {}
    BY <1>5
  <2>2. Lists(<<>>, {})
    BY DEF Lists
  <2>3. Passed(q, 0) \in SUBSET B /\ 0 \in 0..N
    BY <1>5
  <2>4. QED BY <1>6, <2>1, <2>2, <2>3
<1>8. ASSUME NEW k \in 1..N, k - 1 \in T PROVE k \in T
  <2> DEFINE P == Passed(q, k - 1)
             b == q[k]
  <2>1. P \in SUBSET B /\ Lists(f[k - 1], U(k - 1))
    BY <1>8
  <2>2. b \in B /\ b \notin P /\ Passed(q, k) = P \cup {b}
    BY <1>5
  <2>3. Lists(Rightward(tok, b.ids), b.ids)
    <3>1. b.ids \in SUBSET DOMAIN tok
      BY <1>3, <2>2
    <3>2. QED BY <3>1, RightwardHas
  <2>4. \A x \in U(k - 1) : x \notin b.ids
    <3> SUFFICES ASSUME NEW x \in U(k - 1), x \in b.ids PROVE FALSE
      OBVIOUS
    <3>1. PICK c \in P : x \in c.ids
      OBVIOUS
    <3>2. c \in B /\ c = b
      BY <1>3, <2>1, <2>2, <3>1
    <3>3. QED BY <2>2, <3>1, <3>2
  <2>5. U(k) = U(k - 1) \cup b.ids
    <3>1. Passed(q, k) = P \cup {b}
      BY <2>2
    <3> DEFINE W == Passed(q, k)
    <3>2. U(k) = UNION {c.ids : c \in W}
      OBVIOUS
    <3> HIDE DEF W
    <3>3. W = P \cup {b}
      BY <3>1 DEF W
    <3>4. UNION {c.ids : c \in P \cup {b}} = (UNION {c.ids : c \in P}) \cup b.ids
      OBVIOUS
    <3>5. QED BY <3>2, <3>3, <3>4
  <2> HIDE DEF U
  <2>6. Lists(f[k - 1] \o Rightward(tok, b.ids), U(k - 1) \cup b.ids)
    BY <2>1, <2>3, <2>4, ListsJoin
  <2>7. f[k] = f[k - 1] \o Rightward(tok, b.ids)
    BY <1>6 DEF WithLine
  <2>8. Lists(f[k], U(k))
    BY <2>5, <2>6, <2>7
  <2>9. k \in 0..N /\ Passed(q, k) \in SUBSET B
    BY <1>5, <2>1, <2>2
  <2>10. QED BY <2>8, <2>9
<1> HIDE DEF T
<1>9. N \in T
  <2>1. \A k \in 0..N : k \in T
    BY <1>5, <1>7, <1>8, UpTo
  <2>2. QED BY <1>5, <2>1
<1>10. U(N) = S
  <2>1. U(N) = UNION {b.ids : b \in B}
    BY <1>5
  <2>2. QED BY <1>3, <2>1
<1>11. Lists(f[N], S)
  BY <1>9, <1>10 DEF T
<1>12. Lists(InLines(tok, S), S)
  BY <1>1, <1>6, <1>11
<1>13. InLines(tok, S) \in Seq(Int)
  <2>1. InLines(tok, S) \in Seq(S)
    BY <1>12 DEF Lists
  <2>2. S \in SUBSET Int
    BY TokensAre
  <2>3. QED BY <2>1, <2>2
<1>14. QED BY <1>12, <1>13

(***************************************************************************)
(* Blocks of lines: each token is in one, once.                            *)
(***************************************************************************)
Paragraph == [tail : Bounding, ids : Seq(Int)]
Follows(p, b) == /\ AlongX(p, b.box) > 0
                 /\ 2 * (b.box.y0 - p.y1) <= 3 * Max({Tall(p), Tall(b.box), 1})
Onward(tok, blocks, b) ==
    IF blocks # <<>> /\ Follows(Last(blocks).tail, b)
    THEN [blocks EXCEPT ![Len(blocks)] = [tail |-> b.box, ids |-> @.ids \o InLines(tok, b.ids)]]
    ELSE Append(blocks, [tail |-> b.box, ids |-> InLines(tok, b.ids)])
BlockList(tok, q) ==
    LET follows(p, b) == /\ AlongX(p, b.box) > 0
                         /\ 2 * (b.box.y0 - p.y1) <= 3 * Max({Tall(p), Tall(b.box), 1})
        join(blocks, b) ==
            IF blocks # <<>> /\ follows(Last(blocks).tail, b)
            THEN [blocks EXCEPT ![Len(blocks)] =
                    [tail |-> b.box, ids |-> @.ids \o InLines(tok, b.ids)]]
            ELSE Append(blocks, [tail |-> b.box, ids |-> InLines(tok, b.ids)])
    IN  FoldLeft(join, <<>>, q)

\* A line starts a block, or goes on with the last.
Started(blocks, r, L) ==
    /\ Len(r) = Len(blocks) + 1 /\ \A k \in DOMAIN blocks : r[k] = blocks[k]
    /\ r[Len(blocks) + 1].ids = L
Continued(blocks, r, L) ==
    /\ Len(r) = Len(blocks) /\ Len(blocks) \in DOMAIN blocks
    /\ \A k \in DOMAIN blocks : k # Len(blocks) => r[k] = blocks[k]
    /\ r[Len(blocks)].ids = blocks[Len(blocks)].ids \o L

LEMMA OnwardIs ==
    ASSUME NEW tok \in Tokens, NEW blocks \in Seq(Paragraph), NEW b \in Strip, b.ids \in SUBSET DOMAIN tok
    PROVE  /\ Onward(tok, blocks, b) \in Seq(Paragraph)
           /\ \/ Started(blocks, Onward(tok, blocks, b), InLines(tok, b.ids))
              \/ Continued(blocks, Onward(tok, blocks, b), InLines(tok, b.ids))
<1> DEFINE N == Len(blocks)
           L == InLines(tok, b.ids)
           new == [tail |-> b.box, ids |-> L]
           old == blocks[N]
           put == [tail |-> b.box, ids |-> old.ids \o L]
           go == blocks # <<>> /\ Follows(Last(blocks).tail, b)
<1>1. N \in Nat /\ DOMAIN blocks = 1..N /\ \A k \in 1..N : blocks[k] \in Paragraph
  BY SeqHas
<1>2. L \in Seq(Int) /\ b.box \in Bounding
  BY InLinesIs DEF Strip
<1>3. Onward(tok, blocks, b) = IF go THEN [blocks EXCEPT ![N] = put] ELSE Append(blocks, new)
  BY DEF Onward
<1>4. go => N \in 1..N
  BY <1>1
<1> HIDE DEF go, L
<1>5. CASE ~ go
  <2>1. new \in Paragraph /\ new.ids = L
    BY <1>2 DEF Paragraph
  <2> DEFINE r == Append(blocks, new)
  <2> HIDE DEF new
  <2>2. r \in Seq(Paragraph) /\ Len(r) = N + 1 /\ (\A k \in 1..N : r[k] = blocks[k]) /\ r[N + 1] = new
    BY <1>1, <2>1
  <2> HIDE DEF r
  <2>3. Started(blocks, r, L)
    BY <1>1, <2>1, <2>2 DEF Started
  <2>4. QED BY <1>3, <1>5, <2>2, <2>3 DEF r, L
<1>6. CASE go
  <2>1. N \in 1..N /\ old \in Paragraph
    BY <1>1, <1>4, <1>6
  <2>2. old.ids \o L \in Seq(Int)
    <3>1. old.ids \in Seq(Int)
      BY <2>1 DEF Paragraph
    <3>2. QED BY <1>2, <3>1, ConcatIs
  <2>3. put \in Paragraph /\ put.ids = old.ids \o L
    <3> DEFINE w == old.ids \o L
    <3>1. w \in Seq(Int)
      BY <2>2
    <3> HIDE DEF w
    <3>2. [tail |-> b.box, ids |-> w] \in Paragraph
      BY <1>2, <3>1 DEF Paragraph
    <3>3. QED BY <3>2 DEF w
  <2> DEFINE r == [blocks EXCEPT ![N] = put]
  <2> HIDE DEF put
  <2>4. r = [k \in 1..N |-> IF k = N THEN put ELSE blocks[k]]
    BY <1>1
  <2>5. r = [k \in 1..N |-> r[k]] /\ \A k \in 1..N : r[k] \in Paragraph
    BY <1>1, <2>3, <2>4
  <2>6. r[N] = put /\ \A k \in 1..N : k # N => r[k] = blocks[k]
    BY <2>1, <2>4
  <2>7. Onward(tok, blocks, b) = r
    BY <1>3, <1>6
  <2> HIDE DEF r
  <2>8. r \in Seq(Paragraph) /\ Len(r) = N
    BY SMTT(30), <1>1, <2>5, SeqMade
  <2>9. Continued(blocks, r, L)
    BY <1>1, <2>1, <2>3, <2>6, <2>8 DEF Continued
  <2>10. QED BY <2>7, <2>8, <2>9 DEF L
<1>7. QED BY <1>5, <1>6

\* The blocks of the tokens D.
BlockInv(blocks, D) ==
    /\ blocks \in Seq(Paragraph)
    /\ \A k \in DOMAIN blocks : Lists(blocks[k].ids, ToSet(blocks[k].ids)) /\ ToSet(blocks[k].ids) \in SUBSET D
    /\ \A x \in D : \E k \in DOMAIN blocks : x \in ToSet(blocks[k].ids)
    /\ \A k, m \in DOMAIN blocks : \A x : x \in ToSet(blocks[k].ids) /\ x \in ToSet(blocks[m].ids) => k = m

LEMMA ListedIs ==
    ASSUME NEW q, NEW S, Lists(q, S)
    PROVE  ToSet(q) = S
BY ListHolds DEF ToSet

LEMMA OnwardKeeps ==
    ASSUME NEW tok \in Tokens, NEW blocks, NEW D, BlockInv(blocks, D),
           NEW b \in Strip, b.ids \in SUBSET DOMAIN tok, \A x \in b.ids : x \notin D
    PROVE  BlockInv(Onward(tok, blocks, b), D \cup b.ids)
<1> DEFINE r == Onward(tok, blocks, b)
           L == InLines(tok, b.ids)
           N == Len(blocks)
           M == Len(r)
           E == D \cup b.ids
           ids == [k \in 1..N |-> blocks[k].ids]
           has == [k \in 1..M |-> r[k].ids]
<1>1. /\ blocks \in Seq(Paragraph)
      /\ \A k \in DOMAIN blocks : Lists(blocks[k].ids, ToSet(blocks[k].ids)) /\ ToSet(blocks[k].ids) \in SUBSET D
      /\ \A x \in D : \E k \in DOMAIN blocks : x \in ToSet(blocks[k].ids)
      /\ \A k, m \in DOMAIN blocks : \A x : x \in ToSet(blocks[k].ids) /\ x \in ToSet(blocks[m].ids) => k = m
  BY DEF BlockInv
<1>2. /\ r \in Seq(Paragraph)
      /\ Started(blocks, r, L) \/ Continued(blocks, r, L)
  BY <1>1, OnwardIs
<1>3. Lists(L, b.ids) /\ ToSet(L) = b.ids
  BY InLinesIs, ListedIs
<1> HIDE DEF r, L
<1>4. N \in Nat /\ DOMAIN blocks = 1..N /\ M \in Nat /\ DOMAIN r = 1..M
  BY <1>1, <1>2, SeqHas
<1>5. CASE Started(blocks, r, L)
  <2>1. M = N + 1 /\ (\A k \in 1..N : r[k] = blocks[k]) /\ r[N + 1].ids = L
    BY <1>4, <1>5 DEF Started
  <2> HIDE DEF N, M
  <2>2. \A k \in 1..M : k \in 1..N \/ k = N + 1
    BY <1>4, <2>1
  <2>3. N + 1 \in 1..M /\ \A k \in 1..N : k \in 1..M
    BY <1>4, <2>1
  <2>4. ASSUME NEW k \in 1..M PROVE Lists(r[k].ids, ToSet(r[k].ids)) /\ ToSet(r[k].ids) \in SUBSET E
    <3>1. CASE k \in 1..N
      BY <1>1, <1>4, <2>1, <3>1
    <3>2. CASE k = N + 1
      BY <1>3, <2>1, <3>2
    <3>3. QED BY <2>2, <3>1, <3>2
  <2>5. ASSUME NEW x \in E PROVE \E k \in 1..M : x \in ToSet(r[k].ids)
    <3>1. CASE x \in b.ids
      BY <1>3, <2>1, <2>3, <3>1
    <3>2. CASE x \in D
      <4>1. PICK k \in 1..N : x \in ToSet(blocks[k].ids)
        BY <1>1, <1>4, <3>2
      <4>2. QED BY <2>1, <2>3, <4>1
    <3>3. QED BY <3>1, <3>2
  <2>6. ASSUME NEW k \in 1..M, NEW m \in 1..M, NEW x, x \in ToSet(r[k].ids), x \in ToSet(r[m].ids) PROVE k = m
    <3>1. \A j \in 1..M : x \in ToSet(r[j].ids) => (j = N + 1 <=> x \in b.ids) /\ (j \in 1..N => x \in ToSet(blocks[j].ids))
      <4> SUFFICES ASSUME NEW j \in 1..M, x \in ToSet(r[j].ids)
                   PROVE  (j = N + 1 <=> x \in b.ids) /\ (j \in 1..N => x \in ToSet(blocks[j].ids))
        OBVIOUS
      <4>1. CASE j \in 1..N
        <5>1. x \in ToSet(blocks[j].ids) /\ j # N + 1
          BY <1>4, <2>1, <4>1
        <5>2. x \in D
          BY <1>1, <1>4, <4>1, <5>1
        <5>3. QED BY <5>1, <5>2
      <4>2. CASE j = N + 1
        <5>1. j \notin 1..N /\ x \in b.ids
          BY <1>3, <1>4, <2>1, <4>2
        <5>2. QED BY <4>2, <5>1
      <4>3. QED BY <2>2, <4>1, <4>2
    <3>2. CASE x \in b.ids
      BY <2>6, <3>1, <3>2
    <3>3. CASE x \notin b.ids
      BY <1>1, <1>4, <2>2, <2>6, <3>1, <3>3
    <3>4. QED BY <3>2, <3>3
  <2>7. BlockInv(r, E)
    BY <1>2, <1>4, <2>4, <2>5, <2>6 DEF BlockInv
  <2>8. QED BY <2>7 DEF r
<1>6. CASE Continued(blocks, r, L)
  <2> DEFINE old == blocks[N].ids
             O == ToSet(old)
  <2>1. M = N /\ N \in 1..N /\ (\A k \in 1..N : k # N => r[k] = blocks[k]) /\ r[N].ids = old \o L
    BY ZenonT(30), <1>4, <1>6 DEF Continued
  <2>2. Lists(old, O) /\ O \in SUBSET D
    BY <1>1, <1>4, <2>1
  <2> HIDE DEF old, O
  <2>3. Lists(old \o L, O \cup b.ids)
    BY <1>3, <2>2, ListsJoin
  <2>4. ToSet(old \o L) = O \cup b.ids
    BY <2>3, ListedIs
  <2> DEFINE now == r[N].ids
  <2>5. Lists(now, O \cup b.ids) /\ ToSet(now) = O \cup b.ids
    BY <2>1, <2>3, <2>4
  <2> HIDE DEF N, M, now
  <2>6. ASSUME NEW k \in 1..N PROVE Lists(r[k].ids, ToSet(r[k].ids)) /\ ToSet(r[k].ids) \in SUBSET E
    <3>1. CASE k = N
      BY <2>2, <2>5, <3>1 DEF now
    <3>2. CASE k # N
      BY <1>1, <1>4, <2>1, <3>2
    <3>3. QED BY <3>1, <3>2
  <2>7. ASSUME NEW x, NEW k \in 1..N
        PROVE  x \in ToSet(r[k].ids) <=> x \in ToSet(blocks[k].ids) \/ (k = N /\ x \in b.ids)
    <3>1. CASE k = N
      BY <2>5, <3>1 DEF now, O, old
    <3>2. CASE k # N
      BY <2>1, <3>2
    <3>3. QED BY <3>1, <3>2
  <2>8. ASSUME NEW x \in E PROVE \E k \in 1..N : x \in ToSet(r[k].ids)
    <3>1. CASE x \in b.ids
      BY <2>1, <2>7, <3>1
    <3>2. CASE x \in D
      BY <1>1, <1>4, <2>7, <3>2
    <3>3. QED BY <3>1, <3>2
  <2>9. ASSUME NEW k \in 1..N, NEW m \in 1..N, NEW x, x \in ToSet(r[k].ids), x \in ToSet(r[m].ids) PROVE k = m
    <3>1. \A j \in 1..N : x \in ToSet(blocks[j].ids) => x \notin b.ids
      BY <1>1, <1>4
    <3>2. CASE x \in b.ids
      BY <2>7, <2>9, <3>1, <3>2
    <3>3. CASE x \notin b.ids
      BY <1>1, <1>4, <2>7, <2>9, <3>3
    <3>4. QED BY <3>2, <3>3
  <2>10. BlockInv(r, E)
    BY <1>2, <1>4, <2>1, <2>6, <2>8, <2>9 DEF BlockInv
  <2>11. QED BY <2>10 DEF r
<1>7. QED BY <1>2, <1>5, <1>6

LEMMA ParagraphRuns ==
    ASSUME NEW tok \in Tokens, NEW B, B \in SUBSET Strip, \A b \in B : b.ids \in SUBSET DOMAIN tok, NEW q \in Seq(B)
    PROVE  \E f : /\ f[0] = <<>> /\ BlockList(tok, q) = f[Len(q)]
                  /\ \A k \in 1..Len(q) : f[k] = Onward(tok, f[k - 1], q[k])
<1> DEFINE N == Len(q)
           X == Seq(Paragraph)
           x == <<>>
           iter[T \in SUBSET DOMAIN q] ==
               IF T = {} THEN x ELSE LET m == Max(T) IN Onward(tok, iter[T \ {m}], q[m])
           step == [w \in X \X (1..N) |-> Onward(tok, w[1], q[w[2]])]
<1>1. BlockList(tok, q) = iter[DOMAIN q]
  BY DEF BlockList, Onward, Follows, FoldLeft, MapThenFoldSet
<1>2. N \in Nat /\ x \in X /\ DOMAIN q = 1..N /\ \A k \in 1..N : q[k] \in B
  OBVIOUS
<1>3. ASSUME NEW acc \in X, NEW v \in B PROVE Onward(tok, acc, v) \in X
  BY OnwardIs
<1>4. step \in [X \X (1..N) -> X] /\ \A w \in X \X (1..N) : step[w] = Onward(tok, w[1], q[w[2]])
  BY <1>2, <1>3
<1> HIDE DEF X, x, N, step
<1>5. PICK h : LastFolded(X, x, N, step, h)
  BY <1>2, <1>4, FoldingSeq
<1>6. h = [T \in SUBSET DOMAIN q |-> IF T = {} THEN x ELSE LET m == Max(T) IN Onward(tok, h[T \ {m}], q[m])]
  <2>1. \A T \in SUBSET (1..N) : h[T] = IF T = {} THEN x ELSE Onward(tok, h[T \ {Max(T)}], q[Max(T)])
    BY <1>4, <1>5 DEF LastFolded
  <2>2. h = [T \in SUBSET (1..N) |-> h[T]]
    BY <1>5 DEF LastFolded
  <2>3. QED BY <1>2, <2>1, <2>2
<1>7. iter = [T \in SUBSET DOMAIN q |-> IF T = {} THEN x ELSE LET m == Max(T) IN Onward(tok, iter[T \ {m}], q[m])]
  BY <1>6
<1> HIDE DEF iter
<1> DEFINE f == [k \in 0..N |-> iter[1..k]]
<1>8. f[0] = x /\ f[N] = iter[DOMAIN q]
  <2>1. 1..0 = {} /\ 0 \in 0..N /\ N \in 0..N
    BY <1>2
  <2>2. QED BY <1>2, <1>7, <2>1
<1>9. \A k \in 1..N : f[k] = Onward(tok, f[k - 1], q[k])
  <2> SUFFICES ASSUME NEW k \in 1..N PROVE f[k] = Onward(tok, f[k - 1], q[k])
    OBVIOUS
  <2> DEFINE D == 1..k
  <2>1. k \in 0..N /\ k - 1 \in 0..N /\ D \in SUBSET (1..N) /\ D # {} /\ Max(D) = k /\ D \ {Max(D)} = 1..(k - 1)
    BY <1>2, Within1N
  <2> HIDE DEF D
  <2>2. iter[D] = Onward(tok, iter[1..(k - 1)], q[k])
    BY <1>2, <1>7, <2>1
  <2>3. QED BY <2>1, <2>2 DEF D
<1> HIDE DEF f
<1>10. QED BY <1>1, <1>8, <1>9 DEF N, x

LEMMA BlocksAre ==
    ASSUME NEW tok \in Tokens, NEW S \in SUBSET DOMAIN tok
    PROVE  BlockInv(Blocks(tok, S), S)
<1> DEFINE B == Bands(tok, S)
           q == DownBand(B)
           N == Len(q)
<1>1. Blocks(tok, S) = BlockList(tok, q)
  BY DEF Blocks, BlockList, Ordered, DownBand, DownBandAt, DownBandKey
<1>2. BandSet(B, S)
  BY BandSetIs
<1> HIDE DEF B
<1>3. /\ B \in SUBSET Strip /\ IsFiniteSet(B) /\ \A b, c \in B : b.nth = c.nth => b = c
      /\ \A b \in B : b.ids \in SUBSET S
      /\ \A x \in S : \E b \in B : x \in b.ids
      /\ \A b, c \in B : \A x : x \in b.ids /\ x \in c.ids => b = c
  BY <1>2 DEF BandSet
<1>4. Lists(q, B)
  BY <1>3, DownBandIs
<1> HIDE DEF q
<1>5. /\ N \in Nat /\ q \in Seq(B)
      /\ Passed(q, 0) = {} /\ Passed(q, N) = B
      /\ \A k \in 1..N : /\ Passed(q, k) = Passed(q, k - 1) \cup {q[k]}
                         /\ q[k] \notin Passed(q, k - 1) /\ q[k] \in B
  BY <1>4, PassedAre
<1>6. PICK f : /\ f[0] = <<>> /\ BlockList(tok, q) = f[N]
               /\ \A k \in 1..N : f[k] = Onward(tok, f[k - 1], q[k])
  <2>1. q \in Seq(B) /\ \A b \in B : b.ids \in SUBSET DOMAIN tok
    BY <1>3, <1>5
  <2>2. \E f : /\ f[0] = <<>> /\ BlockList(tok, q) = f[Len(q)]
               /\ \A k \in 1..Len(q) : f[k] = Onward(tok, f[k - 1], q[k])
    BY <1>3, <2>1, ParagraphRuns
  <2>3. QED BY <2>2
<1> HIDE DEF N
<1> DEFINE U(k) == UNION {b.ids : b \in Passed(q, k)}
           T == {k \in 0..N : Passed(q, k) \in SUBSET B /\ BlockInv(f[k], U(k))}
<1>7. 0 \in T
  <2>1. U(0) = {}
    BY <1>5
  <2>2. BlockInv(<<>>, {})
    BY DEF BlockInv
  <2>3. Passed(q, 0) \in SUBSET B /\ 0 \in 0..N
    BY <1>5
  <2>4. QED BY <1>6, <2>1, <2>2, <2>3
<1>8. ASSUME NEW k \in 1..N, k - 1 \in T PROVE k \in T
  <2> DEFINE P == Passed(q, k - 1)
             b == q[k]
  <2>1. P \in SUBSET B /\ BlockInv(f[k - 1], U(k - 1))
    BY <1>8
  <2>2. b \in B /\ b \notin P /\ Passed(q, k) = P \cup {b}
    BY <1>5
  <2>3. b \in Strip /\ b.ids \in SUBSET DOMAIN tok
    BY <1>3, <2>2
  <2>4. \A x \in b.ids : x \notin U(k - 1)
    <3> SUFFICES ASSUME NEW x \in U(k - 1), x \in b.ids PROVE FALSE
      OBVIOUS
    <3>1. PICK c \in P : x \in c.ids
      OBVIOUS
    <3>2. c \in B /\ c = b
      BY <1>3, <2>1, <2>2, <3>1
    <3>3. QED BY <2>2, <3>1, <3>2
  <2>5. U(k) = U(k - 1) \cup b.ids
    <3>1. Passed(q, k) = P \cup {b}
      BY <2>2
    <3> DEFINE W == Passed(q, k)
    <3>2. U(k) = UNION {c.ids : c \in W}
      OBVIOUS
    <3> HIDE DEF W
    <3>3. W = P \cup {b}
      BY <3>1 DEF W
    <3>4. UNION {c.ids : c \in P \cup {b}} = (UNION {c.ids : c \in P}) \cup b.ids
      OBVIOUS
    <3>5. QED BY <3>2, <3>3, <3>4
  <2> HIDE DEF U
  <2>6. BlockInv(Onward(tok, f[k - 1], b), U(k - 1) \cup b.ids)
    BY <2>1, <2>3, <2>4, OnwardKeeps
  <2>7. f[k] = Onward(tok, f[k - 1], b)
    BY <1>6
  <2>8. BlockInv(f[k], U(k))
    BY <2>5, <2>6, <2>7
  <2>9. k \in 0..N /\ Passed(q, k) \in SUBSET B
    BY <1>5, <2>1, <2>2
  <2>10. QED BY <2>8, <2>9
<1> HIDE DEF T
<1>9. N \in T
  <2>1. \A k \in 0..N : k \in T
    BY <1>5, <1>7, <1>8, UpTo
  <2>2. QED BY <1>5, <2>1
<1>10. U(N) = S
  <2>1. U(N) = UNION {b.ids : b \in B}
    BY <1>5
  <2>2. QED BY <1>3, <2>1
<1>11. QED BY <1>1, <1>6, <1>9, <1>10 DEF T

(***************************************************************************)
(* The elements of a page with an image.                                   *)
(***************************************************************************)
\* A text lists the printed tokens of its set.
Inked(tok, S) == {i \in S : tok[i].ink # "none"}

LEMMA PickedLists ==
    ASSUME NEW T, NEW s \in Seq(T), NEW S \in SUBSET DOMAIN s
    PROVE  \E at : /\ Lists(at, S) /\ DOMAIN Picked(s, S) = DOMAIN at /\ Picked(s, S) \in Seq(T)
                   /\ \A k \in DOMAIN at : at[k] \in S /\ Picked(s, S)[k] = s[at[k]]
<1>1. PICK at : /\ Enumerates(at, S, Up(S))
                /\ Picked(s, S) \in Seq(T) /\ DOMAIN Picked(s, S) = DOMAIN at
                /\ \A k \in DOMAIN at : at[k] \in S /\ Picked(s, S)[k] = s[at[k]]
  BY PickedIs
<1>2. S \in SUBSET Int
  BY SeqHas
<1>3. Lists(at, S)
  BY <1>1, <1>2, NumbersChain, EnumeratesLists
<1>4. QED BY <1>1, <1>3

LEMMA InkLists ==
    ASSUME NEW tok, NEW S, NEW s, Lists(s, S)
    PROVE  Lists(Ink(tok, s), Inked(tok, S))
<1> DEFINE K == {k \in DOMAIN s : tok[s[k]].ink # "none"}
           r == Ink(tok, s)
           W == Inked(tok, S)
<1>1. /\ s \in Seq(S) /\ \A e \in S : \E i \in DOMAIN s : s[i] = e
      /\ \A i, j \in DOMAIN s : s[i] = s[j] => i = j
  BY DEF Lists
<1>2. \A k \in DOMAIN s : s[k] \in S
  BY <1>1, SeqHas
<1>3. K \in SUBSET DOMAIN s /\ r = Picked(s, K)
  BY DEF Ink
<1>4. \A k : k \in K <=> k \in DOMAIN s /\ s[k] \in W
  BY <1>2 DEF Inked
<1> HIDE DEF K, r
<1>5. PICK at : /\ Lists(at, K) /\ DOMAIN r = DOMAIN at /\ r \in Seq(S)
                /\ \A k \in DOMAIN at : at[k] \in K /\ r[k] = s[at[k]]
  BY <1>1, <1>3, PickedLists
<1>6. /\ \A e \in K : \E i \in DOMAIN at : at[i] = e
      /\ \A i, j \in DOMAIN at : at[i] = at[j] => i = j
  BY <1>5 DEF Lists
<1>7. Len(r) \in Nat /\ DOMAIN r = 1..Len(r)
  BY <1>5, SeqHas
<1>8. \A k \in DOMAIN r : r[k] \in W
  BY <1>4, <1>5
<1>9. r \in Seq(W)
  <2> DEFINE l == Len(r)
  <2>1. l \in Nat /\ r = [k \in 1..l |-> r[k]] /\ \A k \in 1..l : r[k] \in W
    BY <1>5, <1>7, <1>8
  <2> HIDE DEF l, W
  <2>2. QED BY <2>1, SeqMade
<1>10. ASSUME NEW e \in W PROVE \E i \in DOMAIN r : r[i] = e
  <2>1. PICK k \in DOMAIN s : s[k] = e
    BY <1>1 DEF Inked
  <2>2. k \in K
    BY <1>4, <2>1
  <2>3. PICK i \in DOMAIN at : at[i] = k
    BY <1>6, <2>2
  <2>4. QED BY <1>5, <2>1, <2>3
<1>11. ASSUME NEW i \in DOMAIN r, NEW j \in DOMAIN r, r[i] = r[j] PROVE i = j
  <2>1. at[i] = at[j]
    BY <1>1, <1>4, <1>5, <1>11
  <2>2. QED BY <1>5, <1>6, <2>1
<1>12. Lists(r, W)
  BY <1>7, <1>9, <1>10, <1>11 DEF Lists
<1>13. QED BY <1>12 DEF r

LEMMA InkIs ==
    ASSUME NEW tok \in Tokens, NEW S \in SUBSET DOMAIN tok, NEW s, Lists(s, S)
    PROVE  Lists(Ink(tok, s), Inked(tok, S)) /\ Ink(tok, s) \in Seq(Int)
<1>1. Lists(Ink(tok, s), Inked(tok, S))
  BY InkLists
<1>2. Ink(tok, s) \in Seq(Inked(tok, S))
  BY <1>1 DEF Lists
<1>3. Inked(tok, S) \in SUBSET Int
  BY TokensAre DEF Inked
<1>4. QED BY <1>1, <1>2, <1>3

\* Regions, and what stands for each.
Regions == Seq([box : Bounding, label : {"text", "other", "table"}])
Ours(tok, box, owned) == Within(tok, DOMAIN tok, box) \ owned
Piece == [id : {"e"} \X Int, type : {"text", "other", "table"}, box : Bounding, text : Seq(Int), table : Int]
Stands(e, tok, regions, owned, i) ==
    /\ e \in Piece /\ e.id = <<"e", i>> /\ e.box = regions[i].box
    /\ \/ e.type = "table" /\ e.text = <<>>
       \/ e.type \in OrdinaryTypes /\ e.text = RegionText(tok, regions[i].box, owned)

LEMMA RegionTextIs ==
    ASSUME NEW tok \in Tokens, NEW box, NEW owned
    PROVE  Lists(RegionText(tok, box, owned), Inked(tok, Ours(tok, box, owned))) /\ RegionText(tok, box, owned) \in Seq(Int)
<1> DEFINE S == Ours(tok, box, owned)
<1>1. S \in SUBSET DOMAIN tok
  BY DEF Ours, Within
<1>2. RegionText(tok, box, owned) = Ink(tok, InLines(tok, S))
  BY DEF RegionText, Ours
<1> HIDE DEF S
<1>3. Lists(InLines(tok, S), S)
  BY <1>1, InLinesIs
<1>4. QED BY <1>1, <1>2, <1>3, InkIs DEF S

Fit(regions, tables, acc, i) == IF regions[i].label = "table" THEN BestTable(tables, acc.shown, regions[i].box) ELSE {}
Lay(tok, regions, tables, owned, acc, i) ==
    [shown |-> acc.shown \cup Fit(regions, tables, acc, i),
     elements |-> Append(acc.elements,
        IF Fit(regions, tables, acc, i) # {}
        THEN Element(<<"e", i>>, "table", regions[i].box, <<>>, Min(Fit(regions, tables, acc, i)))
        ELSE Element(<<"e", i>>, IF regions[i].label = "table" THEN "other" ELSE regions[i].label,
                     regions[i].box, RegionText(tok, regions[i].box, owned), 0))]
Layout0 == [elements |-> <<>>, shown |-> {}]
LayAll(tok, regions, tables, owned, q) ==
    LET wanted(i) == regions[i].label = "table"
        match(acc, i) == IF wanted(i) THEN BestTable(tables, acc.shown, regions[i].box) ELSE {}
        lay(acc, i) ==
            [shown |-> acc.shown \cup match(acc, i),
             elements |-> Append(acc.elements,
                IF match(acc, i) # {}
                THEN Element(<<"e", i>>, "table", regions[i].box, <<>>, Min(match(acc, i)))
                ELSE Element(<<"e", i>>, IF wanted(i) THEN "other" ELSE regions[i].label,
                             regions[i].box, RegionText(tok, regions[i].box, owned), 0))]
    IN  FoldLeft(lay, [elements |-> <<>>, shown |-> {}], q)
Lain(tables) == [shown : SUBSET DOMAIN tables, elements : Seq(Piece)]
OfLength(tables) == \E m \in Nat : DOMAIN tables = 1..m

LEMMA LayIs ==
    ASSUME NEW tok \in Tokens, NEW regions \in Regions, NEW tables, OfLength(tables), NEW owned,
           NEW acc \in Lain(tables), NEW i \in DOMAIN regions
    PROVE  /\ Lay(tok, regions, tables, owned, acc, i) \in Lain(tables)
           /\ \E e : /\ Lay(tok, regions, tables, owned, acc, i).elements = Append(acc.elements, e)
                     /\ Stands(e, tok, regions, owned, i)
<1> DEFINE F == Fit(regions, tables, acc, i)
           box == regions[i].box
           label == regions[i].label
           text == RegionText(tok, box, owned)
           kind == IF label = "table" THEN "other" ELSE label
           e == IF F # {} THEN Element(<<"e", i>>, "table", box, <<>>, Min(F))
                ELSE Element(<<"e", i>>, kind, box, text, 0)
           r == Lay(tok, regions, tables, owned, acc, i)
<1>1. i \in Int /\ box \in Bounding /\ label \in {"text", "other", "table"}
  <2>1. i \in Int /\ regions[i] \in [box : Bounding, label : {"text", "other", "table"}]
    <3>1. regions \in Seq([box : Bounding, label : {"text", "other", "table"}])
      BY DEF Regions
    <3>2. DOMAIN regions = 1..Len(regions) /\ Len(regions) \in Nat
      BY <3>1, SeqHas
    <3>3. \A j \in DOMAIN regions : regions[j] \in [box : Bounding, label : {"text", "other", "table"}]
      BY <3>1, SeqHas
    <3>4. i \in Int
      BY <3>2
    <3>5. QED BY <3>3, <3>4
  <2>2. QED BY <2>1
<1>2. F \in SUBSET DOMAIN tables
  BY DEF Fit, BestTable
<1>3. F # {} => Min(F) \in Int
  <2>1. PICK m \in Nat : DOMAIN tables = 1..m
    BY DEF OfLength
  <2>2. IsFiniteSet(1..m)
    BY FS_Interval
  <2>3. IsFiniteSet(F)
    BY <1>2, <2>1, <2>2, FS_Subset
  <2>4. F \in SUBSET Int
    BY <1>2, <2>1
  <2> HIDE DEF F
  <2>5. F # {} => Min(F) \in F
    BY <2>3, <2>4, MinIs
  <2>6. QED BY <2>4, <2>5
<1>4. text \in Seq(Int)
  BY RegionTextIs
<1>5. r = [shown |-> acc.shown \cup F, elements |-> Append(acc.elements, e)]
  BY DEF Lay
<1> HIDE DEF F, text, r
<1>6. Stands(e, tok, regions, owned, i)
  <2>1. CASE F # {}
    <3>1. e = [id |-> <<"e", i>>, type |-> "table", box |-> box, text |-> <<>>, table |-> Min(F)]
      BY <2>1 DEF Element
    <3>2. <<>> \in Seq(Int) /\ <<"e", i>> \in {"e"} \X Int
      BY <1>1
    <3> HIDE DEF e, box
    <3>3. e \in Piece
      BY <1>1, <1>3, <2>1, <3>1, <3>2 DEF Piece
    <3>4. QED BY <3>1, <3>3 DEF Stands, box
  <2>2. CASE F = {}
    <3>1. e = [id |-> <<"e", i>>, type |-> kind, box |-> box, text |-> text, table |-> 0]
      BY <2>2 DEF Element
    <3>2. kind \in OrdinaryTypes /\ <<"e", i>> \in {"e"} \X Int
      BY <1>1 DEF OrdinaryTypes
    <3> HIDE DEF e, box, kind
    <3>3. e \in Piece
      BY <1>1, <1>4, <3>1, <3>2 DEF Piece, OrdinaryTypes
    <3>4. QED BY <3>1, <3>2, <3>3 DEF Stands, box, text
  <2>3. QED BY <2>1, <2>2
<1> HIDE DEF e
<1>7. acc.shown \in SUBSET DOMAIN tables /\ acc.elements \in Seq(Piece)
  BY DEF Lain
<1>8. Append(acc.elements, e) \in Seq(Piece)
  BY <1>6, <1>7 DEF Stands
<1>9. r \in Lain(tables) /\ r.elements = Append(acc.elements, e)
  <2> DEFINE now == Append(acc.elements, e)
  <2>1. now \in Seq(Piece)
    BY <1>8
  <2> HIDE DEF now
  <2>2. [shown |-> acc.shown \cup F, elements |-> now] \in Lain(tables)
    BY <1>2, <1>7, <2>1 DEF Lain
  <2>3. QED BY <1>5, <2>2 DEF now
<1>10. QED BY <1>6, <1>9 DEF r

LEMMA LayRuns ==
    ASSUME NEW tok \in Tokens, NEW regions \in Regions, NEW tables, NEW owned, OfLength(tables), NEW q \in Seq(DOMAIN regions)
    PROVE  \E f : /\ f[0] = Layout0 /\ LayAll(tok, regions, tables, owned, q) = f[Len(q)]
                  /\ \A k \in 1..Len(q) : f[k] = Lay(tok, regions, tables, owned, f[k - 1], q[k])
<1> DEFINE N == Len(q)
           X == Lain(tables)
           x == Layout0
           iter[T \in SUBSET DOMAIN q] ==
               IF T = {} THEN x ELSE LET m == Max(T) IN Lay(tok, regions, tables, owned, iter[T \ {m}], q[m])
           step == [w \in X \X (1..N) |-> Lay(tok, regions, tables, owned, w[1], q[w[2]])]
<1>1. LayAll(tok, regions, tables, owned, q) = iter[DOMAIN q]
  BY DEF LayAll, Lay, Fit, Layout0, FoldLeft, MapThenFoldSet
<1>2. N \in Nat /\ x \in X /\ DOMAIN q = 1..N /\ \A k \in 1..N : q[k] \in DOMAIN regions
  <2>1. x \in X
    BY DEF Layout0, Lain
  <2> HIDE DEF x, X
  <2>2. QED BY <2>1, SeqHas
<1>3. ASSUME NEW acc \in X, NEW v \in DOMAIN regions PROVE Lay(tok, regions, tables, owned, acc, v) \in X
  BY LayIs
<1>4. step \in [X \X (1..N) -> X] /\ \A w \in X \X (1..N) : step[w] = Lay(tok, regions, tables, owned, w[1], q[w[2]])
  BY <1>2, <1>3
<1> HIDE DEF X, x, N, step
<1>5. PICK h : LastFolded(X, x, N, step, h)
  BY <1>2, <1>4, FoldingSeq
<1>6. h = [T \in SUBSET DOMAIN q |-> IF T = {} THEN x ELSE LET m == Max(T) IN Lay(tok, regions, tables, owned, h[T \ {m}], q[m])]
  <2>1. \A T \in SUBSET (1..N) : h[T] = IF T = {} THEN x ELSE Lay(tok, regions, tables, owned, h[T \ {Max(T)}], q[Max(T)])
    BY <1>4, <1>5 DEF LastFolded
  <2>2. h = [T \in SUBSET (1..N) |-> h[T]]
    BY <1>5 DEF LastFolded
  <2>3. QED BY <1>2, <2>1, <2>2
<1>7. iter = [T \in SUBSET DOMAIN q |-> IF T = {} THEN x ELSE LET m == Max(T) IN Lay(tok, regions, tables, owned, iter[T \ {m}], q[m])]
  BY <1>6
<1> HIDE DEF iter
<1> DEFINE f == [k \in 0..N |-> iter[1..k]]
<1>8. f[0] = x /\ f[N] = iter[DOMAIN q]
  <2>1. 1..0 = {} /\ 0 \in 0..N /\ N \in 0..N
    BY <1>2
  <2>2. QED BY <1>2, <1>7, <2>1
<1>9. \A k \in 1..N : f[k] = Lay(tok, regions, tables, owned, f[k - 1], q[k])
  <2> SUFFICES ASSUME NEW k \in 1..N PROVE f[k] = Lay(tok, regions, tables, owned, f[k - 1], q[k])
    OBVIOUS
  <2> DEFINE D == 1..k
  <2>1. k \in 0..N /\ k - 1 \in 0..N /\ D \in SUBSET (1..N) /\ D # {} /\ Max(D) = k /\ D \ {Max(D)} = 1..(k - 1)
    BY <1>2, Within1N
  <2> HIDE DEF D
  <2>2. iter[D] = Lay(tok, regions, tables, owned, iter[1..(k - 1)], q[k])
    BY <1>2, <1>7, <2>1
  <2>3. QED BY <2>1, <2>2 DEF D
<1> HIDE DEF f
<1>10. QED BY <1>1, <1>8, <1>9 DEF N, x

LEMMA LaidIs ==
    ASSUME NEW tok \in Tokens, NEW regions \in Regions, NEW tables, OfLength(tables), NEW owned
    PROVE  /\ Laid(tok, regions, tables, owned) \in Lain(tables)
           /\ Len(Laid(tok, regions, tables, owned).elements) = Len(regions)
           /\ \A i \in DOMAIN regions : Stands(Laid(tok, regions, tables, owned).elements[i], tok, regions, owned, i)
<1> DEFINE q == [i \in DOMAIN regions |-> i]
           N == Len(regions)
<1>1. Laid(tok, regions, tables, owned) = LayAll(tok, regions, tables, owned, q)
  BY DEF Laid, LayAll
<1>2. N \in Nat /\ DOMAIN regions = 1..N
  BY SeqHas DEF Regions
<1>3. q \in Seq(DOMAIN regions) /\ Len(q) = N /\ \A k \in 1..N : q[k] = k
  <2>1. q = [k \in 1..N |-> q[k]] /\ \A k \in 1..N : q[k] = k /\ q[k] \in DOMAIN regions
    BY <1>2
  <2> HIDE DEF q, N
  <2>2. QED BY <1>2, <2>1, SeqMade
<1> HIDE DEF q
<1>4. PICK f : /\ f[0] = Layout0 /\ LayAll(tok, regions, tables, owned, q) = f[Len(q)]
               /\ \A k \in 1..Len(q) : f[k] = Lay(tok, regions, tables, owned, f[k - 1], q[k])
  BY SMTT(30), <1>3, LayRuns
<1>5. f[0] = Layout0 /\ LayAll(tok, regions, tables, owned, q) = f[N]
      /\ \A k \in 1..N : f[k] = Lay(tok, regions, tables, owned, f[k - 1], k)
  BY <1>3, <1>4
<1> HIDE DEF N
<1> DEFINE Done(k) == /\ f[k] \in Lain(tables) /\ Len(f[k].elements) = k
                      /\ \A i \in 1..k : Stands(f[k].elements[i], tok, regions, owned, i)
           T == {k \in 0..N : Done(k)}
<1>6. 0 \in T
  <2>1. Layout0 \in Lain(tables) /\ Len(Layout0.elements) = 0
    BY DEF Layout0, Lain
  <2>2. 0 \in 0..N /\ \A i \in 1..0 : FALSE
    BY <1>2
  <2>3. QED BY <1>5, <2>1, <2>2
<1>7. ASSUME NEW k \in 1..N, k - 1 \in T PROVE k \in T
  <2>1. /\ f[k - 1] \in Lain(tables) /\ Len(f[k - 1].elements) = k - 1
        /\ \A i \in 1..(k - 1) : Stands(f[k - 1].elements[i], tok, regions, owned, i)
    BY <1>7
  <2>2. f[k] = Lay(tok, regions, tables, owned, f[k - 1], k) /\ k \in DOMAIN regions /\ k \in Nat
    BY <1>2, <1>5
  <2> HIDE DEF T, Done
  <2>3. PICK e : /\ f[k] \in Lain(tables) /\ f[k].elements = Append(f[k - 1].elements, e)
                 /\ Stands(e, tok, regions, owned, k)
    <3> DEFINE acc == f[k - 1]
    <3>1. acc \in Lain(tables)
      BY <2>1
    <3> HIDE DEF acc
    <3>2. /\ Lay(tok, regions, tables, owned, acc, k) \in Lain(tables)
          /\ \E e : /\ Lay(tok, regions, tables, owned, acc, k).elements = Append(acc.elements, e)
                    /\ Stands(e, tok, regions, owned, k)
      BY <2>2, <3>1, LayIs
    <3>3. QED BY <2>2, <3>2 DEF acc
  <2> DEFINE s == f[k - 1].elements
             r == Append(s, e)
  <2>4. s \in Seq(Piece) /\ Len(s) = k - 1
    BY <2>1 DEF Lain
  <2> HIDE DEF s
  <2>5. /\ Len(r) = k /\ r[k] = e
        /\ \A i \in 1..(k - 1) : r[i] = s[i]
    <3>1. e \in Piece
      BY <2>3 DEF Stands
    <3>2. QED BY <2>2, <2>4, <3>1
  <2>6. \A i \in 1..k : i = k \/ i \in 1..(k - 1)
    BY <2>2
  <2>7. f[k].elements = r
    BY <2>3 DEF s
  <2>8. \A i \in 1..k : Stands(r[i], tok, regions, owned, i)
    <3> SUFFICES ASSUME NEW i \in 1..k PROVE Stands(r[i], tok, regions, owned, i)
      OBVIOUS
    <3>1. CASE i = k
      BY <2>3, <2>5, <3>1
    <3>2. CASE i \in 1..(k - 1)
      BY <2>1, <2>5, <3>2 DEF s
    <3>3. QED BY <2>6, <3>1, <3>2
  <2> HIDE DEF r
  <2>9. Done(k)
    BY <2>3, <2>5, <2>7, <2>8 DEF Done
  <2>10. k \in 0..N
    BY <1>2
  <2>11. QED BY <2>9, <2>10 DEF T
<1> HIDE DEF T
<1>8. N \in T
  <2>1. \A k \in 0..N : k \in T
    BY <1>2, <1>6, <1>7, UpTo
  <2>2. QED BY <1>2, <2>1
<1>9. QED BY <1>1, <1>2, <1>5, <1>8 DEF T, N

\* The page: its regions, the tables no region stands for, the blocks with a
\* word in them.
Worded(tok, blocks) == {j \in DOMAIN blocks : \E i \in ToSet(blocks[j].ids) : tok[i].ink = "word"}
Recovered(e, tok, block) ==
    /\ e.id[1] = "r" /\ e.type = "text" /\ DOMAIN e = {"id", "type", "box", "text", "table"}
    /\ e.box = Hull({tok[i].box : i \in ToSet(block.ids)}) /\ e.text = Ink(tok, block.ids)
Composed(Q, tok, tables, orphans, laid, rest, at) ==
    LET a == Len(laid.elements)
        b == Len(rest)
        c == Len(at)
        blocks == Blocks(tok, orphans)
    IN  /\ Lists(rest, DOMAIN tables \ laid.shown) /\ Lists(at, Worded(tok, blocks))
        /\ DOMAIN Q = 1..(a + b + c) /\ (\E T : Q \in Seq(T))
        /\ \A k \in 1..a : Q[k] = laid.elements[k]
        /\ \A k \in 1..b : Q[a + k] = Element(<<"t", rest[k]>>, "table", tables[rest[k]].box, <<>>, rest[k])
        /\ \A k \in 1..c : Recovered(Q[a + b + k], tok, blocks[at[k]])

LEMMA ElementsAre ==
    ASSUME NEW tok \in Tokens, NEW tables, OfLength(tables), NEW orphans \in SUBSET DOMAIN tok,
           NEW laid \in Lain(tables)
    PROVE  \E rest, at : Composed(Elements(tok, tables, orphans, laid), tok, tables, orphans, laid, rest, at)
<1> DEFINE R == DOMAIN tables \ laid.shown
           rest == ByNumber(R)
           all == Blocks(tok, orphans)
           W == Worded(tok, all)
           blocks == Picked(all, W)
           before == Len(laid.elements) + Len(rest)
           E1 == laid.elements
           E2 == [j \in DOMAIN rest |-> Element(<<"t", rest[j]>>, "table", tables[rest[j]].box, <<>>, rest[j])]
           E3 == [j \in DOMAIN blocks |->
                    Element(<<"r", before + j - 1>>, "text",
                            Hull({tok[i].box : i \in ToSet(blocks[j].ids)}), Ink(tok, blocks[j].ids), 0)]
           a == Len(E1)
           b == Len(rest)
           c == Len(blocks)
           Q == Elements(tok, tables, orphans, laid)
<1>1. Q = E1 \o E2 \o E3
  BY DEF Elements, Ordered, ByNumber, NumberAt, Worded
<1>2. a \in Nat /\ E1 = [k \in 1..a |-> E1[k]]
  <2>1. E1 \in Seq(Piece)
    BY DEF Lain
  <2> HIDE DEF E1
  <2>2. QED BY <2>1
<1>3. Lists(rest, R) /\ b \in Nat /\ DOMAIN rest = 1..b
  <2>1. PICK m \in Nat : DOMAIN tables = 1..m
    BY DEF OfLength
  <2>2. IsFiniteSet(1..m) /\ \A k \in 1..m : k \in Int
    BY FS_Interval
  <2>3. IsFiniteSet(R) /\ R \in SUBSET Int
    BY <2>1, <2>2, FS_Subset
  <2> HIDE DEF R
  <2>4. Enumerates(rest, R, Up(R))
    BY <2>3, ByNumberIs
  <2>5. Lists(rest, R)
    BY <2>3, <2>4, NumbersChain, EnumeratesLists
  <2>6. QED BY <2>5 DEF Lists
<1>4. all \in Seq(Paragraph)
  BY BlocksAre DEF BlockInv
<1>5. W \in SUBSET DOMAIN all
  BY DEF Worded
<1> HIDE DEF R, rest, all, W
<1>6. PICK at : /\ Lists(at, W) /\ DOMAIN blocks = DOMAIN at /\ blocks \in Seq(Paragraph)
                /\ \A k \in DOMAIN at : at[k] \in W /\ blocks[k] = all[at[k]]
  BY <1>4, <1>5, PickedLists
<1> HIDE DEF blocks
<1>7. c \in Nat /\ DOMAIN blocks = 1..c
  BY <1>6, SeqHas
<1>8. DOMAIN at = 1..Len(at) /\ Len(at) \in Nat /\ Len(at) = c
  <2> DEFINE l == Len(at)
  <2>1. l \in Nat /\ DOMAIN at = 1..l
    BY SMTT(30), <1>6 DEF Lists
  <2>2. 1..l = 1..c
    BY <1>6, <1>7, <2>1
  <2> HIDE DEF l, c
  <2>3. l = c
    BY <1>7, <2>1, <2>2
  <2>4. QED BY <2>1, <2>3 DEF l
<1>9. /\ E2 = [k \in 1..b |-> E2[k]]
      /\ \A k \in 1..b : E2[k] = Element(<<"t", rest[k]>>, "table", tables[rest[k]].box, <<>>, rest[k])
  BY <1>3
<1>10. E3 = [k \in 1..c |-> E3[k]] /\ \A k \in 1..c : Recovered(E3[k], tok, all[at[k]])
  <2>1. E3 = [k \in 1..c |-> E3[k]]
    BY <1>7
  <2>2. ASSUME NEW k \in 1..c PROVE Recovered(E3[k], tok, all[at[k]])
    <3>1. E3[k] = Element(<<"r", before + k - 1>>, "text",
                          Hull({tok[i].box : i \in ToSet(blocks[k].ids)}), Ink(tok, blocks[k].ids), 0)
      BY <1>7
    <3>2. blocks[k] = all[at[k]]
      BY <1>6, <1>7
    <3> HIDE DEF E3, before
    <3>3. QED BY <3>1, <3>2 DEF Recovered, Element
  <2>3. QED BY <2>1, <2>2
<1> HIDE DEF E1, E2, E3, a, b, c, Q
<1>11. Listed(E1, a) /\ Listed(E2, b) /\ Listed(E3, c)
  BY <1>2, <1>9, <1>10 DEF Listed
<1> DEFINE P == E1 \o E2
           s == a + b
<1>12. Joined(P, E1, E2, a, b) /\ \E T : P \in Seq(T)
  BY <1>2, <1>3, <1>11, JoinedIs
<1>13. DOMAIN P = 1..s /\ (\A k \in 1..a : P[k] = E1[k]) /\ \A k \in 1..b : P[a + k] = E2[k]
  BY <1>12 DEF Joined
<1> HIDE DEF P
<1>14. s \in Nat
  BY <1>2, <1>3
<1>15. Listed(P, s)
  <2>1. PICK T : P \in Seq(T)
    BY <1>12
  <2>2. P = [k \in DOMAIN P |-> P[k]]
    BY <2>1
  <2>3. QED BY <1>13, <2>2 DEF Listed
<1> HIDE DEF s
<1>16. Joined(P \o E3, P, E3, s, c) /\ \E T : (P \o E3) \in Seq(T)
  BY <1>7, <1>11, <1>14, <1>15, JoinedIs
<1>17. Q = P \o E3
  BY <1>1 DEF P
<1>18. DOMAIN Q = 1..(s + c) /\ (\A k \in 1..s : Q[k] = P[k]) /\ \A k \in 1..c : Q[s + k] = E3[k]
  BY <1>16, <1>17 DEF Joined
<1>19. \A k \in 1..a : k \in 1..s
  BY <1>2, <1>3 DEF s
<1>20. \A k \in 1..b : a + k \in 1..s
  BY <1>2, <1>3 DEF s
<1>21. (\A k \in 1..a : Q[k] = E1[k]) /\ \A k \in 1..b : Q[a + k] = E2[k]
  BY <1>13, <1>18, <1>19, <1>20
<1>22. Composed(Q, tok, tables, orphans, laid, rest, at)
  <2>1. Lists(rest, DOMAIN tables \ laid.shown) /\ Lists(at, Worded(tok, Blocks(tok, orphans)))
    BY <1>3, <1>6 DEF R, W, all
  <2>2. DOMAIN Q = 1..(Len(laid.elements) + Len(rest) + Len(at)) /\ \E T : Q \in Seq(T)
    BY <1>8, <1>16, <1>17, <1>18 DEF s, a, b, E1
  <2>3. \A k \in 1..Len(laid.elements) : Q[k] = laid.elements[k]
    BY <1>21 DEF E1, a
  <2>4. \A k \in 1..Len(rest) : Q[Len(laid.elements) + k] =
            Element(<<"t", rest[k]>>, "table", tables[rest[k]].box, <<>>, rest[k])
    BY <1>9, <1>21 DEF E1, a, b
  <2>5. \A k \in 1..Len(at) : Recovered(Q[Len(laid.elements) + Len(rest) + k], tok, Blocks(tok, orphans)[at[k]])
    <3>1. \A k \in 1..c : Recovered(Q[s + k], tok, all[at[k]])
      BY <1>10, <1>18
    <3>2. QED BY <1>8, <3>1 DEF s, a, b, all, E1
  <2>6. QED BY <2>1, <2>2, <2>3, <2>4, <2>5 DEF Composed
<1>23. QED BY <1>22 DEF Q

\* Every element of such a page can be read again.
LEMMA RecoveredIs ==
    ASSUME NEW tok \in Tokens, NEW S \in SUBSET DOMAIN tok, NEW j \in Worded(tok, Blocks(tok, S)),
           NEW e, Recovered(e, tok, Blocks(tok, S)[j])
    PROVE  /\ Lists(e.text, Inked(tok, ToSet(Blocks(tok, S)[j].ids))) /\ e.text \in Seq(Int)
           /\ e.box \in Bounding /\ ToSet(Blocks(tok, S)[j].ids) \in SUBSET S
<1> DEFINE ids == Blocks(tok, S)[j].ids
           I == ToSet(ids)
           B == {tok[i].box : i \in I}
<1>1. BlockInv(Blocks(tok, S), S) /\ j \in DOMAIN Blocks(tok, S) /\ \E i \in I : tok[i].ink = "word"
  BY BlocksAre DEF Worded
<1>2. Lists(ids, I) /\ I \in SUBSET S
  BY <1>1 DEF BlockInv
<1>3. e.text = Ink(tok, ids) /\ e.box = Hull(B)
  BY DEF Recovered
<1> HIDE DEF ids, I
<1>4. Lists(e.text, Inked(tok, I)) /\ e.text \in Seq(Int)
  BY <1>2, <1>3, InkIs
<1>5. IsFiniteSet(I) /\ \A i \in I : tok[i].box \in Bounding
  BY <1>2, TokensAre, FS_Subset
<1>6. IsFiniteSet(B) /\ B \in SUBSET Bounding /\ B # {}
  <2> DEFINE g == [i \in I |-> tok[i].box]
  <2>1. B = {g[i] : i \in I} /\ B \in SUBSET Bounding /\ B # {}
    BY <1>1, <1>5
  <2> HIDE DEF g, B
  <2>2. QED BY <1>5, <2>1, ImageIsFinite
<1> HIDE DEF B
<1>7. e.box \in Bounding
  BY <1>3, <1>6, HullIs
<1>8. QED BY <1>2, <1>4, <1>7 DEF I, ids

\* What the backends answer for a page.
Answered(u) ==
    /\ u.width \in Nat /\ u.regions \in Regions /\ u.tokens \in Tokens /\ u.second \in Heard
    /\ u.found \in Seq(Bounding)

LEMMA AnswersAre == ASSUME NEW d \in Docs, NEW i \in DOMAIN d.units PROVE Answered(d.units[i])
BY AnswersAssumption DEF Answered, Regions, Tokens, Heard

PlacesOf(u) == {k \in DOMAIN Candidates(u) : u.grids[k].rows # <<>>}

LEMMA CandidatesAre ==
    ASSUME NEW u, Answered(u)
    PROVE  Candidates(u) \in Seq(Bounding)
<1> DEFINE K == {k \in DOMAIN u.regions : u.regions[k].label = "table"}
           labelled == Picked(u.regions, K)
           boxes == [k \in DOMAIN labelled |-> labelled[k].box]
           R == [box : Bounding, label : {"text", "other", "table"}]
<1>1. Candidates(u) = IF labelled # <<>> THEN boxes ELSE u.found
  BY DEF Candidates
<1>2. u.regions \in Seq(R) /\ u.found \in Seq(Bounding)
  BY DEF Answered, Regions
<1>3. K \in SUBSET DOMAIN u.regions
  OBVIOUS
<1> HIDE DEF K
<1>4. labelled \in Seq(R)
  BY <1>2, <1>3, PickedIs
<1> DEFINE l == Len(labelled)
<1> HIDE DEF labelled
<1>5. l \in Nat /\ DOMAIN labelled = 1..l /\ \A k \in 1..l : labelled[k] \in R
  BY ZenonT(30), <1>4, SeqHas
<1>6. boxes = [k \in 1..l |-> boxes[k]] /\ \A k \in 1..l : boxes[k] \in Bounding
  BY <1>5
<1> HIDE DEF boxes, l
<1>7. boxes \in Seq(Bounding)
  BY <1>5, <1>6, SeqMade
<1>8. QED BY <1>1, <1>2, <1>7

LEMMA PageTablesAre ==
    ASSUME NEW u, Answered(u)
    PROVE  /\ OfLength(PageTables(u)) /\ Lists(ByNumber(PlacesOf(u)), PlacesOf(u))
           /\ DOMAIN PageTables(u) = DOMAIN ByNumber(PlacesOf(u))
           /\ \A m \in DOMAIN PageTables(u) :
                 LET k == ByNumber(PlacesOf(u))[m]
                 IN  PageTables(u)[m] =
                        Table(Len(u.grids[k].rows), Len(u.grids[k].cols),
                              StructureCells(u.grids[k].rows, u.grids[k].cols, u.grids[k].spans, Candidates(u)[k]),
                              Candidates(u)[k])
<1> DEFINE S == PlacesOf(u)
           at == ByNumber(S)
<1>1. PageTables(u) = [m \in DOMAIN at |->
            LET k == at[m] IN
            Table(Len(u.grids[k].rows), Len(u.grids[k].cols),
                  StructureCells(u.grids[k].rows, u.grids[k].cols, u.grids[k].spans, Candidates(u)[k]),
                  Candidates(u)[k])]
  BY DEF PageTables, Ordered, ByNumber, NumberAt, PlacesOf
<1>2. IsFiniteSet(S) /\ S \in SUBSET Int
  <2> DEFINE l == Len(Candidates(u))
  <2>1. l \in Nat /\ DOMAIN Candidates(u) = 1..l
    BY CandidatesAre, SeqHas
  <2>2. S \in SUBSET (1..l)
    BY <2>1 DEF PlacesOf
  <2> HIDE DEF l
  <2>3. IsFiniteSet(1..l) /\ \A k \in 1..l : k \in Int
    BY <2>1, FS_Interval
  <2>4. QED BY <2>2, <2>3, FS_Subset
<1> HIDE DEF S
<1>3. Enumerates(at, S, Up(S))
  BY <1>2, ByNumberIs
<1>4. Lists(at, S)
  BY <1>2, <1>3, NumbersChain, EnumeratesLists
<1>5. DOMAIN at = 1..Len(at) /\ Len(at) \in Nat
  BY <1>4 DEF Lists
<1> HIDE DEF at
<1>6. DOMAIN PageTables(u) = DOMAIN at
  BY SMTT(30), <1>1
<1>7. OfLength(PageTables(u))
  BY <1>5, <1>6 DEF OfLength
<1>8. QED BY <1>1, <1>4, <1>6, <1>7 DEF at, S

\* A page with an image, and what its parts are.
UsedUp(u, tables) == UNION {Taken(u.tokens, t) : t \in ToSet(tables)}
Filled(u, tables) == [k \in DOMAIN tables |-> FillTable(u.tokens, tables[k])]
Loose(u, tables) == Orphans(u.tokens, u.regions, UsedUp(u, tables))
LaidOf(u, tables) == Laid(u.tokens, u.regions, Filled(u, tables), UsedUp(u, tables))
VisualForm(E, u, tables, rest, at) ==
    Composed(E, u.tokens, Filled(u, tables), Loose(u, tables), LaidOf(u, tables), rest, at)

LEMMA VisualFormIs ==
    ASSUME NEW u, Answered(u), NEW tables, OfLength(tables), NEW how
    PROVE  LET p == VisualPage(u, how, tables)
           IN  /\ p.route = how /\ p.width = u.width /\ p.tables = Filled(u, tables) /\ p.order = <<>>
               /\ \E rest, at : VisualForm(p.elements, u, tables, rest, at)
<1> DEFINE p == VisualPage(u, how, tables)
           tok == u.tokens
           filled == Filled(u, tables)
           owned == UsedUp(u, tables)
           orphans == Loose(u, tables)
           laid == LaidOf(u, tables)
           E == Elements(tok, filled, orphans, laid)
<1>1. p = Page(how, u.width, E, filled, Notes(tok, u.regions, filled, orphans, laid))
  BY DEF VisualPage, Merge, Filled, UsedUp, Loose, LaidOf
<1> HIDE DEF E, filled, orphans, laid
<1>2. p.route = how /\ p.width = u.width /\ p.tables = filled /\ p.elements = E /\ p.order = <<>>
  BY <1>1 DEF Page
<1>3. OfLength(filled)
  BY DEF OfLength, filled, Filled
<1>4. tok \in Tokens /\ u.regions \in Regions
  BY DEF Answered
<1>5. laid \in Lain(filled)
  BY <1>3, <1>4, LaidIs DEF laid, LaidOf, filled
<1>6. orphans \in SUBSET DOMAIN tok
  BY DEF orphans, Loose, Orphans
<1>7. \E rest, at : Composed(E, tok, filled, orphans, laid, rest, at)
  BY <1>3, <1>4, <1>5, <1>6, ElementsAre DEF E
<1>8. QED BY <1>2, <1>7 DEF VisualForm, filled, orphans, laid

LEMMA VisualReads ==
    ASSUME NEW u, Answered(u), NEW tables, OfLength(tables), NEW how,
           NEW k \in DOMAIN VisualPage(u, how, tables).elements
    PROVE  Readable(VisualPage(u, how, tables).elements[k])
<1> DEFINE Q == VisualPage(u, how, tables).elements
           tok == u.tokens
           filled == Filled(u, tables)
           orphans == Loose(u, tables)
           laid == LaidOf(u, tables)
           e == Q[k]
<1>1. PICK rest, at : Composed(Q, tok, filled, orphans, laid, rest, at)
  BY VisualFormIs DEF VisualForm
<1> DEFINE a == Len(laid.elements)
           b == Len(rest)
           c == Len(at)
<1>2. /\ Lists(rest, DOMAIN filled \ laid.shown) /\ Lists(at, Worded(tok, Blocks(tok, orphans)))
      /\ DOMAIN Q = 1..(a + b + c)
      /\ \A j \in 1..a : Q[j] = laid.elements[j]
      /\ \A j \in 1..b : Q[a + j] = Element(<<"t", rest[j]>>, "table", filled[rest[j]].box, <<>>, rest[j])
      /\ \A j \in 1..c : Recovered(Q[a + b + j], tok, Blocks(tok, orphans)[at[j]])
  BY <1>1 DEF Composed
<1> HIDE DEF Q, filled, orphans, laid
<1>3. OfLength(filled) /\ tok \in Tokens /\ u.regions \in Regions
  BY DEF OfLength, filled, Filled, Answered
<1>4. /\ laid \in Lain(filled) /\ a = Len(u.regions)
      /\ \A i \in DOMAIN u.regions : Stands(laid.elements[i], tok, u.regions, UsedUp(u, tables), i)
  BY <1>3, LaidIs DEF laid, LaidOf, filled
<1>5. a \in Nat /\ b \in Nat /\ c \in Nat /\ DOMAIN u.regions = 1..a /\ DOMAIN at = 1..c
  <2>1. Len(u.regions) \in Nat /\ DOMAIN u.regions = 1..Len(u.regions)
    BY <1>3, SeqHas DEF Regions
  <2>2. Len(rest) \in Nat /\ Len(at) \in Nat /\ DOMAIN at = 1..Len(at)
    BY <1>2 DEF Lists
  <2>3. QED BY <1>4, <2>1, <2>2
<1>6. k \in 1..a \/ (k - a) \in 1..b \/ (k - (a + b)) \in 1..c
  <2>1. k \in 1..(a + b + c)
    BY <1>2 DEF Q
  <2> HIDE DEF a, b, c
  <2>2. QED BY <1>5, <2>1
<1> HIDE DEF a, b, c
<1>7. CASE k \in 1..a
  <2>1. Stands(e, tok, u.regions, UsedUp(u, tables), k)
    BY <1>2, <1>4, <1>5, <1>7
  <2>2. e \in Piece
    BY <2>1 DEF Stands
  <2>3. QED BY <2>2 DEF Piece, Readable, Said, Q
<1>8. CASE (k - a) \in 1..b
  <2> DEFINE j == k - a
  <2>1. j \in 1..b /\ a + j = k
    BY <1>5, <1>6, <1>8, <1>2 DEF Q
  <2> HIDE DEF j
  <2>2. e = Element(<<"t", rest[j]>>, "table", filled[rest[j]].box, <<>>, rest[j])
    BY <1>2, <2>1
  <2>3. QED BY <2>2 DEF Element, Readable, Q
<1>9. CASE (k - (a + b)) \in 1..c
  <2> DEFINE j == k - (a + b)
  <2>1. j \in 1..c /\ a + b + j = k
    BY <1>5, <1>6, <1>9, <1>2 DEF Q
  <2> HIDE DEF j
  <2>2. Recovered(e, tok, Blocks(tok, orphans)[at[j]])
    BY <1>2, <2>1
  <2>3. at[j] \in Worded(tok, Blocks(tok, orphans))
    BY <1>2, <1>5, <2>1, ListHolds
  <2>4. orphans \in SUBSET DOMAIN tok
    BY DEF orphans, Loose, Orphans
  <2>5. e.text \in Seq(Int) /\ e.box \in Bounding
    BY <1>3, <2>2, <2>3, <2>4, RecoveredIs
  <2>6. "text" \in DOMAIN e
    BY <2>2 DEF Recovered
  <2>7. QED BY <2>5, <2>6 DEF Readable, Said, Q
<1>10. QED BY <1>6, <1>7, <1>8, <1>9

\* A page that may be read again, and has not been yet.
LEMMA DrawnReads ==
    ASSUME NEW d \in Docs, NEW i \in DOMAIN d.units, NEW p, From(p, d.units[i], {}), p.route \in Visually
    PROVE  \A k \in DOMAIN p.elements : Readable(p.elements[k])
<1> DEFINE u == d.units[i]
<1>1. Answered(u)
  BY AnswersAre
<1> HIDE DEF u
<1>2. PICK q \in Made(u) : Keeps(p, q, {})
  BY DEF From, u
<1>3. p.route = q.route /\ p.elements = q.elements
  BY <1>2 DEF Keeps
<1>4. OfficePage(u).route \notin Visually /\ NativePage(u).route \notin Visually /\ E2ePage(u).route \notin Visually
  <2>1. OfficePage(u).route = "native_office"
    BY DEF OfficePage, Page
  <2>2. E2ePage(u).route = "e2e"
    BY DEF E2ePage, Page
  <2>3. QED BY <2>1, <2>2, NativeIs DEF Visually
<1>5. PICK how \in Visually, tables \in {<<>>, PageTables(u)} : q = VisualPage(u, how, tables)
  BY <1>2, <1>3, <1>4 DEF Made
<1>6. OfLength(tables)
  <2>1. OfLength(<<>>)
    <3>1. DOMAIN <<>> = 1..0 /\ 0 \in Nat
      OBVIOUS
    <3>2. QED BY <3>1 DEF OfLength
  <2>2. QED BY <1>1, <1>5, <2>1, PageTablesAre
<1>7. QED BY <1>1, <1>3, <1>5, <1>6, VisualReads

\* Only the two passes end in a second reading.
LEMMA OnlyPasses ==
    ASSUME BudgetInv, Next, pc' \in {"fused", "reordered"}
    PROVE  RecoverElements \/ RecoverOrder
<1>1. ~(Tick \/ Snapshot \/ Preflight \/ Assess \/ Canonical \/ FallbackEnds \/ Office)
  BY DEF Tick, Snapshot, Preflight, Assess, Canonical, FallbackEnds, Office, Checked, Ended
<1>2. ~ Route
  BY DEF Route, Checked, StepOf
<1>3. ~(Render \/ RenderAgain \/ RenderImage \/ Visual)
  BY DEF Render, RenderAgain, RenderImage, Rendered, Visual, Checked
<1>4. ~(Layout \/ Ocr \/ TableStage)
  BY DEF Layout, Ocr, TableStage, Broken, Checked
<1>5. ~(Osd \/ Special \/ Compare \/ MergePage)
  BY DEF Osd, Special, Compare, MergePage, Checked
<1>6. ~(Refused \/ Predict \/ Collect \/ Assemble)
  BY DEF Refused, Predict, Collect, Assemble, Checked
<1>7. QED BY <1>1, <1>2, <1>3, <1>4, <1>5, <1>6 DEF Next

RecoveryStep ==
    pc' \in {"fused", "reordered"} =>
         \A k \in DOMAIN pages : \A i \in DOMAIN pages[k].elements :
             LET e == pages[k].elements[i]
                 new == pages'[k].elements[i].text
                 second == doc.units[k].second
             IN  new # e.text =>
                    Improved(e.text, new, Spoken(second, Readings(second, e.box)))

LEMMA StepRecovers == BudgetInv /\ MarkInv /\ PageInv /\ [Next]_vars => RecoveryStep \/ UNCHANGED vars
<1> SUFFICES ASSUME BudgetInv, MarkInv, PageInv, Next, pc' \in {"fused", "reordered"},
                    NEW k \in DOMAIN pages, NEW i \in DOMAIN pages[k].elements,
                    pages'[k].elements[i].text # pages[k].elements[i].text
             PROVE  LET e == pages[k].elements[i]
                        second == doc.units[k].second
                    IN  Improved(e.text, pages'[k].elements[i].text, Spoken(second, Readings(second, e.box)))
  BY DEF RecoveryStep
<1> DEFINE p == pages[k]
           e == p.elements[i]
           second == doc.units[k].second
           new == pages'[k].elements[i].text
<1>1. RecoverElements \/ RecoverOrder
  BY OnlyPasses
<1>2. /\ pc = "done" /\ doc \in Docs
      /\ \/ pc' = "fused" /\ pages'[k] = Reread(k, Fused)
         \/ pc' = "reordered" /\ pages'[k] = Reread(k, Reordered)
  BY <1>1 DEF RecoverElements, RecoverOrder, BudgetInv, Bounds
<1>3. From(p, doc.units[k], {}) /\ k \in DOMAIN doc.units
  <2>1. From(p, doc.units[k], {})
    BY <1>2 DEF PageInv, Drawn, Renewed
  <2>2. Len(pages) <= Len(doc.units) /\ DOMAIN pages = 1..Len(pages) /\ Len(pages) \in Nat
    BY DEF PageInv, Counting, MarkInv, Built
  <2>3. Len(doc.units) \in Nat /\ DOMAIN doc.units = 1..Len(doc.units)
    BY <1>2, Documents
  <2>4. QED BY <2>1, <2>2, <2>3
<1>4. p.route \in Visually /\ \A j \in DOMAIN p.elements : Readable(p.elements[j])
  <2>1. p.route \in Visually
    BY <1>2 DEF Reread
  <2>2. QED BY <1>2, <1>3, <2>1, DrawnReads
<1>5. Readable(e) /\ second \in Heard
  <2>1. Answered(doc.units[k])
    BY <1>2, <1>3, AnswersAre
  <2>2. QED BY <1>4, <2>1 DEF Answered
<1>6. "elements" \in DOMAIN p
  BY <1>3 DEF From, Keeps, Fields
<1>7. \/ pc' = "fused" /\ pages'[k].elements[i] = Fused(e, second)
      \/ pc' = "reordered" /\ pages'[k].elements[i] = Reordered(e, second)
  <2>1. ASSUME pages'[k] = Reread(k, Fused) PROVE pages'[k].elements[i] = Fused(e, second)
    BY <1>4, <1>6, <2>1 DEF Reread
  <2>2. ASSUME pages'[k] = Reread(k, Reordered) PROVE pages'[k].elements[i] = Reordered(e, second)
    BY <1>4, <1>6, <2>2 DEF Reread
  <2>3. QED BY <1>2, <2>1, <2>2
<1>8. CASE pc' = "fused" /\ pages'[k].elements[i] = Fused(e, second)
  <2>1. KeepsAll(e.text, new, Spoken(second, Readings(second, e.box)))
    BY <1>5, <1>8, FusedIs
  <2>2. QED BY <1>8, <2>1 DEF Improved, KeepsAll
<1>9. CASE pc' = "reordered" /\ pages'[k].elements[i] = Reordered(e, second)
  <2>1. KeepsMost(e.text, new, Spoken(second, Readings(second, e.box)))
    BY <1>5, <1>9, ReorderedIs
  <2>2. QED BY <1>9, <2>1 DEF Improved, KeepsMost
<1>10. QED BY <1>7, <1>8, <1>9

(***************************************************************************)
(* A second reading makes up nothing, whatever the second engine says.     *)
(* Fusion loses no word of a text; reordering loses only words the engine  *)
(* did not read, three in ten at most, and leaves a text alone that is in  *)
(* order.  (EvidenceGroup.fused_text, order_consistency.)                  *)
(***************************************************************************)
THEOREM RereadingKeepsWords == Spec => RecoveryKeepsWords
<1>1. BudgetInv /\ MarkInv /\ PageInv /\ [Next]_vars => [RecoveryStep]_vars
  BY StepRecovers
<1>2. Spec => [][RecoveryStep]_vars
  BY <1>1, PagesHold, PTL DEF Spec
<1>3. QED BY <1>2 DEF RecoveryKeepsWords, RecoveryStep
=============================================================================
