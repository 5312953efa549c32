--------------------------- MODULE ExtractionRun ----------------------------
(***************************************************************************)
(* process_file (cli.py) over one document, from the snapshot of the input *)
(* to the canonical document: routing, the office, digital-PDF, scanned    *)
(* and image pipelines with the per-page visual fallback, the stages of    *)
(* one page, the whole-document model, and the budgets of ResourceGuard    *)
(* (utils/limits.py) that all of them share.  What is published, and when, *)
(* is RunOutput's part; how the model process is supervised,               *)
(* ProcessWorker's.  A finished run may be read a second time (Rereading), *)
(* as the experiments do.                                                  *)
(*                                                                         *)
(* Docs are the documents a run may get.  A document says what a parser or *)
(* model would find in it:                                                 *)
(*   kind, engine    "pdf", "image", "office", "other"; "baseline", "e2e"  *)
(*   size            bytes of the input, in units of the temporary budget  *)
(*   layout, ocr, table, routed, fallback, reread                          *)
(*                   which backends are installed; CJK routing and page    *)
(*                   fallback switched on; a second reading follows        *)
(*   units           pages, slides or sheets, each with                    *)
(*     text          "clean", "garbled" (fails the quality gate) or "thin" *)
(*     raster        what its rendering takes of the temporary budget      *)
(*     width, runs, images, native                                         *)
(*                   page width, native text runs, boxes of its images,    *)
(*                   and the tables PyMuPDF finds (see NativeTables)       *)
(*     regions, tokens, grids, found                                       *)
(*                   what layout, OCR and table recognition answer: a grid *)
(*                   [rows, cols, spans] for each table region, or for     *)
(*                   each box of found when there is no table region       *)
(*     second        what a second OCR engine reads (see Rereading)        *)
(*     source        the table of an office unit, [form, body]             *)
(*     html          the tables of the whole-document model                *)
(*                                                                         *)
(* Operators named Bug... are plausible slips in the code; each replaces   *)
(* the definition that follows it to show that a property can fail.        *)
(***************************************************************************)
EXTENDS NativeTables, ReadingOrder, Rereading

CONSTANTS
    Docs,        \* the documents a run may get
    MaxTemp,     \* max_temp_bytes
    MaxUnits,    \* max_document_units
    MaxCells,    \* _XLSX_MAX_CELLS
    SampleSize,  \* digital_pdf_sample_pages
    MaxScratch   \* bound: what the model process writes in one request

ASSUME BudgetsAssumption ==
    /\ {MaxTemp, MaxScratch} \subseteq Nat /\ {MaxUnits, MaxCells, SampleSize} \subseteq Nat \ {0}
    /\ \A d \in Docs :
          /\ d.size \in Nat /\ Len(d.units) \in Nat \ {0} /\ DOMAIN d.units = 1..Len(d.units)
          /\ \A i \in DOMAIN d.units : d.units[i].raster \in Nat

\* What PyMuPDF gives of a page (_extract_text_elements, page_text_runs,
\* find_tables): lists, boxes with coordinates, blocks numbered.  A BBox is
\* never inside out (validate_bounds).
Bounding == [x0 : Int, y0 : Int, x1 : Int, y1 : Int]
Upright(b) == b.x0 <= b.x1 /\ b.y0 <= b.y1
AllUpright(s) == \A k \in DOMAIN s : Upright(s[k].box)
ASSUME UnitsAssumption ==
    \A d \in Docs : \A i \in DOMAIN d.units :
        /\ d.units[i].runs \in Seq([box : Bounding, size : Int, colour : Int, block : Int])
        /\ d.units[i].images \in Seq(Bounding)
        /\ d.units[i].native \in
             Seq([box : Bounding, rows : Seq(Seq(Bounding)), cols : Nat, broken : BOOLEAN])
        /\ AllUpright(d.units[i].runs) /\ AllUpright(d.units[i].native)
        /\ \A k \in DOMAIN d.units[i].images :
              Upright(d.units[i].images[k]) \/ d.units[i].images[k] = NoBox

\* PyMuPDF makes a row of the cells with one top, the rows from the top down;
\* a cell has a height, and col_count is the length of the longest row.
ASSUME NativeAssumption ==
    \A d \in Docs : \A i \in DOMAIN d.units : \A k \in DOMAIN d.units[i].native :
        LET t == d.units[i].native[k]
        IN  /\ \A r \in DOMAIN t.rows : Len(t.rows[r]) <= t.cols
            /\ \A p, q \in Places(t) :
                  /\ CellBox(t, p).y0 < CellBox(t, p).y1
                  /\ p[1] <= q[1] => CellBox(t, p).y0 <= CellBox(t, q).y0

\* What layout, OCR and the second engine answer for a page, and where tables
\* are detected: lists of boxes, each with what it is.
ASSUME AnswersAssumption ==
    \A d \in Docs : \A i \in DOMAIN d.units :
        /\ d.units[i].width \in Nat
        /\ d.units[i].regions \in Seq([box : Bounding, label : {"text", "other", "table"}])
        /\ d.units[i].tokens \in Seq([box : Bounding, ink : {"word", "mark", "none"}])
        /\ d.units[i].second \in Seq([box : Bounding, words : Seq(Int)])
        /\ d.units[i].found \in Seq(Bounding)
        /\ d.units[i].html \in Seq([rows : Seq(Seq((Nat \ {0}) \X (Nat \ {0}))), box : Bounding])
        /\ AllUpright(d.units[i].regions) /\ AllUpright(d.units[i].tokens)
        /\ \A k \in DOMAIN d.units[i].found : Upright(d.units[i].found[k])

\* What Table Transformer recognises in a table: bands <<start, end>> in the
\* order of their starts (rows.sort), each with an extent, and spans.  There
\* are columns when there are rows.
Bands2 == Seq(Int \X Int)
Sorted(bands) ==
    /\ \A k \in DOMAIN bands : bands[k][1] < bands[k][2]
    /\ \A k, m \in DOMAIN bands : k < m => bands[k][1] <= bands[m][1]
ASSUME GridsAssumption ==
    \A d \in Docs : \A i \in DOMAIN d.units :
        /\ d.units[i].grids \in
             Seq([rows : Bands2, cols : Bands2,
                  spans : SUBSET [x0 : Int, y0 : Int, x1 : Int, y1 : Int, conf : Int]])
        /\ \A k \in DOMAIN d.units[i].grids :
              LET g == d.units[i].grids[k]
              IN  /\ IsFiniteSet(g.spans) /\ (g.rows = <<>> <=> g.cols = <<>>)
                  /\ Sorted(g.rows) /\ Sorted(g.cols)

VARIABLES
    doc,       \* the document of this run
    pc,        \* the step the run is at
    route,     \* RouteDecision.route
    n,         \* the unit at hand
    pages,     \* the pages so far
    found,     \* the tables recognised on the page at hand
    todo,      \* the suspicious pages still to be extracted again
    reserved,  \* ResourceGuard._reserved_temp_bytes
    rendered,  \* what the rasters on disk take
    scratch,   \* what the model process left in its scratch directory
    late,      \* the deadline has passed
    overrun,   \* model calls begun after the deadline
    warned     \* RunMetadata.status is success_with_warnings

work == <<n, pages, todo, found>>
temp == <<reserved, rendered, scratch>>
vars == <<doc, pc, route, n, pages, todo, found, reserved, rendered, scratch, late, overrun, warned>>

unit == doc.units[n]

Steps == {"snapshot", "preflight", "route", "office", "digital", "canonical", "fallback",
          "render", "image", "visual", "layout", "osd", "special", "compare", "ocr",
          "table", "merge", "e2e", "collect", "assemble", "done", "failed",
          "fused", "reordered"}
Ended == {"done", "failed", "fused", "reordered"}
Routes == {"none", "native_office", "digital_pdf", "scanned_pdf", "image", "e2e"}

\* The routes of a page that has a rendered image.
Visually == {"scanned_pdf", "image", "digital_pdf+page_fallback"}

\* A page, before and after its reading order is known.
Page(how, width, elements, tables, notes) ==
    [route |-> how, width |-> width, elements |-> elements, tables |-> tables,
     notes |-> notes, order |-> <<>>]

Init ==
    /\ doc \in Docs
    /\ pc = "snapshot" /\ route = "none" /\ n = 1 /\ pages = <<>> /\ todo = {} /\ found = <<>>
    /\ reserved = 0 /\ rendered = 0 /\ late = FALSE /\ overrun = 0 /\ warned = FALSE
    \* an earlier document of the batch may have left files in the scratch
    \* directory of the model process
    /\ scratch \in IF doc.engine = "e2e" THEN 0..MaxScratch ELSE {0}

-----------------------------------------------------------------------------
\* Time passes between any two steps and inside any of them.
Tick == /\ ~ late /\ pc \notin Ended /\ late' = TRUE
        /\ UNCHANGED <<doc, pc, route, work, temp, overrun, warned>>
Passing == late' \in {late, TRUE}

\* check_runtime: on to the next step, unless the deadline has passed.
Checked(next) == pc' = IF late' THEN "failed" ELSE next

\* snapshot_input: a private copy, charged to the temporary budget.
Snapshot ==
    /\ pc = "snapshot" /\ Passing
    /\ \/ doc.size > MaxTemp /\ pc' = "failed" /\ UNCHANGED reserved
       \/ doc.size <= MaxTemp /\ reserved' = doc.size /\ Checked("preflight")
    /\ UNCHANGED <<doc, route, work, rendered, scratch, overrun, warned>>

\* reserve_raster
BugAffordable(cost) == cost <= MaxTemp
Affordable(cost) == reserved + cost <= MaxTemp

\* preflight_input
Preflight ==
    /\ pc = "preflight" /\ Passing
    /\ \/ /\ late \/ (doc.kind = "image" /\ ~ Affordable(unit.raster))
          /\ pc' = "failed" /\ UNCHANGED reserved
       \/ /\ ~ late /\ (doc.kind = "image" => Affordable(unit.raster))
          /\ reserved' = reserved + IF doc.kind = "image" THEN unit.raster ELSE 0
          /\ IF Len(doc.units) > MaxUnits THEN pc' = "failed" ELSE Checked("route")
    /\ UNCHANGED <<doc, route, work, rendered, scratch, overrun, warned>>

\* profile_pdf_text: the pages it samples, and the two gates of route().
Sampled == IF Len(doc.units) <= SampleSize THEN DOMAIN doc.units
           ELSE {(k * Len(doc.units)) \div SampleSize + 1 : k \in 0..SampleSize - 1}
Sample(text) == {i \in Sampled : doc.units[i].text = text}
Digital == /\ 10 * Cardinality(Sampled \ Sample("thin")) >= 6 * Cardinality(Sampled)
           /\ 100 * Cardinality(Sample("garbled")) <= 34 * Cardinality(Sampled)

RouteOf ==
    IF doc.engine = "e2e" THEN "e2e"
    ELSE CASE doc.kind = "office" -> "native_office"
           [] doc.kind = "image" -> "image"
           [] doc.kind = "pdf" -> IF Digital THEN "digital_pdf" ELSE "scanned_pdf"
           [] OTHER -> "none"
StepOf(r) == CASE r = "native_office" -> "office" [] r = "digital_pdf" -> "digital"
               [] r = "scanned_pdf" -> "render" [] r = "image" -> "image"
               [] r = "e2e" -> "e2e" [] OTHER -> "failed"
Route ==
    /\ pc = "route" /\ Passing
    /\ route' = RouteOf /\ Checked(StepOf(RouteOf))
    /\ UNCHANGED <<doc, work, temp, overrun, warned>>

-----------------------------------------------------------------------------
\* The native routes.

\* What an office file holds: in DOCX a merged cell, repeated by python-docx,
\* fills a rectangle of the grid; in XLSX and PPTX merged ranges do not overlap.
Forms == {"docx", "xlsx", "pptx"}
GridPlaces(grid) == UNION {{r} \X DOMAIN grid[r] : r \in DOMAIN grid}
Filling(grid, key) == {p \in GridPlaces(grid) : grid[p[1]][p[2]] = key}
Regular(grid) ==
    /\ grid \in Seq(Seq(STRING)) /\ grid # <<>>
    /\ \A p \in GridPlaces(grid) :
          /\ grid[p[1]][p[2]] # "none"
          /\ \E a, b \in GridPlaces(grid) :
                Filling(grid, grid[p[1]][p[2]]) = (a[1]..b[1]) \X (a[2]..b[2])
Ranged(s) ==
    /\ {s.rows, s.cols} \subseteq Nat
    /\ s.merged \subseteq [row : Nat, col : Nat, rs : Nat \ {0}, cs : Nat \ {0}]
    /\ \A a, b \in s.merged : a # b => Slots(a) \cap Slots(b) = {}
ASSUME SourcesAssumption ==
    \A d \in Docs : \A i \in DOMAIN d.units :
        LET s == d.units[i].source
        IN  /\ d.kind = "office" => s.form \in Forms
            /\ s.form = "docx" => Regular(s.body)
            /\ s.form \in {"xlsx", "pptx"} => Ranged(s.body)

\* _convert_docx_table, _convert_sheet, _convert_pptx_table
OfficeTable(s) == CASE s.form = "docx" -> DocxTable(s.body)
                    [] s.form = "xlsx" -> SheetTable(s.body, MaxCells)
                    [] OTHER -> PptxTable(s.body)
OfficePage(u) ==
    LET t == OfficeTable(u.source)
    IN  Page("native_office", 0, <<Element(<<"e", 1>>, "table", NoBox, <<>>, 1)>>, <<t>>,
             IF u.source.form = "xlsx" /\ u.source.body.rows * u.source.body.cols > MaxCells
             THEN {"truncated"} ELSE {})

\* One unit of parse_docx, parse_xlsx or parse_pptx.  A table that does not
\* fit its own dimensions raises ValueError.
Office ==
    /\ pc = "office" /\ Passing
    /\ IF late' \/ ~ Fits(OfficeTable(unit.source))
       THEN pc' = "failed" /\ UNCHANGED <<n, pages>>
       ELSE /\ pages' = Append(pages, OfficePage(unit))
            /\ IF n = Len(doc.units) THEN pc' = "collect" /\ n' = n
               ELSE pc' = "office" /\ n' = n + 1
    /\ UNCHANGED <<doc, route, todo, found, temp, overrun, warned>>

\* The page before any fallback, native tables taken as switched on.
NativePage(u) ==
    LET tables == FoundTables(u)
    IN  Page("digital_pdf", u.width, NativeElements(u, tables), tables, NativeNotes(u, tables))

\* The first loop of parse_digital_pdf, which only looks.
Assess ==
    /\ pc = "digital" /\ Passing /\ Checked("canonical")
    /\ UNCHANGED <<doc, route, work, temp, overrun, warned>>

BugSuspicious == {i - 1 : i \in {i \in DOMAIN doc.units : doc.units[i].text = "garbled"}}
Suspicious == {i \in DOMAIN doc.units : doc.units[i].text = "garbled"}

\* The second loop of parse_digital_pdf, one page.
Canonical ==
    /\ pc = "canonical" /\ Passing
    /\ IF late' THEN pc' = "failed" /\ UNCHANGED work
       ELSE /\ pages' = Append(pages, NativePage(unit)) /\ UNCHANGED found
            /\ IF n < Len(doc.units) THEN pc' = "canonical" /\ n' = n + 1 /\ UNCHANGED todo
               ELSE /\ pc' = "fallback" /\ UNCHANGED n
                    /\ todo' = IF doc.fallback THEN Suspicious ELSE {}
    /\ UNCHANGED <<doc, route, temp, overrun, warned>>

\* The next step of _apply_page_fallback after one page, and the end of it.
Marked(S) == [i \in DOMAIN pages |->
                IF i \in S THEN [pages[i] EXCEPT !.notes = @ \cup {"SUSPECT"}] ELSE pages[i]]
FallbackEnds ==
    /\ pc = "fallback"
    /\ \/ todo = {} /\ UNCHANGED <<todo, pages>>
       \/ /\ todo # {} /\ ~ (doc.layout /\ doc.ocr)
          /\ pages' = Marked(todo) /\ todo' = {}
    /\ pc' = "collect"
    /\ UNCHANGED <<doc, route, n, found, temp, late, overrun, warned>>

-----------------------------------------------------------------------------
\* The visual route.  A model call that raises ends the run, or, inside the
\* fallback, leaves the native page with a note; a spent budget ends the run
\* in both.
BugBroken ==
    IF route = "digital_pdf"
    THEN todo' = todo \ {n} /\ pc' = "fallback" /\ UNCHANGED <<n, pages, found>>
    ELSE pc' = "failed" /\ UNCHANGED work
Broken ==
    IF route = "digital_pdf"
    THEN pages' = Marked({n}) /\ todo' = todo \ {n} /\ pc' = "fallback" /\ UNCHANGED <<n, found>>
    ELSE pc' = "failed" /\ UNCHANGED work

\* render_pdf_pages and render_single_pdf_page, one page: reserved first,
\* then written.
Rendered(next, k) ==
    /\ reserved' = reserved + doc.units[k].raster
    /\ rendered' = rendered + doc.units[k].raster
    /\ Checked(next)
Render ==
    /\ pc = "render" /\ Passing
    /\ \/ (late \/ ~ Affordable(unit.raster)) /\ pc' = "failed" /\ UNCHANGED <<n, reserved, rendered>>
       \/ /\ ~ late /\ Affordable(unit.raster)
          /\ IF n < Len(doc.units) THEN Rendered("render", n) /\ n' = n + 1
             ELSE Rendered("visual", n) /\ n' = 1
    /\ UNCHANGED <<doc, route, pages, todo, found, scratch, overrun, warned>>
RenderAgain ==
    /\ pc = "fallback" /\ doc.layout /\ doc.ocr /\ Passing
    /\ n' \in todo /\ \A k \in todo : n' <= k
    /\ \/ /\ late \/ ~ Affordable(doc.units[n'].raster)
          /\ pc' = "failed" /\ UNCHANGED <<reserved, rendered>>
       \/ ~ late /\ Affordable(doc.units[n'].raster) /\ Rendered("visual", n')
    /\ UNCHANGED <<doc, route, pages, todo, found, scratch, overrun, warned>>

\* render_image_passthrough: the raster was reserved by the preflight.
RenderImage ==
    /\ pc = "image" /\ Passing
    /\ rendered' = rendered + unit.raster /\ pc' = "visual"
    /\ UNCHANGED <<doc, route, work, reserved, scratch, overrun, warned>>

\* parse_scanned_pdf's and run_scanned_page_pipeline's first check.
Visual ==
    /\ pc = "visual" /\ Passing /\ Checked("layout")
    /\ UNCHANGED <<doc, route, work, temp, overrun, warned>>

\* A call of a model: begun late or not, and time passes in it.
Call == Passing /\ overrun' = overrun + IF late THEN 1 ELSE 0

Layout ==
    /\ pc = "layout"
    /\ \/ doc.layout /\ Call /\ UNCHANGED work /\ Checked(IF doc.routed THEN "osd" ELSE "ocr")
       \/ doc.layout /\ Call /\ Broken
       \/ ~ doc.layout /\ Broken /\ UNCHANGED <<late, overrun>>
    /\ UNCHANGED <<doc, route, temp, warned>>

\* run_ocr, and RoutedOCRBackend's call of its baseline.
Ocr ==
    /\ pc = "ocr"
    /\ \/ doc.ocr /\ Call /\ UNCHANGED work /\ Checked("table")
       \/ doc.ocr /\ Call /\ UNCHANGED work /\ pc' = "failed"   \* ResourceLimitExceeded
       \/ doc.ocr /\ Call /\ Broken
       \/ ~ doc.ocr /\ Broken /\ UNCHANGED <<late, overrun>>
    /\ UNCHANGED <<doc, route, temp, warned>>

\* RoutedOCRBackend.recognize: every failure of the script detection and of
\* the specialised recogniser, a spent deadline included, means the baseline.
\* A detection after the deadline is not begun.
Osd ==
    /\ pc = "osd"
    /\ IF doc.ocr THEN Passing /\ pc' \in IF late THEN {"ocr"} ELSE {"ocr", "special"}
       ELSE pc' = "ocr" /\ UNCHANGED late
    /\ UNCHANGED <<doc, route, work, temp, overrun, warned>>
Special ==
    /\ pc = "special" /\ Call /\ pc' \in {"ocr", "compare"}
    /\ UNCHANGED <<doc, route, work, temp, warned>>
\* The baseline is read to judge the specialised text, and again if that
\* failed and the text is refused.
Compare ==
    /\ pc = "compare" /\ Call
    /\ Checked("table") \/ pc' = "ocr"
    /\ UNCHANGED <<doc, route, work, temp, warned>>

\* TableTransformerBackend.extract: a table for each candidate with a grid.
Candidates(u) ==
    LET labelled == Picked(u.regions, {k \in DOMAIN u.regions : u.regions[k].label = "table"})
    IN  IF labelled # <<>> THEN [k \in DOMAIN labelled |-> labelled[k].box] ELSE u.found
\* It answers for each place it is asked about.
ASSUME CandidatesAssumption ==
    \A d \in Docs : \A i \in DOMAIN d.units : DOMAIN Candidates(d.units[i]) \subseteq DOMAIN d.units[i].grids
PageTables(u) ==
    LET id(k) == <<k>>
        at == Ordered({k \in DOMAIN Candidates(u) : u.grids[k].rows # <<>>}, id)
        grid(k) == u.grids[k]
    IN  [m \in DOMAIN at |->
            LET k == at[m] IN
            Table(Len(grid(k).rows), Len(grid(k).cols),
                  StructureCells(grid(k).rows, grid(k).cols, grid(k).spans, Candidates(u)[k]),
                  Candidates(u)[k])]
\* run_table.  A missing backend means a page without tables.
TableStage ==
    /\ pc = "table"
    /\ \/ ~ doc.table /\ found' = <<>> /\ pc' = "merge" /\ UNCHANGED <<n, pages, todo, late, overrun>>
       \/ doc.table /\ Call /\ found' = PageTables(unit) /\ Checked("merge") /\ UNCHANGED <<n, pages, todo>>
       \/ doc.table /\ Call /\ Broken
    /\ UNCHANGED <<doc, route, temp, warned>>

\* _fill_table_cell_text and merge_regions_into_page.  The fallback keeps the
\* notes of the native page and drops those of the new one.
VisualPage(u, how, tables) ==
    LET filled == [k \in DOMAIN tables |-> FillTable(u.tokens, tables[k])]
        page == Merge(u.tokens, u.regions, filled, UNION {Taken(u.tokens, t) : t \in ToSet(tables)})
    IN  Page(how, u.width, page.elements, filled, page.notes)
MergePage ==
    /\ pc = "merge" /\ Passing
    /\ \/ /\ route = "digital_pdf"
          /\ pages' = [pages EXCEPT ![n] =
               [VisualPage(unit, "digital_pdf+page_fallback", found)
                  EXCEPT !.notes = pages[n].notes \cup {"re-extracted"}]]
          /\ todo' = todo \ {n} /\ pc' = "fallback" /\ UNCHANGED n
       \/ /\ route # "digital_pdf"
          /\ pages' = Append(pages, VisualPage(unit, route, found)) /\ UNCHANGED todo
          /\ IF n < Len(doc.units) THEN pc' = "visual" /\ n' = n + 1
             ELSE pc' = "collect" /\ UNCHANGED n
    /\ found' = <<>>
    /\ UNCHANGED <<doc, route, temp, overrun, warned>>

-----------------------------------------------------------------------------
\* PaddleOCRVLBackend.convert: the worker may use what is left of the budget;
\* one that uses more, or is late, is killed and its scratch removed.
\* A block whose HTML holds no cell stays as text, with a note.
HtmlTableOf(u, k) == HtmlTable(u.html[k].rows, u.html[k].box)
WithCells(u) ==
    LET id(k) == <<k>>
    IN  Ordered({k \in DOMAIN u.html : HtmlTableOf(u, k).rows > 0 /\ HtmlTableOf(u, k).cols > 0}, id)
E2ePage(u) ==
    LET at == WithCells(u)
        block(k) == IF k \in ToSet(at)
                    THEN Element(<<"e", k>>, "table", u.html[k].box, <<>>, CHOOSE m \in DOMAIN at : at[m] = k)
                    ELSE Element(<<"e", k>>, "text", u.html[k].box, <<>>, 0)
    IN  [Page("e2e", u.width, [k \in DOMAIN u.html |-> block(k)],
              [m \in DOMAIN at |-> HtmlTableOf(u, at[m])],
              IF Len(at) < Len(u.html) THEN {"unsupported"} ELSE {})
           EXCEPT !.order = [k \in DOMAIN u.html |-> k]]
Accepted(u) == \A t \in ToSet(E2ePage(u).tables) : Fits(t) /\ Disjoint(t.cells)

Refused ==
    /\ pc = "e2e"
    /\ doc.kind # "image" \/ late \/ reserved >= MaxTemp
    /\ pc' = "failed"
    /\ UNCHANGED <<doc, route, work, temp, late, overrun, warned>>
Predict ==
    /\ pc = "e2e" /\ doc.kind = "image" /\ ~ late /\ reserved < MaxTemp
    /\ Passing /\ overrun' = overrun
    /\ \E more \in 0..MaxScratch :
         \/ /\ scratch + more <= MaxTemp - reserved /\ scratch' = scratch + more
            /\ IF Accepted(unit)
               THEN pages' = <<E2ePage(unit)>> /\ Checked("collect")
               ELSE pc' = "failed" /\ UNCHANGED pages
         \/ /\ scratch + more > MaxTemp - reserved \/ late'
            /\ scratch' = 0 /\ pc' = "failed" /\ UNCHANGED pages
    /\ UNCHANGED <<doc, route, n, todo, found, reserved, rendered, warned>>

-----------------------------------------------------------------------------
\* _collect_page_warnings: a page with a note, before verify_document adds its own.
Collect ==
    /\ pc = "collect" /\ Passing /\ Checked("assemble")
    /\ warned' = \E p \in ToSet(pages) : p.notes # {}
    /\ UNCHANGED <<doc, route, work, temp, overrun>>

\* verify_document, over what was produced: a text that fails the quality gate
\* is noted on its page, after the run's status was decided.
Judged == {i \in DOMAIN pages :
             \E e \in ToSet(pages[i].elements) :
                 e.text # <<>> \/ (pages[i].route = "e2e" /\ e.type = "text")}
Verified(p, fails) == IF fails THEN [p EXCEPT !.notes = @ \cup {"verification"}] ELSE p

\* assemble_document: the pages are put in order, verified and rendered; a
\* table that cannot be rendered ends the run.
InOrder(p) ==
    IF p.order # <<>> THEN p
    ELSE [p EXCEPT !.order = ReadingOrder([k \in DOMAIN p.elements |-> p.elements[k].box], p.width)]
Assemble ==
    /\ pc = "assemble" /\ Passing
    /\ IF \E p \in ToSet(pages) : \E t \in ToSet(p.tables) : ~ Renders(t)
       THEN pc' = "failed" /\ UNCHANGED pages
       ELSE /\ \E S \in SUBSET Judged :
                 pages' = [i \in DOMAIN pages |-> Verified(InOrder(pages[i]), i \in S)]
            /\ Checked("done")
    /\ UNCHANGED <<doc, route, n, todo, found, temp, overrun, warned>>

-----------------------------------------------------------------------------
\* The passes of Rereading over every page with an image; the rest of a page,
\* its order and its tables stay.
Reread(k, read(_, _)) ==
    IF pages[k].route \notin Visually THEN pages[k]
    ELSE [pages[k] EXCEPT !.elements = [i \in DOMAIN @ |-> read(@[i], doc.units[k].second)]]
RecoverElements ==
    /\ pc = "done" /\ doc.reread /\ pc' = "fused"
    /\ pages' = [k \in DOMAIN pages |-> Reread(k, Fused)]
    /\ UNCHANGED <<doc, route, n, todo, found, temp, late, overrun, warned>>
RecoverOrder ==
    /\ pc = "done" /\ doc.reread /\ pc' = "reordered"
    /\ pages' = [k \in DOMAIN pages |-> Reread(k, Reordered)]
    /\ UNCHANGED <<doc, route, n, todo, found, temp, late, overrun, warned>>

Next == \/ Tick \/ Snapshot \/ Preflight \/ Route
        \/ Office \/ Assess \/ Canonical \/ FallbackEnds
        \/ Render \/ RenderAgain \/ RenderImage \/ Visual
        \/ Layout \/ Ocr \/ Osd \/ Special \/ Compare \/ TableStage \/ MergePage
        \/ Refused \/ Predict \/ Collect \/ Assemble
        \/ RecoverElements \/ RecoverOrder

Spec == Init /\ [][Next]_vars

-----------------------------------------------------------------------------
(* The state has its types; the unit at hand and the pages still to be     *)
(* extracted again are units of the document, and a page is for one unit.  *)
TypeOK ==
    /\ pc \in Steps /\ route \in Routes
    /\ n \in DOMAIN doc.units /\ Len(pages) <= Len(doc.units)
    /\ todo \subseteq DOMAIN doc.units
    /\ reserved \in Nat /\ rendered \in Nat /\ scratch \in Nat
    /\ late \in BOOLEAN /\ overrun \in Nat /\ warned \in BOOLEAN

\* Where token i of page p ends up: cells, and the elements whose text has it.
Holders(p, i) == {c \in UNION {{t} \X ToSet(t.cells) : t \in ToSet(p.tables)} : i \in ToSet(c[2].text)}
Written(p, i) == {k \in DOMAIN p.elements : i \in ToSet(p.elements[k].text)}
\* The regions of the page over token i: as text, and as the place of a table.
Over(p, box, S) == {k \in DOMAIN p.elements : p.elements[k].id[1] = "e"
                       /\ p.elements[k].type \in S /\ CenterIn(box, p.elements[k].box)}
OrdinaryTypes == {"text", "other"}

(* Text recognised on a page is kept, once: a token of a cell is in no     *)
(* element's text, not even after the cell missed its centre; any other is *)
(* in the text of exactly the ordinary regions over it, or of one          *)
(* recovered block; two cells share it only if they, or for different      *)
(* tables they or their tables, overlap there.  The one way out is a word  *)
(* in a table region that has its table but no cell for it.                *)
(* (_fill_table_cell_text, merge_regions_into_page, _orphan_tokens: three  *)
(* margins, one ledger.)                                                   *)
KeptOnce(p, i, tok) ==
    LET box == tok[i].box
        ordinary == Over(p, box, OrdinaryTypes)
        shown == Over(p, box, {"table"})
    IN  /\ Holders(p, i) # {} => Written(p, i) = {}
        /\ Holders(p, i) = {} /\ tok[i].ink = "word" =>
             IF ordinary # {} THEN Written(p, i) = ordinary
             ELSE IF shown = {} THEN Cardinality(Written(p, i)) = 1
             ELSE Written(p, i) = {}
        /\ \A a, b \in Holders(p, i) : a # b =>
             IF a[1] = b[1] THEN CenterIn(box, a[2].box) /\ CenterIn(box, b[2].box)
             ELSE \A h \in {a, b} : CenterIn(box, h[2].box) \/ CenterIn(box, h[1].box)
        /\ \A text \in {c[2].text : c \in Holders(p, i)} \cup {p.elements[k].text : k \in Written(p, i)} :
             Cardinality({m \in DOMAIN text : text[m] = i}) = 1
EvidenceKeptOnce ==
    pc \notin {"fused", "reordered"} => \A k \in DOMAIN pages : pages[k].route \in Visually =>
        \A i \in DOMAIN doc.units[k].tokens :
            doc.units[k].tokens[i].ink # "none" => KeptOnce(pages[k], i, doc.units[k].tokens)

(* The cells of a table stay inside its dimensions and off each other, and *)
(* its rows follow the page, whatever route built it; but a row inferred   *)
(* into a table with a cell over several rows breaks the first two.        *)
(* (_structure_cells, _TableHTMLParser, the office converters,             *)
(* _renumber_rows_by_position.)                                            *)
GridsAreSound ==
    \A p \in ToSet(pages) : \A t \in ToSet(p.tables) :
        /\ t.doubt = "none" \/ (\A c \in ToSet(t.cells) : c.rs = 1) => Fits(t) /\ Disjoint(t.cells)
        /\ \A a, b \in ToSet(t.cells) :
             a.box # NoBox /\ b.box # NoBox /\ a.box.y1 <= b.box.y0 => a.row < b.row

(* A finished page is read once, and downward unless the whole-document    *)
(* model gave its order: no element is read before one that stands wholly  *)
(* above it in its way, columns, elements across them and recovered blocks *)
(* together.                                                               *)
ReadsDownward ==
    pc = "done" => \A p \in ToSet(pages) :
        LET boxes == [k \in DOMAIN p.elements |-> p.elements[k].box]
        IN  /\ ReadOnce(boxes, p.order)
            /\ p.route # "e2e" => ReadDown(boxes, p.order, p.width)

(* Every text run of a digital page is in one cell of a table at most, and *)
(* whole; in no cell of the page and in no element, so lost, only if its   *)
(* block lies for the most part in a table whose grid does not hold it, as *)
(* none holds a run without a width or a height;                           *)
(* and twice on the page, in a cell and in the text of its block, only if  *)
(* that block lies for the most part in no table.  A table with a cell of  *)
(* two origins is labelled, and so is its page.  (assign_runs_to_cells,    *)
(* _drop_elements_inside_tables: runs judged one by one, blocks whole;     *)
(* assess_table.)                                                          *)
NativeKept(p, u, i) ==
    LET block == BlockBox(u, u.runs[i].block)
        around == {t \in ToSet(p.tables) : MostlyInside(block, t.box)}
        in(t) == {c \in ToSet(t.cells) : i \in ToSet(c.text)}
    IN  /\ \A t \in ToSet(p.tables) : Cardinality(in(t)) <= 1
        /\ Written(p, i) = {} /\ Holders(p, i) = {} =>
             \E t \in around : \A c \in ToSet(t.cells) :
                HasExtent(u.runs[i].box) /\ HasExtent(c.box) => ~ CenterIn(u.runs[i].box, c.box)
        /\ Written(p, i) # {} => around = {} /\ Cardinality(Written(p, i)) = 1
TwoOrigins(c, u) == Cardinality({Style(u.runs[i]) : i \in ToSet(c.text)}) > 1
NativeTextKept ==
    \A k \in DOMAIN pages : pages[k].route = "digital_pdf" =>
        /\ \A i \in DOMAIN doc.units[k].runs : NativeKept(pages[k], doc.units[k], i)
        /\ \A t \in ToSet(pages[k].tables) :
              (\E c \in ToSet(t.cells) : TwoOrigins(c, doc.units[k])) =>
                  t.doubt = "high" /\ "suspicious table" \in pages[k].notes

(* A page whose native text failed the quality gate leaves the run as a    *)
(* page that was extracted again or as one marked SUSPECT, whichever model *)
(* was missing or failed; a page that passed is not extracted again.  The  *)
(* status of the run is a warning exactly when a page carries a note, of   *)
(* whatever step, but for those of verify_document.                        *)
SuspectsAreMarked ==
    /\ pc = "done" => warned = \E p \in ToSet(pages) : p.notes \ {"verification"} # {}
    /\ pc = "done" /\ route = "digital_pdf" =>
         \A k \in DOMAIN pages :
            doc.fallback =>
                IF doc.units[k].text = "garbled"
                THEN pages[k].route = "digital_pdf+page_fallback" \/ "SUSPECT" \in pages[k].notes
                ELSE pages[k].route = "digital_pdf"

(* What is on disk was reserved before and fits the budget; a result of    *)
(* the model process is taken only if its scratch fits too; and past its   *)
(* deadline a run begins one model call, or three when OCR is routed by    *)
(* script, whose failures, a spent deadline included, mean the baseline.   *)
WithinBudget ==
    /\ rendered <= reserved /\ reserved <= MaxTemp
    /\ pc \in {"collect", "assemble", "done"} => reserved + scratch <= MaxTemp
    /\ overrun <= IF doc.routed THEN 3 ELSE 1

(* A second reading that replaces a text makes up nothing and passes the   *)
(* gate.  Fusion keeps every word of the old text, even where both agree;  *)
(* reordering loses only words that the second engine did not read, three  *)
(* in ten at most, and leaves a text alone whose words all come in the     *)
(* same order, each read once.  (EvidenceGroup.fused_text, order_consistency.) *)
Kin(old, new) ==   \* old, word for word, in the order of new
    \E at \in [DOMAIN old -> DOMAIN new] :
        /\ \A i \in DOMAIN old : new[at[i]] = old[i]
        /\ \A i, j \in DOMAIN old : i < j => at[i] < at[j]
Improved(old, new, spoken) ==
    /\ ToSet(new) \subseteq ToSet(old) \cup spoken /\ Plausible(new)
    /\ pc' = "fused" => ToSet(old) \subseteq ToSet(new)
    /\ pc' = "reordered" =>
         /\ (ToSet(old) \ ToSet(new)) \cap spoken = {}
         /\ 10 * Cardinality(ToSet(old) \ ToSet(new)) <= 3 * Len(old)
         /\ IsInjective(new) => ~ Kin(old, new)
RecoveryKeepsWords ==
    [][pc' \in {"fused", "reordered"} =>
         \A k \in DOMAIN pages : \A i \in DOMAIN pages[k].elements :
             LET e == pages[k].elements[i]
                 new == pages'[k].elements[i].text
                 second == doc.units[k].second
             IN  new # e.text =>
                    Improved(e.text, new, Spoken(second, Readings(second, e.box)))]_vars
=============================================================================
