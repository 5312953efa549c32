----------------------------- MODULE PageMerge ------------------------------
(***************************************************************************)
(* How one scanned page is put together (pipelines/base.py): which table   *)
(* cell, layout region or recovered block each OCR token's text goes to    *)
(* (_fill_table_cell_text, merge_regions_into_page).                       *)
(*                                                                         *)
(* A scene is what the backends answered for a page: regions, a sequence   *)
(* of [box, label]; tokens, a sequence of [box, ink], ink being "word",    *)
(* "mark" (no letter or digit) or "none" (no text at all).  A token is its *)
(* position in tokens, and a text is the sequence of its tokens.           *)
(*                                                                         *)
(* Operators named Bug... are plausible slips in the code; each replaces   *)
(* the definition that follows it to show that a property can fail.        *)
(***************************************************************************)
EXTENDS TableGrids

Ink(tok, s) == Picked(s, {k \in DOMAIN s : tok[s[k]].ink # "none"})
Within(tok, S, box) == {i \in S : CenterIn(tok[i].box, box)}

\* Printed lines: LINE_BAND_Y_OVERLAP_MIN is one half of the shorter height.
SameLine(a, b) ==
    LET shorter == Min({Tall(a), Tall(b)})
    IN  AlongY(a, b) > 0 /\ shorter > 0 /\ 2 * AlongY(a, b) >= shorter

\* A token joins the first line it overlaps, which grows around it.
Bands(tok, S) ==
    LET key(i) == <<tok[i].box.y0, tok[i].box.x0, i>>
        join(bands, i) ==
            LET fits == {k \in DOMAIN bands : SameLine(bands[k].box, tok[i].box)}
            IN  IF fits = {}
                THEN Append(bands, [nth |-> Len(bands), box |-> tok[i].box, ids |-> {i}])
                ELSE [bands EXCEPT ![Min(fits)].box = Hull({@, tok[i].box}),
                                   ![Min(fits)].ids = @ \cup {i}]
    IN  ToSet(FoldLeft(join, <<>>, Ordered(S, key)))

\* _tokens_in_reading_order
InLines(tok, S) ==
    LET top(b) == <<b.box.y0, b.nth>>
        left(i) == <<tok[i].box.x0, tok[i].box.y0, i>>
        read(out, b) == out \o Ordered(b.ids, left)
    IN  FoldLeft(read, <<>>, Ordered(Bands(tok, S), top))

\* _cluster_orphans: lines one above the other, close and overlapping in x,
\* make one block.  ORPHAN_LINE_GAP_RATIO is 3/2.
Blocks(tok, S) ==
    LET key(b) == <<b.box.y0, b.box.x0, b.nth>>
        follows(p, b) == /\ AlongX(p, b.box) > 0
                         /\ 2 * (b.box.y0 - p.y1) <= 3 * Max({Tall(p), Tall(b.box), 1})
        join(blocks, b) ==
            IF blocks # <<>> /\ follows(Last(blocks).tail, b)
            THEN [blocks EXCEPT ![Len(blocks)] =
                    [tail |-> b.box, ids |-> @.ids \o InLines(tok, b.ids)]]
            ELSE Append(blocks, [tail |-> b.box, ids |-> InLines(tok, b.ids)])
    IN  FoldLeft(join, <<>>, Ordered(Bands(tok, S), key))

-----------------------------------------------------------------------------
\* The tiers of _fill_table_cell_text.  CELL_ROUNDING_MARGIN_PX is 3.
Margin == 3

\* Tier 1: a cell takes every token whose centre it holds.
Held(tok, c) == Ink(tok, InLines(tok, Within(tok, DOMAIN tok, c.box)))
Claimed(tok, t) == {i \in DOMAIN tok : \E c \in ToSet(t.cells) : CenterIn(tok[i].box, c.box)}

\* Tier 2: a token of the table that just misses exactly one cell.
Near(tok, t, i) == {k \in DOMAIN t.cells : CenterIn(tok[i].box, Expanded(t.cells[k].box, Margin))}
Missed(tok, t) == {i \in Within(tok, DOMAIN tok, t.box) \ Claimed(tok, t) :
                     Cardinality(Near(tok, t, i)) = 1}
Nudged(tok, t, k) ==
    LET id(i) == <<i>>
    IN  Ink(tok, Ordered({i \in Missed(tok, t) : Near(tok, t, i) = {k}}, id))

\* Tier 3: the rest, by row (ROW_BAND_Y_OVERLAP_MIN and COLUMN_ALIGN_MIN are
\* 0.3), makes a row when two columns or more take part.
SameRow(a, b) == AlongY(a, b) > 0 /\ 10 * AlongY(a, b) >= 3 * Min({Tall(a), Tall(b)})
Cluster(tok, S, i) ==
    LET grow(acc, k) == acc \cup {j \in S : \E m \in acc : SameRow(tok[j].box, tok[m].box)}
    IN  FoldLeft(grow, {i}, [k \in 1..Cardinality(S) |-> k])

Columns(t) == {c.col : c \in ToSet(t.cells)}
ColumnBand(t, col) == Hull({c.box : c \in {c \in ToSet(t.cells) : c.col = col}})
FirstCell(t, col) == Min({k \in DOMAIN t.cells : t.cells[k].col = col})
\* The column a token overlaps most, the one met first in a tie, as a set.
BestColumn(tok, t, i) ==
    {col \in Columns(t) :
        LET over(c) == Max({0, AlongX(tok[i].box, ColumnBand(t, c))})
        IN  /\ over(col) > 0 /\ 10 * over(col) >= 3 * Wide(tok[i].box)
            /\ \A c \in Columns(t) \ {col} :
                 \/ over(c) < over(col)
                 \/ over(c) = over(col) /\ FirstCell(t, col) < FirstCell(t, c)}
RowColumns(tok, t, cluster) == UNION {BestColumn(tok, t, i) : i \in cluster}

\* The clusters that become rows, first token first.
NewRows(tok, t) ==
    LET rest == Within(tok, DOMAIN tok, t.box) \ (Claimed(tok, t) \cup Missed(tok, t))
        first(c) == <<Min(c)>>
    IN  Ordered({c \in {Cluster(tok, rest, i) : i \in rest} :
                    Cardinality(RowColumns(tok, t, c)) >= 2}, first)
RowCells(tok, t, cluster, row) ==
    LET y == Hull({tok[i].box : i \in cluster})
        left(i) == <<tok[i].box.x0, i>>
        id(c) == <<c>>
        cols == Ordered(RowColumns(tok, t, cluster), id)
        own(c) == {i \in cluster : BestColumn(tok, t, i) = {c}}
        band(c) == ColumnBand(t, c)
    IN  [n \in DOMAIN cols |->
            [Cell(row, cols[n], 1, 1, Box(band(cols[n]).x0, y.y0, band(cols[n]).x1, y.y1))
                EXCEPT !.text = Ink(tok, Ordered(own(cols[n]), left))]]

\* (a wrong variant first: an inferred row stays last, wherever it is)
BugRenumbered(t) == [t EXCEPT !.rows = Cardinality({c.row : c \in ToSet(t.cells)})]
\* _renumber_rows_by_position: rows by their top edge, empty rows gone.
Renumbered(t) ==
    LET rows == {c.row : c \in ToSet(t.cells)}
        top(r) == Min({c.box.y0 : c \in {c \in ToSet(t.cells) : c.row = r}})
        first(r) == Min({k \in DOMAIN t.cells : t.cells[k].row = r})
        key(r) == <<top(r), first(r)>>
        order == Ordered(rows, key)
        place(r) == CHOOSE n \in DOMAIN order : order[n] = r
        moved(c) == [c EXCEPT !.row = place(c.row) - 1]
    IN  [t EXCEPT !.cells = [k \in DOMAIN @ |-> moved(@[k])], !.rows = Len(order)]

\* One table filled, and the tokens it took.
FillTable(tok, t) ==
    LET cells == [k \in DOMAIN t.cells |->
                    [t.cells[k] EXCEPT !.text = Held(tok, t.cells[k]) \o Nudged(tok, t, k)]]
        new == NewRows(tok, t)
        next == MaxOr({c.row : c \in ToSet(t.cells)}, -1) + 1
        added == FlattenSeq([n \in DOMAIN new |-> RowCells(tok, t, new[n], next + n - 1)])
    IN  IF new = <<>> THEN [t EXCEPT !.cells = cells]
        ELSE Renumbered([t EXCEPT !.cells = cells \o added, !.doubt = "medium"])
BugTaken(tok, t) == Claimed(tok, t)
Taken(tok, t) ==
    Claimed(tok, t) \cup Missed(tok, t)
      \cup UNION {{i \in c : BestColumn(tok, t, i) # {}} : c \in ToSet(NewRows(tok, t))}

-----------------------------------------------------------------------------
\* merge_regions_into_page.  An element is [id, type, box, text, table],
\* table being the position of its table among the page's tables, or 0.
Element(id, type, box, text, table) ==
    [id |-> id, type |-> type, box |-> box, text |-> text, table |-> table]

\* _gather_region_text
RegionText(tok, box, owned) == Ink(tok, InLines(tok, Within(tok, DOMAIN tok, box) \ owned))

\* The free table that fits a region best, the first in a tie, as a set.
BestTable(tables, taken, box) ==
    LET free == DOMAIN tables \ taken
        iou(k) == IoU(tables[k].box, box)
    IN  {k \in free : /\ 10 * iou(k)[1] > iou(k)[2]
                      /\ \A j \in free : ~ Above(iou(j), iou(k))
                      /\ \A j \in free : j < k => Above(iou(k), iou(j))}

\* The elements of a page: its regions, the tables no region stands for and
\* the blocks recovered from tokens that nothing holds.  A table region
\* without a table becomes an ordinary region, "other".
Orphans(tok, regions, owned) ==
    {i \in DOMAIN tok \ owned : ~ \E r \in ToSet(regions) : CenterIn(tok[i].box, r.box)}
Laid(tok, regions, tables, owned) ==
    LET wanted(i) == regions[i].label = "table"
        match(acc, i) == IF wanted(i) THEN BestTable(tables, acc.shown, regions[i].box) ELSE {}
        lay(acc, i) ==
            [shown |-> acc.shown \cup match(acc, i),
             elements |-> Append(acc.elements,
                IF match(acc, i) # {}
                THEN Element(<<"e", i>>, "table", regions[i].box, <<>>, Min(match(acc, i)))
                ELSE Element(<<"e", i>>, IF wanted(i) THEN "other" ELSE regions[i].label,
                             regions[i].box, RegionText(tok, regions[i].box, owned), 0))]
    IN  FoldLeft(lay, [elements |-> <<>>, shown |-> {}], [i \in DOMAIN regions |-> i])
Elements(tok, tables, orphans, laid) ==
    LET id(k) == <<k>>
        rest == Ordered(DOMAIN tables \ laid.shown, id)
        all == Blocks(tok, orphans)
        blocks == Picked(all, {j \in DOMAIN all : \E i \in ToSet(all[j].ids) : tok[i].ink = "word"})
        before == Len(laid.elements) + Len(rest)
    IN  laid.elements
          \o [j \in DOMAIN rest |-> Element(<<"t", rest[j]>>, "table", tables[rest[j]].box, <<>>, rest[j])]
          \o [j \in DOMAIN blocks |->
                 Element(<<"r", before + j - 1>>, "text",
                         Hull({tok[i].box : i \in ToSet(blocks[j].ids)}), Ink(tok, blocks[j].ids), 0)]
Notes(tok, regions, tables, orphans, laid) ==
    (IF tok = <<>> /\ \E r \in ToSet(regions) : r.label = "text" THEN {"empty OCR"} ELSE {})
      \cup (IF orphans # {} THEN {"orphan recovery"} ELSE {})
      \cup (IF \E t \in ToSet(tables) : t.doubt # "none" THEN {"inferred rows"} ELSE {})
      \cup (IF \E i \in DOMAIN regions : regions[i].label = "table" /\ laid.elements[i].type = "other"
            THEN {"table region without table"} ELSE {})
      \cup (IF DOMAIN tables \subseteq laid.shown THEN {} ELSE {"table without region"})
Merge(tok, regions, tables, owned) ==
    LET orphans == Orphans(tok, regions, owned)
        laid == Laid(tok, regions, tables, owned)
    IN  [elements |-> Elements(tok, tables, orphans, laid),
         notes |-> Notes(tok, regions, tables, orphans, laid)]
=============================================================================
