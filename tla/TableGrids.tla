----------------------------- MODULE TableGrids -----------------------------
(***************************************************************************)
(* How each route turns its source into the cells of a Table:              *)
(* _structure_cells (backends/table_backend.py), _TableHTMLParser          *)
(* (backends/paddleocr_vl_backend.py), _convert_docx_table,                *)
(* _convert_sheet and _convert_pptx_table (pipelines/office.py), and the   *)
(* rules of schemas/table.py that a table has to meet.                     *)
(*                                                                         *)
(* Rows and columns count from 0, as in the code.  A cell is               *)
(* [row, col, rs, cs, box, text], text being the OCR tokens it holds; a    *)
(* table is [rows, cols, cells, box, doubt], doubt being "none", "medium"  *)
(* (Table.confidence 0.5, also when a row was inferred) or "high" (0.25).  *)
(***************************************************************************)
EXTENDS Boxes

Cell(row, col, rs, cs, box) ==
    [row |-> row, col |-> col, rs |-> rs, cs |-> cs, box |-> box, text |-> <<>>]
Table(rows, cols, cells, box) ==
    [rows |-> rows, cols |-> cols, cells |-> cells, box |-> box, doubt |-> "none"]

\* The grid positions a cell occupies.
Slots(c) == (c.row .. c.row + c.rs - 1) \X (c.col .. c.col + c.cs - 1)
Covered(cells) == UNION {Slots(c) : c \in cells}
MaxOr(S, default) == IF S = {} THEN default ELSE Max(S)

\* validate_cells_within_dimensions: otherwise Table(...) raises ValueError.
Fits(t) == \A c \in ToSet(t.cells) : c.row + c.rs <= t.rows /\ c.col + c.cs <= t.cols
Disjoint(cells) == \A i, j \in DOMAIN cells :
                      i < j => Slots(cells[i]) \cap Slots(cells[j]) = {}
\* to_markdown takes to_html for a table with a merged cell, and to_html
\* raises ValueError on overlapping cells.
Renders(t) == (\E c \in ToSet(t.cells) : c.rs > 1 \/ c.cs > 1) => Disjoint(t.cells)

-----------------------------------------------------------------------------
\* Table Transformer: the row and column bands of one crop and its spanning
\* cells [x0, y0, x1, y1, conf].
Centred(bands, lo, hi) ==
    {i \in DOMAIN bands : 2 * lo <= bands[i][1] + bands[i][2] /\ bands[i][1] + bands[i][2] <= 2 * hi}
Run(S) == S # {} /\ S = Min(S)..Max(S)

\* A span counts when it stays inside the grid and covers two or more
\* adjacent positions.
SpanCells(rows, cols, spans) ==
    {[row |-> Min(Centred(rows, s.y0, s.y1)) - 1, col |-> Min(Centred(cols, s.x0, s.x1)) - 1,
      rs |-> Cardinality(Centred(rows, s.y0, s.y1)),
      cs |-> Cardinality(Centred(cols, s.x0, s.x1)), conf |-> s.conf] :
        s \in {s \in spans :
                 /\ cols[1][1] <= s.x0 /\ s.x1 <= Last(cols)[2]
                 /\ rows[1][1] <= s.y0 /\ s.y1 <= Last(rows)[2]
                 /\ Run(Centred(rows, s.y0, s.y1)) /\ Run(Centred(cols, s.x0, s.x1))
                 /\ \/ Cardinality(Centred(rows, s.y0, s.y1)) > 1
                    \/ Cardinality(Centred(cols, s.x0, s.x1)) > 1}}

\* The surest span first; one that overlaps an accepted span is ignored.
Merged(rows, cols, spans) ==
    LET key(s) == <<-s.conf, s.row, s.col, s.rs, s.cs>>
        take(acc, s) == IF Slots(s) \cap Covered(acc) = {} THEN acc \cup {s} ELSE acc
    IN  FoldLeft(take, {}, Ordered(SpanCells(rows, cols, spans), key))

StructureCells(rows, cols, spans, box) ==
    LET merged == Merged(rows, cols, spans)
        origin(r, c) == {s \in merged : s.row = r /\ s.col = c}
        size(r, c) == IF origin(r, c) = {} THEN <<1, 1>>
                      ELSE LET s == CHOOSE s \in origin(r, c) : TRUE IN <<s.rs, s.cs>>
        held == {p \in (0..Len(rows) - 1) \X (0..Len(cols) - 1) :
                   p \in Covered(merged) => origin(p[1], p[2]) # {}}
        key(p) == p
        cell(p) == LET rs == size(p[1], p[2])[1]
                       cs == size(p[1], p[2])[2]
                       R == {rows[i] : i \in p[1] + 1 .. p[1] + rs}
                       C == {cols[i] : i \in p[2] + 1 .. p[2] + cs}
                   IN  Cell(p[1], p[2], rs, cs,
                            Box(box.x0 + Min({b[1] : b \in C}), box.y0 + Min({b[1] : b \in R}),
                                box.x0 + Max({b[2] : b \in C}), box.y0 + Max({b[2] : b \in R})))
        order == Ordered(held, key)
    IN  [i \in DOMAIN order |-> cell(order[i])]

-----------------------------------------------------------------------------
\* PaddleOCR-VL: the <td rowspan= colspan=> of each <tr>, as <<rs, cs>>.  A
\* cell goes to the first columns that no rowspan from above still holds.
PlaceCell(st, size) ==
    LET free == {c \in st.col..Cardinality(DOMAIN st.spans) :
                   \A k \in c..(c + size[2] - 1) \cap DOMAIN st.spans : st.spans[k] = 0}
        c == Min(free)
    IN  [st EXCEPT !.cells = Append(@, Cell(st.row, c, size[1], size[2], NoBox)),
                   !.spans = [k \in DOMAIN @ |->
                                IF size[1] > 1 /\ k \in c..(c + size[2] - 1)
                                THEN Max({@[k], size[1]}) ELSE @[k]],
                   !.col = c + size[2]]
CloseRow(st) == [st EXCEPT !.row = @ + 1, !.col = 0,
                           !.spans = [k \in DOMAIN @ |-> Max({0, @[k] - 1})]]

HtmlTable(html, box) ==
    LET sizes == FlattenSeq(html)
        reach == FoldLeft(LAMBDA n, s : n + s[2], 0, sizes)
        start == [row |-> 0, col |-> 0, cells |-> <<>>, spans |-> [k \in 0..reach |-> 0]]
        cells == FoldLeft(LAMBDA st, tr : CloseRow(FoldLeft(PlaceCell, st, tr)), start, html).cells
        full == Cardinality({r \in DOMAIN html : html[r] # <<>>})
    IN  Table(Max({full} \cup {c.row + c.rs : c \in ToSet(cells)}),
              MaxOr({c.col + c.cs : c \in ToSet(cells)}, 0), cells, box)

-----------------------------------------------------------------------------
\* DOCX: grid[r][c] names the w:tc element at a position, repeated where a
\* merged cell covers several.
DocxTable(grid) ==
    LET key(r, c) == IF c \in DOMAIN grid[r] THEN grid[r][c] ELSE "none"
        right(r, c) == Min({k \in 1..Len(grid[r]) : key(r, c + k) # key(r, c)})
        down(r, c) == Min({k \in 1..Len(grid) :
                             r + k > Len(grid) \/ key(r + k, c) # key(r, c)})
        scan(acc, p) ==
            LET r == p[1]  c == p[2] IN
            IF \/ <<r - 1, c - 1>> \in Covered(ToSet(acc))
               \/ \E d \in ToSet(acc) : d.row = r - 1 /\ grid[r][d.col + 1] = grid[r][c]
            THEN acc ELSE Append(acc, Cell(r - 1, c - 1, down(r, c), right(r, c), NoBox))
        id(p) == p
    IN  Table(Len(grid), Len(grid[1]),
              FoldLeft(scan, <<>>,
                       Ordered({p \in (DOMAIN grid) \X (1..Len(grid[1])) : p[2] \in DOMAIN grid[p[1]]}, id)),
              NoBox)

\* XLSX: the used range is cut to MaxCells cells, shape kept; a merged range
\* keeps its full span.  merged holds ranges [row, col, rs, cs].
Cut(n, m, cap) == IF n * m <= cap THEN n
                  ELSE Max({1} \cup {k \in 1..n : k * k * m <= n * cap})
GridTable(rows, cols, merged, filled, box) ==
    LET origin(p) == {s \in merged : s.row = p[1] /\ s.col = p[2]}
        held == {p \in (0..rows - 1) \X (0..cols - 1) :
                   /\ \A s \in merged : p \in Slots(s) => p = <<s.row, s.col>>
                   /\ p \in filled \/ \E s \in origin(p) : s.rs > 1 \/ s.cs > 1}
        id(p) == p
        cell(p) == IF origin(p) = {} THEN Cell(p[1], p[2], 1, 1, box)
                   ELSE LET s == CHOOSE s \in origin(p) : TRUE
                        IN  Cell(p[1], p[2], s.rs, s.cs, box)
        order == Ordered(held, id)
    IN  Table(rows, cols, [i \in DOMAIN order |-> cell(order[i])], NoBox)
SheetTable(s, cap) ==
    GridTable(Cut(s.rows, s.cols, cap), Cut(s.cols, s.rows, cap), s.merged, s.filled, NoBox)
\* PPTX: every position that is not spanned by another cell has a cell.
PptxTable(s) == GridTable(s.rows, s.cols, s.merged, (0..s.rows - 1) \X (0..s.cols - 1), NoBox)
=============================================================================
