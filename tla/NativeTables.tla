---------------------------- MODULE NativeTables ----------------------------
(***************************************************************************)
(* A page of a digital PDF: the tables PyMuPDF finds on it, filled with    *)
(* whole text runs and judged by the quality gate                          *)
(* (backends/pymupdf_table_backend.py, ingest/table_quality.py), and the   *)
(* blocks and images that stay beside them (pipelines/pdf.py).             *)
(*                                                                         *)
(* A run is [box, size, colour, block]: one drawing operation, and the     *)
(* text block it is part of.  A found table is [box, rows, cols, broken]:  *)
(* rows holds the boxes of its cells, NoBox where a cell was merged away,  *)
(* and broken says that its conversion raises.                             *)
(***************************************************************************)
EXTENDS PageMerge

Places(t) == {p \in UNION {{r} \X DOMAIN t.rows[r] : r \in DOMAIN t.rows} : t.rows[p[1]][p[2]] # NoBox}
CellBox(t, p) == t.rows[p[1]][p[2]]
GridBox(t) == Hull({CellBox(t, p) : p \in Places(t)})
OnGrid(t, b) == Places(t) # {} /\ CenterIn(b, GridBox(t))

\* assign_runs_to_cells: a run centred on the grid goes, whole, to the cell
\* that holds most of it, the first in a tie.
BugCellOf(t, b) == {p \in Places(t) : OnGrid(t, b) /\ Shared(b, CellBox(t, p)) > 0}
CellOf(t, b) ==
    LET over(p) == Shared(b, CellBox(t, p))
    IN  {p \in Places(t) :
           /\ OnGrid(t, b) /\ over(p) > 0
           /\ \A q \in Places(t) \ {p} : over(q) < over(p) \/ (over(q) = over(p) /\ Less(p, q))}
Owned(t, runs, p) == {i \in DOMAIN runs : p \in CellOf(t, runs[i].box)}

\* convert_pymupdf_table: the merged-away cells to its right widen a cell;
\* those at the start of a row are nobody's.
SpanRight(row, c) == Min({k \in 1..Len(row) : c + k > Len(row) \/ row[c + k] # NoBox})
NativeCell(t, runs, p) ==
    LET key(i) == <<runs[i].box.y0, runs[i].box.x0, i>>
    IN  [Cell(p[1] - 1, p[2] - 1, 1, SpanRight(t.rows[p[1]], p[2]), CellBox(t, p))
           EXCEPT !.text = Ordered(Owned(t, runs, p), key)]

-----------------------------------------------------------------------------
\* assess_table over the runs in a cell or touching the table.
Touches(b, t) == AlongX(b, t.box) >= 0 /\ AlongY(b, t.box) >= 0
Considered(t, runs) ==
    {i \in DOMAIN runs : CellOf(t, runs[i].box) # {} \/ Touches(runs[i].box, t)}

\* A run that lies on several cells, mostly on none.
Crossing(t, runs) ==
    \E i \in Considered(t, runs) :
        LET b == runs[i].box
            on == {p \in Places(t) : 20 * Shared(b, CellBox(t, p)) > Area(b)}
        IN  Cardinality(on) > 1 /\ \A p \in on : 10 * Shared(b, CellBox(t, p)) < 6 * Area(b)

\* A run unlike the usual size and colour of its row, among three at least;
\* in a tie of the usual, one of the two.
Usual(S, of(_)) ==
    CHOOSE v \in {of(i) : i \in S} :
        \A w \in {of(i) : i \in S} : Cardinality({i \in S : of(i) = w}) <= Cardinality({i \in S : of(i) = v})
Outlier(t, runs) ==
    \E r \in DOMAIN t.rows :
        LET S == UNION {Owned(t, runs, p) : p \in {p \in Places(t) : p[1] = r}}
            size(i) == runs[i].size
            colour(i) == runs[i].colour
            off(i) == Max({size(i) - Usual(S, size), Usual(S, size) - size(i)})
        IN  /\ Cardinality(S) >= 3
            /\ \E i \in S : 100 * off(i) > 8 * Usual(S, size) /\ colour(i) # Usual(S, colour)

\* A cell with runs of more than one style: text of two origins.
Style(run) == <<run.size, run.colour>>
Mixed(t, runs) ==
    \E p \in Places(t) : Cardinality({Style(runs[i]) : i \in Owned(t, runs, p)}) > 1

\* Table.confidence: 0.25, 0.5 or none.
Doubt(t, runs) == IF Mixed(t, runs) THEN "high"
                  ELSE IF Crossing(t, runs) \/ Outlier(t, runs) THEN "medium" ELSE "none"

NativeTable(t, runs) ==
    LET id(p) == p
        order == Ordered(Places(t), id)
    IN  [Table(Len(t.rows), t.cols, [k \in DOMAIN order |-> NativeCell(t, runs, order[k])], t.box)
           EXCEPT !.doubt = Doubt(t, runs)]

\* PyMuPDFTableBackend.extract: a table that cannot be converted, or has no
\* grid, is skipped with a warning.
Usable(t) == ~ t.broken /\ t.rows # <<>> /\ t.cols > 0
FoundTables(u) ==
    LET usable == Picked(u.native, {k \in DOMAIN u.native : Usable(u.native[k])})
    IN  [k \in DOMAIN usable |-> NativeTable(usable[k], u.runs)]

-----------------------------------------------------------------------------
\* _extract_text_elements: the blocks in their order, then the images.
InBlock(u, b) == {i \in DOMAIN u.runs : u.runs[i].block = b}
BlockBox(u, b) == Hull({u.runs[i].box : i \in InBlock(u, b)})
TextElements(u) ==
    LET id(x) == <<x>>
        order == Ordered({u.runs[i].block : i \in DOMAIN u.runs}, id)
        block(k) == Element(<<"e", k>>, "text", BlockBox(u, order[k]), Ordered(InBlock(u, order[k]), id), 0)
    IN  [k \in DOMAIN order |-> block(k)]
          \o [k \in DOMAIN u.images |-> Element(<<"i", k>>, "image", u.images[k], <<>>, 0)]

\* _mostly_inside, and _drop_elements_inside_tables, which also drops images.
MostlyInside(a, b) == Shared(a, b) > 0 /\ 10 * Shared(a, b) >= 7 * Area(a)
Kept(elements, tables) ==
    LET covered(e) == e.box # NoBox /\ \E t \in ToSet(tables) : MostlyInside(e.box, t.box)
    IN  Picked(elements, {k \in DOMAIN elements : ~ covered(elements[k])})

NativeNotes(u, tables) ==
    {"text quality"}
      \cup (IF Len(tables) < Len(u.native) THEN {"skipped table"} ELSE {})
      \cup (IF \E t \in ToSet(tables) : t.doubt # "none" THEN {"suspicious table"} ELSE {})
NativeElements(u, tables) ==
    Kept(TextElements(u), tables)
      \o [k \in DOMAIN tables |-> Element(<<"t", k>>, "table", tables[k].box, <<>>, k)]
=============================================================================
