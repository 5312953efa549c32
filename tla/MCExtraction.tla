---------------------------- MODULE MCExtraction ----------------------------
(***************************************************************************)
(* The documents of the extraction runs.  Each kind varies what its route  *)
(* depends on; the coordinates are those of a page 100 wide.               *)
(***************************************************************************)
EXTENDS ExtractionRun

Token(x0, y0, x1, y1, ink) == [box |-> Box(x0, y0, x1, y1), ink |-> ink]
Region(x0, y0, x1, y1, label) == [box |-> Box(x0, y0, x1, y1), label |-> label]
NoGrid == [rows |-> <<>>, cols |-> <<>>, spans |-> {}]
EmptyPage == [text |-> "clean", raster |-> 2, width |-> 100,
              runs |-> <<>>, images |-> <<>>, native |-> <<>>,
              regions |-> <<>>, tokens |-> <<>>, grids |-> <<>>, found |-> <<>>, second |-> <<>>,
              source |-> [form |-> "none"], html |-> <<>>]
APage == [kind |-> "pdf", engine |-> "baseline", size |-> 1, layout |-> TRUE, ocr |-> TRUE,
          table |-> TRUE, routed |-> FALSE, fallback |-> TRUE, reread |-> FALSE,
          units |-> <<EmptyPage>>]

-----------------------------------------------------------------------------
\* One scanned page: a table at (0,20)-(100,60) and what may stand around it.
Layouts == {
    <<Region(0, 0, 100, 18, "text"), Region(0, 20, 100, 60, "table"),
      Region(0, 62, 44, 100, "text"), Region(56, 62, 100, 100, "text")>>,
    \* a caption region over the lower edge of the table
    <<Region(0, 20, 100, 60, "table"), Region(0, 54, 100, 80, "text")>>,
    \* two table regions over one another
    <<Region(0, 20, 100, 60, "table"), Region(0, 50, 100, 90, "table")>>,
    \* no region: tables are looked for on the whole page
    <<>>}
Span(x0, y0, x1, y1) == [x0 |-> x0, y0 |-> y0, x1 |-> x1, y1 |-> y1, conf |-> 9]
Grid(rows, spans) == [rows |-> rows, cols |-> <<<<0, 48>>, <<52, 100>>>>, spans |-> spans]
Grids == {
    Grid(<<<<0, 10>>, <<10, 20>>, <<30, 40>>>>, {}),                     \* a row is missed
    Grid(<<<<0, 10>>, <<10, 20>>, <<30, 38>>>>, {Span(0, 0, 48, 20)}),   \* and a cell spans two
    \* spans over one another, and one the bands do not hold
    Grid(<<<<0, 10>>, <<10, 20>>, <<20, 40>>>>,
         {[Span(0, 0, 100, 10) EXCEPT !.conf = 8], Span(0, 0, 48, 20), Span(0, 30, 100, 60)}),
    NoGrid}
Words == <<
    Token(5, 4, 20, 12, "word"),   Token(25, 6, 40, 15, "word"),  Token(5, 21, 30, 28, "word"),
    Token(48, 22, 54, 28, "word"), Token(5, 42, 30, 49, "word"),  Token(60, 42, 90, 48, "word"),
    Token(5, 57, 30, 63, "word"),  Token(60, 58, 90, 67, "word"), Token(45, 80, 55, 88, "mark"),
    Token(5, 84, 20, 88, "none"),  Token(47, 89, 54, 95, "word")>>
\* The members of a sequence at the positions of S, in its order.
Chosen(s, S) == [k \in 1..Cardinality(S) |-> s[CHOOSE i \in S : Cardinality({j \in S : j < i}) = k - 1]]
UpTo(m, s) == {S \in SUBSET DOMAIN s : Cardinality(S) <= m}
Scan(regions, grid, words) ==
    [EmptyPage EXCEPT !.regions = regions, !.grids = <<grid, Grid(<<<<0, 20>>, <<20, 40>>>>, {})>>,
                      !.found = <<Box(0, 20, 100, 60)>>, !.tokens = words]
Images == {[APage EXCEPT !.kind = "image", !.units = <<Scan(r, g, w)>>] :
              r \in Layouts, g \in Grids, w \in {Chosen(Words, S) : S \in UpTo(3, Words)}}

\* A page of columns in the order a native parser may give them.
NativeBoxes == <<
    Box(55, 42, 100, 60), Box(55, 20, 100, 40), Box(20, 62, 80, 70), Box(0, 64, 100, 68),
    Box(0, 32, 45, 60),   Box(0, 20, 45, 30),   Box(0, 8, 30, 24),   Box(0, 0, 100, 10)>>
RunAt(box, size, colour, block) == [box |-> box, size |-> size, colour |-> colour, block |-> block]
Native(rows, cols, box) == [box |-> box, rows |-> rows, cols |-> cols, broken |-> FALSE]
Small1(box) == Native(<<<<box>>>>, 1, box)
Columnar == {[APage EXCEPT !.units =
                <<[EmptyPage EXCEPT !.runs = [k \in DOMAIN b |-> RunAt(b[k], 10, 0, k)],
                                    !.native = <<Small1(Box(0, 20, 45, 61))>>]>>] :
              b \in {Chosen(NativeBoxes, S) : S \in UpTo(4, NativeBoxes)}}

\* A page with native tables and up to three runs, in blocks of their own or
\* in one block.
TableRuns == <<
    RunAt(Box(5, 22, 30, 30), 10, 0, 1),   RunAt(Box(40, 22, 62, 30), 10, 0, 2),
    RunAt(Box(60, 24, 80, 32), 8, 1, 3),   RunAt(Box(5, 42, 30, 50), 10, 0, 4),
    RunAt(Box(32, 44, 46, 50), 10, 0, 5),  RunAt(Box(60, 44, 80, 50), 8, 1, 6),
    RunAt(Box(10, 57, 30, 61), 10, 0, 7),  RunAt(Box(55, 56, 90, 70), 10, 0, 8),
    RunAt(Box(40, 10, 70, 18), 10, 0, 9),  RunAt(Box(20, 24, 20, 30), 10, 0, 10)>>   \* no width
UpperLeft == Box(0, 20, 50, 40)
Upper == Box(50, 20, 100, 40)
Lower == <<Box(0, 40, 50, 60), Box(50, 40, 100, 60)>>
Whole(top) == Native(<<top, Lower>>, 2, Box(0, 20, 100, 60))
TableSets == {
    <<Whole(<<UpperLeft, Upper>>)>>,
    <<Whole(<<Box(0, 20, 100, 40), NoBox>>)>>,   \* a merged cell
    <<Whole(<<NoBox, Upper>>)>>,                 \* a hole
    <<Whole(<<UpperLeft, Upper>>), Small1(Box(0, 50, 100, 90))>>,
    <<[Whole(<<UpperLeft, Upper>>) EXCEPT !.broken = TRUE], Native(<<>>, 0, Box(0, 0, 9, 9))>>}
Natives == {[APage EXCEPT !.units = <<[EmptyPage EXCEPT !.native = tables, !.images = images,
                !.runs = [k \in DOMAIN r |-> IF one THEN [r[k] EXCEPT !.block = 1] ELSE r[k]]]>>] :
              tables \in TableSets, one \in BOOLEAN, images \in {<<>>, <<Box(10, 22, 30, 38), NoBox>>},
              r \in {Chosen(TableRuns, S) : S \in UpTo(3, TableRuns)}}

\* Files of up to three pages, their texts, sizes and what is installed.
Small == [EmptyPage EXCEPT !.regions = <<Region(0, 0, 100, 18, "text")>>,
                           !.tokens = <<Token(5, 4, 20, 12, "word")>>]
Files == {[APage EXCEPT !.size = size, !.layout = layout, !.table = table, !.routed = routed,
                        !.fallback = fallback,
                        !.units = [i \in DOMAIN texts |-> [Small EXCEPT !.text = texts[i]]]] :
              size \in {1, 3, 9}, layout, table, routed, fallback \in BOOLEAN,
              texts \in {<<"thin">>, <<"garbled", "thin">>, <<"thin", "thin", "garbled", "clean", "thin">>,
                         <<"garbled", "clean", "clean">>, <<"clean", "thin", "garbled", "clean">>,
                         <<"clean", "clean", "clean", "clean", "garbled", "garbled">>}}

\* A page of one text region read again: the same words, in other boxes, in
\* another order, new ones and garbled ones; 60 and 70 lie across an edge.
Reading(x0, y0, x1, y1, words) == [box |-> Box(x0, y0, x1, y1), words |-> words]
Read == <<Token(15, 14, 30, 22, "word"), Token(35, 16, 50, 25, "word"),
          Token(15, 30, 40, 38, "word"), Token(60, 16, 90, 24, "word")>>
Second == <<
    Reading(15, 14, 30, 22, <<1>>),     Reading(35, 15, 50, 23, <<2>>),
    Reading(15, 30, 40, 38, <<3>>),     Reading(15, 14, 50, 23, <<2, 1>>),
    Reading(60, 15, 90, 24, <<4, 50>>), Reading(70, 30, 90, 38, <<Garbled>>),
    Reading(0, 4, 24, 18, <<60>>),      Reading(92, 54, 106, 64, <<70, 71, 72>>)>>
Rereads == {[APage EXCEPT !.kind = "image", !.reread = TRUE,
                !.units = <<[EmptyPage EXCEPT !.regions = <<Region(10, 10, 100, 60, "text")>>,
                                             !.tokens = words, !.second = Chosen(Second, S)]>>] :
               words \in {SubSeq(Read, 1, k) : k \in 2..4}, S \in UpTo(4, Second)}

-----------------------------------------------------------------------------
\* Office units.
Sheet(rows, cols, merged) ==
    [form |-> "xlsx", body |-> [rows |-> rows, cols |-> cols, merged |-> merged,
                                filled |-> {<<0, 0>>, <<1, 1>>, <<rows - 1, cols - 1>>}]]
At(row, col, rs, cs) == [row |-> row, col |-> col, rs |-> rs, cs |-> cs]
Sources == {[form |-> "docx", body |-> <<<<"a", "a", "b">>, <<"a", "a", "c">>, <<"d", "e", "e">>>>],
            [form |-> "docx", body |-> <<<<"a", "b">>, <<"a">>, <<"c", "d">>>>],
            Sheet(2, 2, {}), Sheet(3, 2, {At(1, 0, 2, 2)}), Sheet(6, 2, {At(0, 0, 1, 2)}),
            Sheet(6, 2, {At(1, 0, 4, 1)}),
            [form |-> "pptx", body |-> [rows |-> 2, cols |-> 2, merged |-> {At(0, 0, 2, 1)}]]}
Office1 == {[APage EXCEPT !.kind = "office", !.units = <<[EmptyPage EXCEPT !.source = s],
                                                          [EmptyPage EXCEPT !.source = t]>>] :
              s, t \in Sources}
Strays == {[APage EXCEPT !.kind = "other"],
           [APage EXCEPT !.kind = "office", !.units = [i \in 1..(MaxUnits + 1) |->
                [EmptyPage EXCEPT !.source = Sheet(2, 2, {})]]]}

\* Images for the whole-document model, and a PDF it does not take.
Rows == {<<>>, <<<<1, 1>>, <<1, 1>>>>, <<<<2, 1>>, <<1, 1>>>>, <<<<1, 2>>, <<2, 1>>>>, <<<<1, 1>>, <<3, 2>>>>}
Wholes == {[APage EXCEPT !.kind = "image", !.engine = "e2e", !.size = size,
                         !.units = <<[EmptyPage EXCEPT !.html = <<[rows |-> html, box |-> Box(0, 0, 100, 50)]>>]>>] :
              size \in {1, 3}, html \in UNION {[1..k -> Rows] : k \in 1..3}}
          \cup {[APage EXCEPT !.engine = "e2e"]}

MCDocs == Images \cup Columnar \cup Natives \cup Files \cup Rereads \cup Office1 \cup Strays \cup Wholes
=============================================================================
