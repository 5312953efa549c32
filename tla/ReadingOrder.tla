---------------------------- MODULE ReadingOrder ----------------------------
(***************************************************************************)
(* compute_reading_order (stages/reading_order.py): the order in which the *)
(* elements of a page are read, found from their boxes alone.  Elements    *)
(* are positions in a sequence of records with a box; boxes maps them.     *)
(*                                                                         *)
(* _order_recursive splits a page by at most max_columns - 1 = 2 nested    *)
(* gutters, so its levels are written out, each given the one below it.    *)
(*                                                                         *)
(* BugInterleaved is a plausible slip in the code, which replaces the      *)
(* definition that follows it to show that a property can fail.            *)
(***************************************************************************)
EXTENDS Boxes

\* y_tolerance
Tolerance == 4

\* _band_sort: rows of elements that overlap or start together, left to right.
BandSort(boxes, S) ==
    LET down(i) == <<boxes[i].y0, boxes[i].x0, i>>
        across(i) == <<boxes[i].x0, boxes[i].y0, i>>
        join(bands, i) ==
            LET b == boxes[i]
                hull == Hull({boxes[j] : j \in Last(bands)})
            IN  IF /\ bands # <<>>
                   /\ \/ b.y0 < hull.y1 /\ b.y1 > hull.y0
                      \/ b.y0 - hull.y0 <= Tolerance
                THEN [bands EXCEPT ![Len(bands)] = @ \cup {i}]
                ELSE Append(bands, {i})
        rows == FoldLeft(join, <<>>, Ordered(S, down))
    IN  FlattenSeq([n \in DOMAIN rows |-> Ordered(rows[n], across)])

\* _find_gutter: twice the x in the middle of the widest strip that no element
\* crosses, elements as wide as 80% of the page aside.  0 stands for None, a
\* strip narrower than 6% of the page: a gutter lies right of an element, so it
\* can be at 0 only on a page with an element left of its edge.
Gutter(boxes, S, width) ==
    LET narrow == {i \in S : 10 * Wide(boxes[i]) < 8 * width}
        key(i) == <<boxes[i].x0, boxes[i].x1, i>>
        sweep(acc, i) ==
            LET gap == boxes[i].x0 - acc.reach
            IN  [reach |-> Max({acc.reach, boxes[i].x1}),
                 gap |-> Max({acc.gap, gap}),
                 twice |-> IF gap > acc.gap THEN 2 * acc.reach + gap ELSE acc.twice]
        order == Ordered(narrow, key)
        best == FoldLeft(sweep, [reach |-> boxes[order[1]].x1, gap |-> 0, twice |-> 0], Tail(order))
    IN  IF Cardinality(narrow) < 2 \/ width <= 0 THEN 0
        ELSE IF best.gap > 0 /\ 100 * best.gap >= 6 * width THEN best.twice ELSE 0

BugInterleaved(boxes, columns, across) == across \o columns
\* The elements across the gutter, each after the column elements above it.
Interleaved(boxes, columns, across) ==
    LET put(acc, s) ==
            LET above == {k \in DOMAIN acc.rest : boxes[acc.rest[k]].y1 <= boxes[s].y0}
            IN  [out |-> Append(acc.out \o Picked(acc.rest, above), s),
                 rest |-> Picked(acc.rest, DOMAIN acc.rest \ above)]
        done == FoldLeft(put, [out |-> <<>>, rest |-> columns], across)
    IN  done.out \o done.rest

\* One level of _order_recursive: sub orders what lies on each side.
Split(sub(_), boxes, S, width) ==
    LET g == Gutter(boxes, S, width)
        left == {i \in S : 2 * boxes[i].x1 <= g}
        right == {i \in S : 2 * boxes[i].x0 >= g}
    IN  IF g = 0 THEN BandSort(boxes, S)
        ELSE Interleaved(boxes, sub(left) \o sub(right),
                         BandSort(boxes, S \ (left \cup right)))
Columns1(boxes, S, width) == Split(LAMBDA T : BandSort(boxes, T), boxes, S, width)
Columns2(boxes, S, width) == Split(LAMBDA T : Columns1(boxes, T, width), boxes, S, width)

\* Elements without a box come last, as they were.
ReadingOrder(boxes, width) ==
    LET placed == {i \in DOMAIN boxes : boxes[i] # NoBox}
        id(i) == <<i>>
    IN  IF placed = {} THEN Ordered(DOMAIN boxes, id)
        ELSE Columns2(boxes, placed, IF width = 0 THEN Max({boxes[i].x1 : i \in placed}) ELSE width)
               \o Ordered(DOMAIN boxes \ placed, id)

-----------------------------------------------------------------------------
(* Two elements run on when they share a height or start together.  Those  *)
(* of a set are tied when a chain of such elements joins them: whatever    *)
(* set has the one and, with an element, those that run on with it, has    *)
(* the other.                                                              *)
RunOn(a, b) == \/ b.y0 < a.y1 /\ a.y0 < b.y1
               \/ b.y0 - a.y0 \in -Tolerance..Tolerance
Tied(boxes, S, i, j) ==
    \A C \in SUBSET S :
        i \in C /\ (\A a \in C, b \in S : RunOn(boxes[a], boxes[b]) => b \in C) => j \in C

\* Elements in one column are tied there; others, where what lies across the
\* columns is, which is most of the page wide.
TiedBy(tied(_), boxes, S, width, i, j) ==
    LET g == Gutter(boxes, S, width)
        left == {m \in S : 2 * boxes[m].x1 <= g}
        right == {m \in S : 2 * boxes[m].x0 >= g}
        across == {m \in S : 10 * Wide(boxes[m]) >= 8 * width}
    IN  IF g = 0 THEN Tied(boxes, S, i, j)
        ELSE IF {i, j} \subseteq left THEN tied(left)
        ELSE IF {i, j} \subseteq right THEN tied(right)
        ELSE Tied(boxes, across \cup {i, j}, i, j)
Tied1(boxes, S, width, i, j) == TiedBy(LAMBDA T : Tied(boxes, T, i, j), boxes, S, width, i, j)
Tied2(boxes, S, width, i, j) == TiedBy(LAMBDA T : Tied1(boxes, T, width, i, j), boxes, S, width, i, j)

\* Every element is read once.
ReadOnce(boxes, order) ==
    Len(order) = Cardinality(DOMAIN boxes) /\ ToSet(order) = DOMAIN boxes
\* One that stands wholly above another, in its way down the page, is read
\* first unless the two are tied; those without a box are read last.
ReadDown(boxes, order, w) ==
    LET placed == {i \in DOMAIN boxes : boxes[i] # NoBox}
        width == IF w = 0 THEN Max({boxes[i].x1 : i \in placed}) ELSE w
    IN  \A m, n \in DOMAIN order :
          LET i == order[m]
              j == order[n]
          IN  /\ (/\ {i, j} \subseteq placed
                  /\ boxes[i].y1 <= boxes[j].y0
                  /\ AlongX(boxes[i], boxes[j]) > 0
                  /\ ~ Tied2(boxes, placed, width, i, j)) => m < n
              /\ i \in placed /\ j \notin placed => m < n
=============================================================================
