------------------------------- MODULE Boxes --------------------------------
(***************************************************************************)
(* The geometry that page assembly, table grids and reading order share:   *)
(* schemas/element.py (BBox) and the helpers of pipelines/base.py.         *)
(*                                                                         *)
(* Coordinates are integers, in pixels.  A fraction of the code is a       *)
(* comparison of products here, and the centre of a box is doubled, so     *)
(* that nothing is rounded.                                                *)
(***************************************************************************)
EXTENDS Integers, FiniteSets, SequencesExt

\* BBox(x0, y0, x1, y1).  A record with x1 < x0 cannot be a BBox
\* (validate_bounds): NoBox stands for None.
Box(x0, y0, x1, y1) == [x0 |-> x0, y0 |-> y0, x1 |-> x1, y1 |-> y1]
NoBox == Box(0, 0, -1, -1)

Wide(b) == b.x1 - b.x0
Tall(b) == b.y1 - b.y0
HasExtent(b) == Wide(b) > 0 /\ Tall(b) > 0

\* How far two intervals run together; negative over a gap.
Along(a0, a1, b0, b1) == Min({a1, b1}) - Max({a0, b0})
AlongX(a, b) == Along(a.x0, a.x1, b.x0, b.x1)
AlongY(a, b) == Along(a.y0, a.y1, b.y0, b.y1)

\* The smallest box around a set of boxes.
Hull(S) == Box(Min({b.x0 : b \in S}), Min({b.y0 : b \in S}),
               Max({b.x1 : b \in S}), Max({b.y1 : b \in S}))

\* _center_in: edges included.
CenterIn(inner, outer) ==
    /\ 2 * outer.x0 <= inner.x0 + inner.x1 /\ inner.x0 + inner.x1 <= 2 * outer.x1
    /\ 2 * outer.y0 <= inner.y0 + inner.y1 /\ inner.y0 + inner.y1 <= 2 * outer.y1

\* _expanded
Expanded(b, margin) == Box(b.x0 - margin, b.y0 - margin, b.x1 + margin, b.y1 + margin)

\* BBox.area, what two boxes share of it, and BBox.iou as a pair
\* <<intersection, union>>; 0 when there is no union.
Area(b) == Wide(b) * Tall(b)
Shared(a, b) == Max({0, AlongX(a, b)}) * Max({0, AlongY(a, b)})
IoU(a, b) ==
    LET union == Area(a) + Area(b) - Shared(a, b)
    IN  IF union > 0 THEN <<Shared(a, b), union>> ELSE <<0, 1>>
Above(r, s) == r[1] * s[2] > s[1] * r[2]

-----------------------------------------------------------------------------
\* Tuples compare from left to right, as Python's do.
Less(s, t) == \E i \in DOMAIN s :
                 s[i] < t[i] /\ \A j \in 1..(i - 1) : s[j] = t[j]

\* sorted(S, key=key).  A key that ends in the position of the element makes
\* the sort stable, as Python's is.
Ordered(S, key(_)) ==
    [i \in 1..Cardinality(S) |->
        CHOOSE e \in S : Cardinality({d \in S : Less(key(d), key(e))}) = i - 1]

\* The members of s at the positions of S, in their order.
Picked(s, S) ==
    LET id(i) == <<i>>
        at == Ordered(S, id)
    IN  [k \in DOMAIN at |-> s[at[k]]]
=============================================================================
