----------------------------- MODULE Rereading ------------------------------
(***************************************************************************)
(* A second reading of a finished page: the two passes that compare the    *)
(* text of each element with what another OCR engine reads in its box, and *)
(* replace it where that looks better.  recover_page_elements              *)
(* (ingest/scan_recovery.py) fuses both readings (ingest/evidence_fusion.py*)
(* over one anchor, the element); recover_page_order                       *)
(* (ingest/order_recovery.py) takes the second one for its order.  No      *)
(* pipeline runs them; the experiments do, on the pages of a finished run. *)
(*                                                                         *)
(* A text is a sequence of words, one for each token of the element.       *)
(* second is a sequence of [box, words]; a word from Garbled on fails the  *)
(* text quality gate, and a text with one fails it as a whole.             *)
(*                                                                         *)
(* Operators named Bug... are plausible slips in the code; each replaces   *)
(* the definition that follows it to show that a property can fail.        *)
(***************************************************************************)
EXTENDS PageMerge

Garbled == 100
Plausible(text) == \A i \in DOMAIN text : text[i] < Garbled

\* _jaccard as a pair, and its thresholds in tenths.
Jaccard(a, b) == IF a \cup b = {} THEN <<1, 1>> ELSE <<Cardinality(a \cap b), Cardinality(a \cup b)>>
AtLeast(ratio, tenths) == 10 * ratio[1] >= tenths * ratio[2]

Readings(second, box) == {i \in DOMAIN second : CenterIn(second[i].box, box)}
Spoken(second, S) == UNION {ToSet(second[i].words) : i \in S}

-----------------------------------------------------------------------------
\* _group_tokens: a reading mostly outside the element is a group of its own.
Anchored(e, second) ==
    {i \in Readings(second, e.box) :
        LET b == second[i].box IN Area(b) > 0 /\ 10 * Shared(b, e.box) >= 4 * Area(b)}

\* _decide
Decision(e, second) ==
    LET both == Jaccard(ToSet(e.text), Spoken(second, Anchored(e, second)))
    IN  IF Anchored(e, second) = {} THEN "single_docling"
        ELSE CASE AtLeast(both, 7) -> "keep_both_agree"
               [] ~ AtLeast(both, 3) -> "conflict"
               [] OTHER -> "keep_both_partial"

\* EvidenceGroup.fused_text.  0 stands for the element among the readings.
BugMergedAgreeing(e, second) == Anchored(e, second)
MergedAgreeing(e, second) ==
    Anchored(e, second)
      \cup (IF ToSet(e.text) \subseteq Spoken(second, Anchored(e, second)) THEN {} ELSE {0})
WordsOf(e, second, i) == IF i = 0 THEN e.text ELSE second[i].words
PlaceOf(e, second, i) == IF i = 0 THEN e.box ELSE second[i].box
Say(e, second, S) ==
    LET key(i) == <<PlaceOf(e, second, i).y0, PlaceOf(e, second, i).x0, IF i = 0 THEN 1 ELSE 0, i>>
        order == Ordered(S, key)
    IN  FlattenSeq([k \in DOMAIN order |-> WordsOf(e, second, order[k])])
AnchorText(e, second) ==
    IF Decision(e, second) = "keep_both_agree" THEN Say(e, second, MergedAgreeing(e, second))
    ELSE e.text \o Say(e, second, Anchored(e, second))

\* fuse_page: the groups by bands of 20 pixels, round() to even; 0 is the
\* element's own.
Band(y) == LET up == (y + 10) \div 20 IN IF (y + 10) % 20 = 0 /\ up % 2 = 1 THEN up - 1 ELSE up
FusedGroups(e, second) ==
    LET key(i) == <<Band(PlaceOf(e, second, i).y0), PlaceOf(e, second, i).x0, i>>
    IN  Ordered({0} \cup (Readings(second, e.box) \ Anchored(e, second)), key)
FusedText(e, second) ==
    LET groups == FusedGroups(e, second)
        text(i) == IF i = 0 THEN AnchorText(e, second) ELSE second[i].words
    IN  FlattenSeq([k \in DOMAIN groups |-> text(groups[k])])

\* recover_page_elements, one element: only a text the second reading hardly
\* supports is looked at, and only the first group is asked for its verdict.
Fused(e, second) ==
    IF /\ e.text # <<>> /\ e.box # NoBox /\ Readings(second, e.box) # {}
       /\ ~ AtLeast(Jaccard(ToSet(e.text), Spoken(second, Readings(second, e.box))), 5)
       /\ Head(FusedGroups(e, second)) = 0
       /\ Decision(e, second) \in {"keep_both_agree", "keep_both_partial"}
       /\ FusedText(e, second) # e.text /\ Plausible(FusedText(e, second))
    THEN [e EXCEPT !.text = FusedText(e, second)] ELSE e

-----------------------------------------------------------------------------
\* line_cluster_reconstruction: lines by their mean top edge, 60 times it to
\* stay in the integers for lines of up to six readings.
Lines(second, S) == {Cluster(second, S, i) : i \in S}
MeanTop(second, line) ==
    (60 * FoldSet(LAMBDA i, sum : sum + second[i].box.y0, 0, line)) \div Cardinality(line)
Reconstruction(e, second) ==
    LET top(line) == <<MeanTop(second, line), Min(line)>>
        left(i) == <<second[i].box.x0, i>>
        lines == Ordered(Lines(second, Readings(second, e.box)), top)
        read(out, i) == out \o second[i].words
    IN  FlattenSeq([k \in DOMAIN lines |-> FoldLeft(read, <<>>, Ordered(lines[k], left))])

\* order_consistency: where each word of a is first found unused in b, and
\* how long a subsequence of that only grows.
Positions(a, b) ==
    LET find(at, w) ==
            LET free == {j \in DOMAIN b : b[j] = w /\ j \notin ToSet(at)}
            IN  IF free = {} THEN at ELSE Append(at, Min(free))
    IN  FoldLeft(find, <<>>, a)
LisLength(seq) ==
    LET put(tails, x) ==
            LET at == Min({Len(tails) + 1} \cup {i \in DOMAIN tails : tails[i] >= x})
            IN  IF at > Len(tails) THEN Append(tails, x) ELSE [tails EXCEPT ![at] = x]
    IN  Len(FoldLeft(put, <<>>, seq))
Consistent(a, b) == 100 * LisLength(Positions(a, b)) >= 95 * Len(a)

\* recover_page_order, one element
Reordered(e, second) ==
    LET text == Reconstruction(e, second)
    IN  IF /\ e.text # <<>> /\ e.box # NoBox /\ text # <<>>
           /\ AtLeast(Jaccard(ToSet(e.text), ToSet(text)), 7)
           /\ ~ Consistent(e.text, text)
           /\ Plausible(text) /\ text # e.text
        THEN [e EXCEPT !.text = text] ELSE e
=============================================================================
