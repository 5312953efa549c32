--------------------------- MODULE PageTableProofs ---------------------------
(***************************************************************************)
(* The tables of a page, for any layout, tokens, bands and spans: how the  *)
(* cells of a recognised table stand, which token each of them takes, row  *)
(* inferred or not, and what is left for the text beside them.  And the    *)
(* order in which the elements of a page are read.                         *)
(***************************************************************************)
EXTENDS ExtractionRunProofs

-----------------------------------------------------------------------------
(***************************************************************************)
(* The cells of a recognised table.  The spans that count, the surest      *)
(* first.                                                                  *)
(***************************************************************************)
Nat1 == Nat \ {0}
Span == [row : Nat, col : Nat, rs : Nat1, cs : Nat1, conf : Int]
InGrid(N, M) == {s \in Span : s.row + s.rs <= N /\ s.col + s.cs <= M}

LEMMA LessFive ==
    ASSUME NEW s, NEW t, DOMAIN s = 1..5
    PROVE  Less(s, t) <=> \/ s[1] < t[1]
                          \/ s[1] = t[1] /\ s[2] < t[2]
                          \/ s[1] = t[1] /\ s[2] = t[2] /\ s[3] < t[3]
                          \/ s[1] = t[1] /\ s[2] = t[2] /\ s[3] = t[3] /\ s[4] < t[4]
                          \/ s[1] = t[1] /\ s[2] = t[2] /\ s[3] = t[3] /\ s[4] = t[4] /\ s[5] < t[5]
<1>1. DOMAIN s = {1, 2, 3, 4, 5}
  OBVIOUS
<1>2. 1..(1 - 1) = {} /\ 1..(2 - 1) = {1} /\ 1..(3 - 1) = {1, 2} /\ 1..(4 - 1) = {1, 2, 3}
      /\ 1..(5 - 1) = {1, 2, 3, 4}
  OBVIOUS
<1>3. QED BY <1>1, <1>2 DEF Less

SpanKey(s) == <<-s.conf, s.row, s.col, s.rs, s.cs>>
Surer(S) == {w \in S \X S : Less(SpanKey(w[1]), SpanKey(w[2]))}
SurestAt(S, m) ==
    CHOOSE v \in S : Cardinality({d \in S : Less(SpanKey(d), SpanKey(v))}) = m - 1
Surest(S) == [m \in 1..Cardinality(S) |-> SurestAt(S, m)]

LEMMA SurestIs ==
    ASSUME NEW S \in SUBSET Span, IsFiniteSet(S)
    PROVE  Lists(Surest(S), S)
<1> DEFINE LT == Surer(S)
           q == Surest(S)
<1>1. \A s \in S : /\ -s.conf \in Int /\ s.row \in Int /\ s.col \in Int /\ s.rs \in Int /\ s.cs \in Int
  BY DEF Span, Nat1
<1>2. ASSUME NEW s \in S, NEW v \in S
      PROVE  <<s, v>> \in LT
                <=> \/ -s.conf < -v.conf
                    \/ -s.conf = -v.conf /\ s.row < v.row
                    \/ -s.conf = -v.conf /\ s.row = v.row /\ s.col < v.col
                    \/ -s.conf = -v.conf /\ s.row = v.row /\ s.col = v.col /\ s.rs < v.rs
                    \/ -s.conf = -v.conf /\ s.row = v.row /\ s.col = v.col /\ s.rs = v.rs /\ s.cs < v.cs
  <2>1. <<s, v>> \in LT <=> Less(SpanKey(s), SpanKey(v))
    BY DEF Surer
  <2> DEFINE a1 == -s.conf
             b1 == -v.conf
             a2 == s.row  a3 == s.col  a4 == s.rs  a5 == s.cs
             b2 == v.row  b3 == v.col  b4 == v.rs  b5 == v.cs
  <2>2. /\ a1 \in Int /\ a2 \in Int /\ a3 \in Int /\ a4 \in Int /\ a5 \in Int
        /\ b1 \in Int /\ b2 \in Int /\ b3 \in Int /\ b4 \in Int /\ b5 \in Int
    BY <1>1
  <2>3. SpanKey(s) = <<a1, a2, a3, a4, a5>> /\ SpanKey(v) = <<b1, b2, b3, b4, b5>>
    BY DEF SpanKey
  <2> HIDE DEF a1, a2, a3, a4, a5, b1, b2, b3, b4, b5, LT
  <2> DEFINE x == SpanKey(s)
             y == SpanKey(v)
  <2>4. /\ DOMAIN x = 1..5 /\ x[1] = a1 /\ x[2] = a2 /\ x[3] = a3 /\ x[4] = a4 /\ x[5] = a5
        /\ y[1] = b1 /\ y[2] = b2 /\ y[3] = b3 /\ y[4] = b4 /\ y[5] = b5
    BY <2>3
  <2>5. <<s, v>> \in LT <=> Less(x, y)
    BY <2>1
  <2> HIDE DEF x, y
  <2>6. Less(x, y) <=> \/ a1 < b1
                       \/ a1 = b1 /\ a2 < b2
                       \/ a1 = b1 /\ a2 = b2 /\ a3 < b3
                       \/ a1 = b1 /\ a2 = b2 /\ a3 = b3 /\ a4 < b4
                       \/ a1 = b1 /\ a2 = b2 /\ a3 = b3 /\ a4 = b4 /\ a5 < b5
    BY <2>4, LessFive
  <2>7. QED BY <2>5, <2>6 DEF a1, a2, a3, a4, a5, b1, b2, b3, b4, b5
<1>3. ASSUME NEW s \in S, NEW v \in S, -s.conf = -v.conf, s.row = v.row, s.col = v.col, s.rs = v.rs, s.cs = v.cs
      PROVE  s = v
  <2>1. /\ s = [row |-> s.row, col |-> s.col, rs |-> s.rs, cs |-> s.cs, conf |-> s.conf]
        /\ v = [row |-> v.row, col |-> v.col, rs |-> v.rs, cs |-> v.cs, conf |-> v.conf]
        /\ s.conf \in Int /\ v.conf \in Int
    BY DEF Span
  <2>2. s.conf = v.conf
    BY <1>3, <2>1
  <2>3. QED BY <1>3, <2>1, <2>2
<1> HIDE DEF LT
<1>4. Chain(S, LT)
  <2>1. \A a \in S : <<a, a>> \notin LT
    BY <1>1, <1>2
  <2>2. \A a, b \in S : a # b => <<a, b>> \in LT \/ <<b, a>> \in LT
    BY <1>1, <1>2, <1>3
  <2>3. \A a, b, c \in S : <<a, b>> \in LT /\ <<b, c>> \in LT => <<a, c>> \in LT
    BY <1>1, <1>2
  <2>4. QED BY <2>1, <2>2, <2>3 DEF Chain
<1>5. ASSUME NEW v \in S PROVE Cardinality({d \in S : Less(SpanKey(d), SpanKey(v))}) = Rank(S, LT, v)
  <2>1. {d \in S : Less(SpanKey(d), SpanKey(v))} = {d \in S : <<d, v>> \in LT}
    BY DEF LT, Surer
  <2>2. QED BY <2>1 DEF Rank
<1>6. ASSUME NEW m \in 1..Cardinality(S), \E v \in S : Rank(S, LT, v) = m - 1
      PROVE  q[m] \in S /\ Rank(S, LT, q[m]) = m - 1
  <2>1. q[m] = CHOOSE v \in S : Cardinality({d \in S : Less(SpanKey(d), SpanKey(v))}) = m - 1
    BY DEF Surest, SurestAt
  <2>2. \E v \in S : Cardinality({d \in S : Less(SpanKey(d), SpanKey(v))}) = m - 1
    BY <1>5, <1>6
  <2> HIDE DEF q
  <2>3. q[m] \in S /\ Cardinality({d \in S : Less(SpanKey(d), SpanKey(q[m]))}) = m - 1
    BY <2>1, <2>2
  <2>4. QED BY <1>5, <2>3
<1>7. q = [m \in 1..Cardinality(S) |-> q[m]]
  BY DEF Surest
<1> HIDE DEF q
<1>8. Choosing(q, S, LT)
  BY <1>6, <1>7 DEF Choosing
<1>9. Lists(q, S)
  BY <1>4, <1>8, Enumerating, EnumeratesLists
<1>10. QED BY <1>9 DEF q

\* A run of positions.
LEMMA RunIs ==
    ASSUME NEW N \in Nat, NEW S \in SUBSET (1..N), Run(S)
    PROVE  /\ Min(S) \in 1..N /\ Cardinality(S) \in Nat1
           /\ Min(S) - 1 \in Nat /\ Min(S) - 1 + Cardinality(S) <= N
<1> DEFINE a == Min(S)
           b == Max(S)
<1>1. S # {} /\ S = a..b
  BY DEF Run
<1>2. IsFiniteSet(S) /\ S \in SUBSET Int
  <2>1. IsFiniteSet(1..N)
    BY FS_Interval
  <2>2. \A k \in 1..N : k \in Int
    OBVIOUS
  <2>3. QED BY <2>1, <2>2, FS_Subset
<1>3. a \in S /\ b \in S /\ a <= b
  BY <1>1, <1>2, MinIs, MaxIs
<1>4. a \in 1..N /\ b \in 1..N
  BY <1>3
<1> HIDE DEF a, b
<1>5. Cardinality(S) = b - a + 1
  BY <1>1, <1>3, <1>4, FS_Interval
<1>6. QED BY <1>3, <1>4, <1>5 DEF Nat1, a

LEMMA SpanCellsAre ==
    ASSUME NEW rows \in Bands2, NEW cols \in Bands2, NEW spans, IsFiniteSet(spans), \A s \in spans : s.conf \in Int
    PROVE  SpanCells(rows, cols, spans) \in SUBSET InGrid(Len(rows), Len(cols)) /\ IsFiniteSet(SpanCells(rows, cols, spans))
<1> DEFINE C == {s \in spans :
                 /\ cols[1][1] <= s.x0 /\ s.x1 <= Last(cols)[2]
                 /\ rows[1][1] <= s.y0 /\ s.y1 <= Last(rows)[2]
                 /\ Run(Centred(rows, s.y0, s.y1)) /\ Run(Centred(cols, s.x0, s.x1))
                 /\ \/ Cardinality(Centred(rows, s.y0, s.y1)) > 1
                    \/ Cardinality(Centred(cols, s.x0, s.x1)) > 1}
           of(s) == [row |-> Min(Centred(rows, s.y0, s.y1)) - 1, col |-> Min(Centred(cols, s.x0, s.x1)) - 1,
                     rs |-> Cardinality(Centred(rows, s.y0, s.y1)),
                     cs |-> Cardinality(Centred(cols, s.x0, s.x1)), conf |-> s.conf]
           f == [s \in C |-> of(s)]
<1>1. SpanCells(rows, cols, spans) = {f[s] : s \in C}
  <2>1. SpanCells(rows, cols, spans) = {of(s) : s \in C}
    BY DEF SpanCells
  <2>2. {of(s) : s \in C} = {f[s] : s \in C}
    OBVIOUS
  <2>3. QED BY <2>1, <2>2
<1>2. ASSUME NEW s \in C PROVE f[s] \in InGrid(Len(rows), Len(cols))
  <2> DEFINE R == Centred(rows, s.y0, s.y1)
             K == Centred(cols, s.x0, s.x1)
             N == Len(rows)
             M == Len(cols)
             r == Min(R) - 1
             k == Min(K) - 1
             rs == Cardinality(R)
             cs == Cardinality(K)
             v == s.conf
  <2>1. Run(R) /\ Run(K) /\ v \in Int
    OBVIOUS
  <2>2. N \in Nat /\ M \in Nat /\ R \in SUBSET (1..N) /\ K \in SUBSET (1..M)
    <3>1. DOMAIN rows = 1..Len(rows) /\ DOMAIN cols = 1..Len(cols) /\ Len(rows) \in Nat /\ Len(cols) \in Nat
      BY SeqHas DEF Bands2
    <3>2. QED BY <3>1 DEF Centred
  <2>3. f[s] = [row |-> r, col |-> k, rs |-> rs, cs |-> cs, conf |-> v]
    OBVIOUS
  <2> HIDE DEF C, f, R, K, v, N, M
  <2>4. r \in Nat /\ k \in Nat /\ rs \in Nat1 /\ cs \in Nat1 /\ r + rs <= N /\ k + cs <= M
    BY <2>1, <2>2, RunIs
  <2> HIDE DEF r, k, rs, cs
  <2> DEFINE w == [row |-> r, col |-> k, rs |-> rs, cs |-> cs, conf |-> v]
  <2>5. w \in Span /\ w.row + w.rs <= N /\ w.col + w.cs <= M
    BY <2>1, <2>4 DEF Span
  <2>6. w \in InGrid(N, M)
    BY <2>5 DEF InGrid
  <2>7. QED BY <2>3, <2>6 DEF N, M
<1>3. IsFiniteSet(C)
  BY FS_Subset
<1> HIDE DEF C, f
<1>4. IsFiniteSet({f[s] : s \in C})
  BY <1>3, ImageIsFinite
<1>5. QED BY <1>1, <1>2, <1>4

Taking(acc, s) == IF Slots(s) \cap Covered(acc) = {} THEN acc \cup {s} ELSE acc
TakeAll(q) ==
    LET take(acc, s) == IF Slots(s) \cap Covered(acc) = {} THEN acc \cup {s} ELSE acc
    IN  FoldLeft(take, {}, q)

LEMMA TakeRuns ==
    ASSUME NEW S, NEW q \in Seq(S)
    PROVE  \E f : /\ f[0] = {} /\ TakeAll(q) = f[Len(q)]
                  /\ \A k \in 1..Len(q) : f[k] = Taking(f[k - 1], q[k])
<1> DEFINE N == Len(q)
           X == SUBSET S
           x == {}
           iter[T \in SUBSET DOMAIN q] ==
               IF T = {} THEN x ELSE LET m == Max(T) IN Taking(iter[T \ {m}], q[m])
           step == [w \in X \X (1..N) |-> Taking(w[1], q[w[2]])]
<1>1. TakeAll(q) = iter[DOMAIN q]
  BY DEF TakeAll, Taking, FoldLeft, MapThenFoldSet
<1>2. N \in Nat /\ x \in X /\ DOMAIN q = 1..N /\ \A k \in 1..N : q[k] \in S
  OBVIOUS
<1>3. ASSUME NEW acc \in X, NEW v \in S PROVE Taking(acc, v) \in X
  BY DEF Taking
<1>4. step \in [X \X (1..N) -> X] /\ \A w \in X \X (1..N) : step[w] = Taking(w[1], q[w[2]])
  BY <1>2, <1>3
<1> HIDE DEF X, x, N, step
<1>5. PICK h : LastFolded(X, x, N, step, h)
  BY <1>2, <1>4, FoldingSeq
<1>6. h = [T \in SUBSET DOMAIN q |-> IF T = {} THEN x ELSE LET m == Max(T) IN Taking(h[T \ {m}], q[m])]
  <2>1. \A T \in SUBSET (1..N) : h[T] = IF T = {} THEN x ELSE Taking(h[T \ {Max(T)}], q[Max(T)])
    BY <1>4, <1>5 DEF LastFolded
  <2>2. h = [T \in SUBSET (1..N) |-> h[T]]
    BY <1>5 DEF LastFolded
  <2>3. QED BY <1>2, <2>1, <2>2
<1>7. iter = [T \in SUBSET DOMAIN q |-> IF T = {} THEN x ELSE LET m == Max(T) IN Taking(iter[T \ {m}], q[m])]
  BY <1>6
<1> HIDE DEF iter
<1> DEFINE f == [k \in 0..N |-> iter[1..k]]
<1>8. f[0] = x /\ f[N] = iter[DOMAIN q]
  <2>1. 1..0 = {} /\ 0 \in 0..N /\ N \in 0..N
    BY <1>2
  <2>2. QED BY <1>2, <1>7, <2>1
<1>9. \A k \in 1..N : f[k] = Taking(f[k - 1], q[k])
  <2> SUFFICES ASSUME NEW k \in 1..N PROVE f[k] = Taking(f[k - 1], q[k])
    OBVIOUS
  <2> DEFINE D == 1..k
  <2>1. k \in 0..N /\ k - 1 \in 0..N /\ D \in SUBSET (1..N) /\ D # {} /\ Max(D) = k /\ D \ {Max(D)} = 1..(k - 1)
    BY <1>2, Within1N
  <2> HIDE DEF D
  <2>2. iter[D] = Taking(iter[1..(k - 1)], q[k])
    BY <1>2, <1>7, <2>1
  <2>3. QED BY <2>1, <2>2 DEF D
<1> HIDE DEF f
<1>10. QED BY <1>1, <1>8, <1>9 DEF N, x


\* No two of them overlap.
LEMMA MergedAre ==
    ASSUME NEW rows \in Bands2, NEW cols \in Bands2, NEW spans, IsFiniteSet(spans), \A s \in spans : s.conf \in Int
    PROVE  /\ Merged(rows, cols, spans) \in SUBSET InGrid(Len(rows), Len(cols))
           /\ \A s, v \in Merged(rows, cols, spans) : s # v => Slots(s) \cap Slots(v) = {}
<1> DEFINE S == SpanCells(rows, cols, spans)
           q == Surest(S)
<1>1. Merged(rows, cols, spans) = TakeAll(q)
  BY DEF Merged, TakeAll, Ordered, Surest, SurestAt, SpanKey
<1>2. S \in SUBSET InGrid(Len(rows), Len(cols)) /\ IsFiniteSet(S)
  BY SpanCellsAre
<1> HIDE DEF S
<1>3. S \in SUBSET Span
  BY <1>2 DEF InGrid
<1>4. Lists(q, S)
  BY <1>2, <1>3, SurestIs
<1> HIDE DEF q
<1>5. q \in Seq(S)
  BY <1>4 DEF Lists
<1> DEFINE N == Len(q)
<1>6. N \in Nat /\ DOMAIN q = 1..N /\ \A k \in 1..N : q[k] \in S
  BY <1>5, SeqHas
<1>7. PICK f : /\ f[0] = {} /\ TakeAll(q) = f[Len(q)]
               /\ \A k \in 1..Len(q) : f[k] = Taking(f[k - 1], q[k])
  BY <1>5, TakeRuns
<1>8. f[0] = {} /\ TakeAll(q) = f[N] /\ \A k \in 1..N : f[k] = Taking(f[k - 1], q[k])
  BY <1>7
<1> HIDE DEF N
<1> DEFINE Apart(A) == A \in SUBSET S /\ \A s, v \in A : s # v => Slots(s) \cap Slots(v) = {}
           T == {k \in 0..N : Apart(f[k])}
<1>9. 0 \in T
  BY <1>6, <1>8
<1>10. ASSUME NEW k \in 1..N, k - 1 \in T PROVE k \in T
  <2> DEFINE A == f[k - 1]
             s == q[k]
  <2>1. Apart(A) /\ s \in S /\ f[k] = Taking(A, s)
    BY <1>6, <1>8, <1>10
  <2> HIDE DEF A, s
  <2>2. ASSUME Slots(s) \cap Covered(A) = {} PROVE \A v \in A : Slots(s) \cap Slots(v) = {}
    BY <2>2 DEF Covered
  <2>3. Apart(Taking(A, s))
    BY <2>1, <2>2 DEF Taking
  <2>4. k \in 0..N
    BY <1>6
  <2>5. QED BY <2>1, <2>3, <2>4
<1> HIDE DEF T
<1>11. N \in T
  <2>1. \A k \in 0..N : k \in T
    BY <1>6, <1>9, <1>10, UpTo
  <2>2. QED BY <1>6, <2>1
<1>12. Apart(f[N])
  BY <1>11 DEF T
<1>13. QED BY <1>1, <1>2, <1>8, <1>12

\* The edges of a run of bands.
LEMMA EdgesAre ==
    ASSUME NEW bands \in Bands2, Sorted(bands), NEW i \in DOMAIN bands, NEW size \in Nat1, i + size - 1 <= Len(bands)
    PROVE  LET R == {bands[k] : k \in i .. i + size - 1}
           IN  /\ Min({b[1] : b \in R}) = bands[i][1] /\ bands[i][1] \in Int
               /\ Max({b[2] : b \in R}) \in Int /\ bands[i][1] < Max({b[2] : b \in R})
<1> DEFINE I == i .. i + size - 1
           R == {bands[k] : k \in I}
           lo == {b[1] : b \in R}
           hi == {b[2] : b \in R}
           N == Len(bands)
           f == [k \in I |-> bands[k][1]]
           g == [k \in I |-> bands[k][2]]
<1>1. N \in Nat /\ DOMAIN bands = 1..N /\ \A k \in 1..N : bands[k] \in Int \X Int
  BY SeqHas DEF Bands2
<1>2. i \in Int /\ i + size - 1 \in Int /\ i \in I /\ I \in SUBSET (1..N)
  BY <1>1 DEF Nat1
<1>3. IsFiniteSet(I)
  BY <1>2, FS_Interval
<1>4. lo = {f[k] : k \in I} /\ hi = {g[k] : k \in I}
  OBVIOUS
<1>5. \A k \in I : f[k] = bands[k][1] /\ g[k] = bands[k][2] /\ f[k] \in Int /\ g[k] \in Int /\ f[i] <= f[k] /\ f[k] < g[k]
  <2> SUFFICES ASSUME NEW k \in I PROVE bands[k][1] \in Int /\ bands[k][2] \in Int /\ bands[i][1] <= bands[k][1] /\ bands[k][1] < bands[k][2]
    BY <1>2
  <2>1. k \in DOMAIN bands /\ k \in Int /\ i <= k /\ bands[k] \in Int \X Int /\ bands[i] \in Int \X Int
    BY <1>1, <1>2
  <2>2. bands[k][1] \in Int /\ bands[k][2] \in Int /\ bands[i][1] \in Int
    BY <2>1
  <2>3. bands[k][1] < bands[k][2] /\ (i < k => bands[i][1] <= bands[k][1])
    BY <2>1 DEF Sorted
  <2>4. i = k \/ i < k
    BY <1>2, <2>1
  <2>5. QED BY <2>2, <2>3, <2>4
<1> HIDE DEF f, g, I
<1>6. IsFiniteSet(lo) /\ IsFiniteSet(hi) /\ lo \in SUBSET Int /\ hi \in SUBSET Int /\ f[i] \in lo /\ g[i] \in hi
  <2>1. IsFiniteSet({f[k] : k \in I}) /\ IsFiniteSet({g[k] : k \in I})
    BY <1>3, ImageIsFinite
  <2> HIDE DEF lo, hi
  <2>2. lo \in SUBSET Int /\ hi \in SUBSET Int /\ f[i] \in lo /\ g[i] \in hi
    BY <1>2, <1>4, <1>5
  <2>3. QED BY <1>4, <2>1, <2>2
<1>7. \A v \in lo : f[i] <= v
  BY <1>4, <1>5
<1> HIDE DEF lo, hi
<1>8. Min(lo) \in lo /\ \A v \in lo : Min(lo) <= v
  BY <1>6, MinIs
<1>9. Max(hi) \in hi /\ \A v \in hi : v <= Max(hi)
  BY <1>6, MaxIs
<1>10. Min(lo) = f[i] /\ Max(hi) \in Int /\ g[i] <= Max(hi) /\ f[i] < g[i] /\ f[i] \in Int /\ g[i] \in Int
  <2>1. Min(lo) \in Int /\ f[i] \in Int /\ g[i] \in Int /\ f[i] < g[i] /\ Max(hi) \in Int
    BY <1>2, <1>5, <1>6, <1>8, <1>9
  <2>2. f[i] <= Min(lo) /\ Min(lo) <= f[i] /\ g[i] <= Max(hi)
    BY <1>6, <1>7, <1>8, <1>9
  <2>3. QED BY <2>1, <2>2
<1>11. f[i] < Max(hi)
  BY <1>10
<1>12. f[i] = bands[i][1]
  BY <1>2, <1>5
<1>13. QED BY <1>10, <1>11, <1>12 DEF lo, hi, I

Boxed == [row : Nat, col : Nat, rs : Nat1, cs : Nat1, box : Bounding, text : Seq(Int)]
\* A table as recognised: on its grid, each cell of a row under the same edge.
Structured(cells, rows, cols, top) ==
    /\ cells \in Seq(Boxed) /\ Disjoint(cells)
    /\ \A k \in DOMAIN cells :
          /\ cells[k].row + cells[k].rs <= Len(rows) /\ cells[k].col + cells[k].cs <= Len(cols)
          /\ cells[k].row + 1 \in DOMAIN rows
          /\ cells[k].box.y0 = top + rows[cells[k].row + 1][1] /\ cells[k].box.y0 < cells[k].box.y1

Origin(M, p) == {s \in M : s.row = p[1] /\ s.col = p[2]}
SizeAt(M, p) == IF Origin(M, p) = {} THEN <<1, 1>> ELSE LET s == CHOOSE s \in Origin(M, p) : TRUE IN <<s.rs, s.cs>>
BoxOn(rows, cols, box, p, rs, cs) ==
    LET R == {rows[i] : i \in p[1] + 1 .. p[1] + rs}
        C == {cols[i] : i \in p[2] + 1 .. p[2] + cs}
    IN  Box(box.x0 + Min({b[1] : b \in C}), box.y0 + Min({b[1] : b \in R}),
            box.x0 + Max({b[2] : b \in C}), box.y0 + Max({b[2] : b \in R}))
CellOn(rows, cols, box, M, p) ==
    Cell(p[1], p[2], SizeAt(M, p)[1], SizeAt(M, p)[2], BoxOn(rows, cols, box, p, SizeAt(M, p)[1], SizeAt(M, p)[2]))
Begun(rows, cols, M) ==
    {p \in (0..Len(rows) - 1) \X (0..Len(cols) - 1) : p \in Covered(M) => Origin(M, p) # {}}

\* Cell c is the one at p.
BegunAt(M, p, c) ==
    /\ c.row = p[1] /\ c.col = p[2]
    /\ \/ c.rs = 1 /\ c.cs = 1 /\ Origin(M, p) = {}
       \/ \E s \in M : s.row = p[1] /\ s.col = p[2] /\ c.rs = s.rs /\ c.cs = s.cs

LEMMA StructureForm ==
    ASSUME NEW rows, NEW cols, NEW spans, NEW box
    PROVE  LET M == Merged(rows, cols, spans)
               order == ByPlace(Begun(rows, cols, M))
           IN  StructureCells(rows, cols, spans, box) = [i \in DOMAIN order |-> CellOn(rows, cols, box, M, order[i])]
BY DEF StructureCells, ByPlace, PlaceAt, Ordered, Begun, CellOn, SizeAt, Origin, BoxOn

LEMMA SizeIs ==
    ASSUME NEW M, NEW p
    PROVE  \/ Origin(M, p) = {} /\ SizeAt(M, p) = <<1, 1>>
           \/ \E s \in M : s.row = p[1] /\ s.col = p[2] /\ SizeAt(M, p) = <<s.rs, s.cs>>
BY DEF SizeAt, Origin

LEMMA CellOnIs ==
    ASSUME NEW rows \in Bands2, NEW cols \in Bands2, Sorted(rows), Sorted(cols), NEW box \in Bounding,
           NEW M \in SUBSET InGrid(Len(rows), Len(cols)), NEW p \in Begun(rows, cols, M)
    PROVE  LET c == CellOn(rows, cols, box, M, p)
           IN  /\ c \in Boxed /\ c.row = p[1] /\ c.col = p[2]
               /\ c.row + c.rs <= Len(rows) /\ c.col + c.cs <= Len(cols) /\ c.row + 1 \in DOMAIN rows
               /\ c.box.y0 = box.y0 + rows[c.row + 1][1] /\ c.box.y0 < c.box.y1
               /\ BegunAt(M, p, c)
<1> DEFINE N == Len(rows)
           K == Len(cols)
           r == p[1]
           k == p[2]
           rs == SizeAt(M, p)[1]
           cs == SizeAt(M, p)[2]
           b == BoxOn(rows, cols, box, p, rs, cs)
           R == {rows[i] : i \in r + 1 .. r + 1 + rs - 1}
           C == {cols[i] : i \in k + 1 .. k + 1 + cs - 1}
           x0 == Min({e[1] : e \in C})
           y0 == Min({e[1] : e \in R})
           x1 == Max({e[2] : e \in C})
           y1 == Max({e[2] : e \in R})
<1>1. N \in Nat /\ K \in Nat /\ DOMAIN rows = 1..N /\ DOMAIN cols = 1..K
  BY SeqHas DEF Bands2
<1>2. r \in 0..N-1 /\ k \in 0..K-1
  BY DEF Begun
<1>3. /\ rs \in Nat1 /\ cs \in Nat1 /\ r + rs <= N /\ k + cs <= K
      /\ \/ rs = 1 /\ cs = 1 /\ Origin(M, p) = {}
         \/ \E s \in M : s.row = r /\ s.col = k /\ rs = s.rs /\ cs = s.cs
  <2>1. CASE Origin(M, p) = {} /\ SizeAt(M, p) = <<1, 1>>
    BY <1>1, <1>2, <2>1 DEF Nat1
  <2>2. CASE \E s \in M : s.row = p[1] /\ s.col = p[2] /\ SizeAt(M, p) = <<s.rs, s.cs>>
    <3>1. PICK s \in M : s.row = p[1] /\ s.col = p[2] /\ SizeAt(M, p) = <<s.rs, s.cs>>
      BY <2>2
    <3>2. s \in Span /\ s.row + s.rs <= N /\ s.col + s.cs <= K
      BY DEF InGrid
    <3>3. s.rs \in Nat1 /\ s.cs \in Nat1
      BY <3>2 DEF Span
    <3>4. rs = s.rs /\ cs = s.cs
      BY <3>1
    <3>5. QED BY <3>1, <3>2, <3>3, <3>4
  <2>3. \/ Origin(M, p) = {} /\ SizeAt(M, p) = <<1, 1>>
        \/ \E s \in M : s.row = p[1] /\ s.col = p[2] /\ SizeAt(M, p) = <<s.rs, s.cs>>
    BY SizeIs
  <2>4. QED BY <2>1, <2>2, <2>3
<1> HIDE DEF rs, cs, N, K
<1>4. r + 1 + rs - 1 = r + rs /\ k + 1 + cs - 1 = k + cs /\ r + 1 \in DOMAIN rows /\ k + 1 \in DOMAIN cols
      /\ r + 1 + rs - 1 <= N /\ k + 1 + cs - 1 <= K /\ r \in Nat /\ k \in Nat
  <2>1. N \in Nat /\ K \in Nat /\ r \in 0..N-1 /\ k \in 0..K-1 /\ DOMAIN rows = 1..N /\ DOMAIN cols = 1..K
    BY <1>1, <1>2
  <2>2. rs \in Nat /\ cs \in Nat /\ rs # 0 /\ cs # 0 /\ r + rs <= N /\ k + cs <= K
    BY <1>3 DEF Nat1
  <2> HIDE DEF r, k
  <2>3. QED BY <2>1, <2>2
<1>5. y0 = rows[r + 1][1] /\ y0 \in Int /\ y1 \in Int /\ y0 < y1
  <2> DEFINE i == r + 1
  <2>1. i \in DOMAIN rows /\ i + rs - 1 <= Len(rows)
    BY <1>4 DEF N
  <2> HIDE DEF i
  <2>2. LET S == {rows[j] : j \in i .. i + rs - 1}
        IN  /\ Min({e[1] : e \in S}) = rows[i][1] /\ rows[i][1] \in Int
            /\ Max({e[2] : e \in S}) \in Int /\ rows[i][1] < Max({e[2] : e \in S})
    BY <1>3, <2>1, EdgesAre
  <2>3. QED BY <2>2 DEF i
<1>6. x0 \in Int /\ x1 \in Int
  <2> DEFINE i == k + 1
  <2>1. i \in DOMAIN cols /\ i + cs - 1 <= Len(cols)
    BY <1>4 DEF K
  <2> HIDE DEF i
  <2>2. LET S == {cols[j] : j \in i .. i + cs - 1}
        IN  /\ Min({e[1] : e \in S}) = cols[i][1] /\ cols[i][1] \in Int
            /\ Max({e[2] : e \in S}) \in Int /\ cols[i][1] < Max({e[2] : e \in S})
    BY <1>3, <2>1, EdgesAre
  <2>3. QED BY <2>2 DEF i
<1>7. b = [x0 |-> box.x0 + x0, y0 |-> box.y0 + y0, x1 |-> box.x0 + x1, y1 |-> box.y0 + y1]
  BY <1>4 DEF BoxOn, Box
<1> HIDE DEF x0, y0, x1, y1, R, C
<1>8. box.x0 \in Int /\ box.y0 \in Int
  BY DEF Bounding
<1>9. b \in Bounding /\ b.y0 = box.y0 + y0 /\ b.y0 < b.y1
  <2>1. box.x0 + x0 \in Int /\ box.y0 + y0 \in Int /\ box.x0 + x1 \in Int /\ box.y0 + y1 \in Int /\ box.y0 + y0 < box.y0 + y1
    BY SMTT(30), <1>5, <1>6, <1>8
  <2>2. QED BY <1>7, <2>1 DEF Bounding
<1> HIDE DEF b
<1>10. CellOn(rows, cols, box, M, p) = [row |-> r, col |-> k, rs |-> rs, cs |-> cs, box |-> b, text |-> <<>>]
  BY DEF CellOn, Cell, rs, cs, b
<1> DEFINE c == CellOn(rows, cols, box, M, p)
<1>11. c \in Boxed /\ c.row = r /\ c.col = k /\ c.rs = rs /\ c.cs = cs /\ c.box = b
  <2>1. <<>> \in Seq(Int)
    OBVIOUS
  <2> HIDE DEF r, k
  <2>2. QED BY <1>3, <1>4, <1>9, <1>10, <2>1 DEF Boxed
<1> HIDE DEF c
<1>12. QED BY <1>3, <1>4, <1>5, <1>9, <1>11 DEF c, N, K, BegunAt

Starts(M, p) == p \in Int \X Int /\ (p \in Covered(M) => Origin(M, p) # {})
LEMMA BegunApart ==
    ASSUME NEW M, \A s, v \in M : s # v => Slots(s) \cap Slots(v) = {},
           NEW p, NEW q, Starts(M, p), Starts(M, q), p # q,
           NEW c, BegunAt(M, p, c), NEW d, BegunAt(M, q, d)
    PROVE  Slots(c) \cap Slots(d) = {}
<1>0. /\ c.row = p[1] /\ c.col = p[2] /\ d.row = q[1] /\ d.col = q[2]
      /\ \/ c.rs = 1 /\ c.cs = 1 /\ Origin(M, p) = {}
         \/ \E s \in M : s.row = p[1] /\ s.col = p[2] /\ c.rs = s.rs /\ c.cs = s.cs
      /\ \/ d.rs = 1 /\ d.cs = 1 /\ Origin(M, q) = {}
         \/ \E s \in M : s.row = q[1] /\ s.col = q[2] /\ d.rs = s.rs /\ d.cs = s.cs
  BY DEF BegunAt
<1>1. /\ p = <<p[1], p[2]>> /\ q = <<q[1], q[2]>> /\ p[1] \in Int /\ p[2] \in Int /\ q[1] \in Int /\ q[2] \in Int
      /\ p[1] # q[1] \/ p[2] # q[2]
  BY DEF Starts
<1>2. \A e, z : e.row = z[1] /\ e.col = z[2] /\ e.rs = 1 /\ e.cs = 1 /\ z = <<z[1], z[2]>> /\ z[1] \in Int /\ z[2] \in Int
          => Slots(e) = {z}
  <2> SUFFICES ASSUME NEW e, NEW z, e.row = z[1], e.col = z[2], e.rs = 1, e.cs = 1, z = <<z[1], z[2]>>, z[1] \in Int, z[2] \in Int
               PROVE  Slots(e) = {z}
    OBVIOUS
  <2>1. (z[1] .. z[1] + 1 - 1) = {z[1]} /\ (z[2] .. z[2] + 1 - 1) = {z[2]}
    OBVIOUS
  <2>2. Slots(e) = {z[1]} \X {z[2]}
    BY <2>1 DEF Slots
  <2>3. QED BY <2>2
<1>3. \A e, s : e.row = s.row /\ e.col = s.col /\ e.rs = s.rs /\ e.cs = s.cs => Slots(e) = Slots(s)
  BY DEF Slots
<1>4. \A s \in M : \A z \in Slots(s) : z \in Covered(M)
  BY DEF Covered
<1>5. \A z \in {p, q} : Origin(M, z) = {} => z \notin Covered(M)
  BY DEF Starts
<1>6. CASE c.rs = 1 /\ c.cs = 1 /\ Origin(M, p) = {}
  <2>1. Slots(c) = {p} /\ p \notin Covered(M)
    BY <1>0, <1>1, <1>2, <1>5, <1>6
  <2>2. CASE d.rs = 1 /\ d.cs = 1
    <3>1. Slots(d) = {q}
      BY <1>0, <1>1, <1>2, <2>2
    <3>2. QED BY <2>1, <3>1
  <2>3. CASE \E s \in M : s.row = q[1] /\ s.col = q[2] /\ d.rs = s.rs /\ d.cs = s.cs
    BY <1>0, <1>3, <1>4, <2>1, <2>3
  <2>4. QED BY <1>0, <2>2, <2>3
<1>7. CASE \E s \in M : s.row = p[1] /\ s.col = p[2] /\ c.rs = s.rs /\ c.cs = s.cs
  <2>1. PICK s \in M : s.row = p[1] /\ s.col = p[2] /\ c.rs = s.rs /\ c.cs = s.cs
    BY <1>7
  <2>2. Slots(c) = Slots(s)
    BY <1>0, <1>3, <2>1
  <2>3. CASE d.rs = 1 /\ d.cs = 1 /\ Origin(M, q) = {}
    <3>1. Slots(d) = {q} /\ q \notin Covered(M)
      BY <1>0, <1>1, <1>2, <1>5, <2>3
    <3>2. QED BY <1>4, <2>2, <3>1
  <2>4. CASE \E v \in M : v.row = q[1] /\ v.col = q[2] /\ d.rs = v.rs /\ d.cs = v.cs
    <3>1. PICK v \in M : v.row = q[1] /\ v.col = q[2] /\ d.rs = v.rs /\ d.cs = v.cs
      BY <2>4
    <3>2. Slots(d) = Slots(v) /\ s # v
      BY <1>0, <1>1, <1>3, <2>1, <3>1
    <3>3. QED BY <2>2, <3>2
  <2>5. QED BY <1>0, <2>3, <2>4
<1>8. QED BY <1>0, <1>6, <1>7

LEMMA StructureIs ==
    ASSUME NEW rows \in Bands2, NEW cols \in Bands2, Sorted(rows), Sorted(cols), NEW box \in Bounding,
           NEW spans, IsFiniteSet(spans), \A s \in spans : s.conf \in Int
    PROVE  Structured(StructureCells(rows, cols, spans, box), rows, cols, box.y0)
<1> DEFINE M == Merged(rows, cols, spans)
           S == Begun(rows, cols, M)
           order == ByPlace(S)
           cells == StructureCells(rows, cols, spans, box)
           N == Len(rows)
           K == Len(cols)
<1>1. M \in SUBSET InGrid(N, K) /\ \A s, v \in M : s # v => Slots(s) \cap Slots(v) = {}
  BY MergedAre
<1> HIDE DEF M
<1>2. N \in Nat /\ K \in Nat
  BY SeqHas DEF Bands2
<1>3. S \in SUBSET (Int \X Int) /\ IsFiniteSet(S)
  <2>1. S \in SUBSET ((0..N-1) \X (0..K-1))
    BY DEF Begun
  <2> HIDE DEF S, N, K
  <2>2. IsFiniteSet(0..N-1) /\ IsFiniteSet(0..K-1)
    BY <1>2, FS_Interval
  <2>3. IsFiniteSet((0..N-1) \X (0..K-1))
    BY <2>2, FS_Product
  <2>4. \A p \in S : p \in Int \X Int
    BY <1>2, <2>1
  <2>5. QED BY <2>1, <2>3, <2>4, FS_Subset
<1>4. Lists(order, S)
  <2> HIDE DEF S
  <2>1. QED BY <1>3, ByPlaceIs
<1>5. cells = [i \in DOMAIN order |-> CellOn(rows, cols, box, M, order[i])]
  BY StructureForm DEF M
<1>6. /\ Len(order) \in Nat /\ DOMAIN order = 1..Len(order) /\ \A i \in DOMAIN order : order[i] \in S
      /\ \A i, j \in DOMAIN order : i # j => order[i] # order[j]
  BY <1>4, ListHolds DEF Lists
<1> HIDE DEF order, cells
<1>7. ASSUME NEW i \in DOMAIN order
      PROVE  LET c == cells[i]
             IN  /\ c \in Boxed /\ c.row = order[i][1] /\ c.col = order[i][2]
                 /\ c.row + c.rs <= Len(rows) /\ c.col + c.cs <= Len(cols) /\ c.row + 1 \in DOMAIN rows
                 /\ c.box.y0 = box.y0 + rows[c.row + 1][1] /\ c.box.y0 < c.box.y1
                 /\ BegunAt(M, order[i], c)
  <2> DEFINE p == order[i]
  <2>1. p \in S /\ cells[i] = CellOn(rows, cols, box, M, p)
    BY <1>5, <1>6
  <2> HIDE DEF p, S
  <2>2. p \in Begun(rows, cols, M)
    BY <2>1 DEF S
  <2>3. QED BY <1>1, <2>1, <2>2, CellOnIs DEF p
<1>8. DOMAIN cells = DOMAIN order
  BY <1>5
<1>9. cells \in Seq(Boxed)
  <2> DEFINE m == Len(order)
  <2>1. m \in Nat /\ cells = [i \in 1..m |-> cells[i]] /\ \A i \in 1..m : cells[i] \in Boxed
    BY <1>5, <1>6, <1>7
  <2> HIDE DEF m
  <2>2. QED BY <2>1, SeqMade
<1>10. Disjoint(cells)
  <2> SUFFICES ASSUME NEW i \in DOMAIN cells, NEW j \in DOMAIN cells, i < j
               PROVE  Slots(cells[i]) \cap Slots(cells[j]) = {}
    BY DEF Disjoint
  <2> DEFINE p == order[i]
             q == order[j]
             c == cells[i]
             d == cells[j]
  <2>1. i \in DOMAIN order /\ j \in DOMAIN order /\ i # j
    BY <1>6, <1>8
  <2>2. p \in S /\ q \in S /\ p # q
    BY <1>6, <2>1
  <2>3. BegunAt(M, p, c) /\ BegunAt(M, q, d)
    BY <1>7, <2>1
  <2> HIDE DEF p, q, c, d
  <2>a. Starts(M, p) /\ Starts(M, q)
    BY <2>2 DEF S, Begun, Starts
  <2>4. Slots(c) \cap Slots(d) = {}
    BY <1>1, <2>2, <2>3, <2>a, BegunApart
  <2>5. QED BY <2>4 DEF c, d
<1>11. QED BY <1>7, <1>8, <1>9, <1>10 DEF Structured, cells

-----------------------------------------------------------------------------
(***************************************************************************)
(* What a table is filled with.                                            *)
(***************************************************************************)
LEMMA LessOne == \A a1, b1 \in Int : Less(<<a1>>, <<b1>>) <=> Less(<<a1, 0, 0>>, <<b1, 0, 0>>)
<1> SUFFICES ASSUME NEW a1 \in Int, NEW b1 \in Int
             PROVE  Less(<<a1>>, <<b1>>) <=> Less(<<a1, 0, 0>>, <<b1, 0, 0>>)
  OBVIOUS
<1>1. Less(<<a1>>, <<b1>>) <=> a1 < b1
  BY LessIs
<1>2. Less(<<a1, 0, 0>>, <<b1, 0, 0>>) <=> a1 < b1
  BY LessIs
<1>3. QED BY <1>1, <1>2

\* The tokens of an inferred cell, as in RowCells.
LeftwardKey(tok, i) == <<tok[i].box.x0, i>>
LeftwardAt(tok, S, m) ==
    CHOOSE v \in S : Cardinality({d \in S : Less(LeftwardKey(tok, d), LeftwardKey(tok, v))}) = m - 1
Leftward(tok, S) == [m \in 1..Cardinality(S) |-> LeftwardAt(tok, S, m)]

LEMMA LeftwardIs ==
    ASSUME NEW tok, NEW S \in SUBSET Int, IsFiniteSet(S), tok \in Tokens, S \in SUBSET DOMAIN tok
    PROVE  Lists(Leftward(tok, S), S)
<1> DEFINE q == Leftward(tok, S)
           K == [i \in S |-> <<tok[i].box.x0, i, 0>>]
<1>1. \A i \in S : tok[i].box.x0 \in Int /\ i \in Int
  BY TokensAre DEF Bounding
<1>2. Keys(S, K)
  <2>1. K \in [S -> Int \X Int \X Int]
    BY <1>1
  <2>2. \A i \in S : K[i][2] = i
    OBVIOUS
  <2> HIDE DEF K
  <2>3. QED BY <2>1, <2>2 DEF Keys
<1>3. ASSUME NEW d \in S, NEW v \in S PROVE Less(LeftwardKey(tok, d), LeftwardKey(tok, v)) <=> Less(K[d], K[v])
  <2> DEFINE a1 == tok[d].box.x0  a2 == d
             b1 == tok[v].box.x0  b2 == v
  <2>1. a1 \in Int /\ b1 \in Int /\ a2 \in Int /\ b2 \in Int
    BY <1>1
  <2>2. /\ LeftwardKey(tok, d) = <<a1, a2>> /\ LeftwardKey(tok, v) = <<b1, b2>>
        /\ K[d] = <<a1, a2, 0>> /\ K[v] = <<b1, b2, 0>>
    BY DEF LeftwardKey
  <2> HIDE DEF K, a1, b1, a2, b2
  <2>3. QED BY <2>1, <2>2, LessTwo
<1> HIDE DEF K
<1>4. ASSUME NEW v \in S PROVE Cardinality({d \in S : Less(LeftwardKey(tok, d), LeftwardKey(tok, v))}) = Below(S, K, v)
  <2>1. {d \in S : Less(LeftwardKey(tok, d), LeftwardKey(tok, v))} = {d \in S : Less(K[d], K[v])}
    BY <1>3
  <2>2. QED BY <2>1 DEF Below
<1>5. ASSUME NEW m \in 1..Cardinality(S), \E v \in S : Below(S, K, v) = m - 1
      PROVE  q[m] \in S /\ Below(S, K, q[m]) = m - 1
  <2>1. q[m] = CHOOSE v \in S : Cardinality({d \in S : Less(LeftwardKey(tok, d), LeftwardKey(tok, v))}) = m - 1
    BY DEF Leftward, LeftwardAt
  <2>2. \E v \in S : Cardinality({d \in S : Less(LeftwardKey(tok, d), LeftwardKey(tok, v))}) = m - 1
    BY <1>4, <1>5
  <2> HIDE DEF q
  <2>3. q[m] \in S /\ Cardinality({d \in S : Less(LeftwardKey(tok, d), LeftwardKey(tok, q[m]))}) = m - 1
    BY <2>1, <2>2
  <2>4. QED BY <1>4, <2>3
<1>6. q = [m \in 1..Cardinality(S) |-> q[m]]
  BY DEF Leftward
<1> HIDE DEF q
<1>7. Sorting(q, S, K)
  BY <1>5, <1>6 DEF Sorting
<1>8. Lists(q, S) /\ Enumerates(q, S, Keyed(S, K))
  BY <1>2, <1>7, SortedIs
<1>9. QED BY <1>8 DEF q

\* Clusters by their first token, as in NewRows.
HeadedKey(c) == <<Min(c)>>
HeadedAt(S, m) ==
    CHOOSE v \in S : Cardinality({d \in S : Less(HeadedKey(d), HeadedKey(v))}) = m - 1
Headed(S) == [m \in 1..Cardinality(S) |-> HeadedAt(S, m)]

LEMMA HeadedIs ==
    ASSUME NEW S \in SUBSET SUBSET Int, IsFiniteSet(S), \A c \in S : IsFiniteSet(c) /\ c # {}, \A c, d \in S : \A i \in c : i \in d => c = d
    PROVE  Lists(Headed(S), S)
<1> DEFINE q == Headed(S)
           K == [c \in S |-> <<Min(c), 0, 0>>]
<1>0. \A c \in S : Min(c) \in Int /\ Min(c) \in c
  <2> SUFFICES ASSUME NEW c \in S PROVE Min(c) \in Int /\ Min(c) \in c
    OBVIOUS
  <2>1. c \in SUBSET Int /\ IsFiniteSet(c) /\ c # {}
    OBVIOUS
  <2>2. QED BY <2>1, MinIs
<1>1. \A c \in S : Min(c) \in Int
  BY <1>0
<1>2. Keys(S, K)
  <2>1. K \in [S -> Int \X Int \X Int]
    BY <1>1
  <2>2. \A c \in S : K[c][1] = Min(c)
    OBVIOUS
  <2> HIDE DEF K
  <2>3. \A c, j \in S : Min(c) = Min(j) => c = j
    BY <1>0
  <2>4. QED BY <2>1, <2>2, <2>3 DEF Keys
<1>3. ASSUME NEW d \in S, NEW v \in S PROVE Less(HeadedKey(d), HeadedKey(v)) <=> Less(K[d], K[v])
  <2> DEFINE a1 == Min(d)
             b1 == Min(v)
  <2>1. a1 \in Int /\ b1 \in Int
    BY <1>1
  <2>2. /\ HeadedKey(d) = <<a1>> /\ HeadedKey(v) = <<b1>>
        /\ K[d] = <<a1, 0, 0>> /\ K[v] = <<b1, 0, 0>>
    BY DEF HeadedKey
  <2> HIDE DEF K, a1, b1
  <2>3. QED BY <2>1, <2>2, LessOne
<1> HIDE DEF K
<1>4. ASSUME NEW v \in S PROVE Cardinality({d \in S : Less(HeadedKey(d), HeadedKey(v))}) = Below(S, K, v)
  <2>1. {d \in S : Less(HeadedKey(d), HeadedKey(v))} = {d \in S : Less(K[d], K[v])}
    BY <1>3
  <2>2. QED BY <2>1 DEF Below
<1>5. ASSUME NEW m \in 1..Cardinality(S), \E v \in S : Below(S, K, v) = m - 1
      PROVE  q[m] \in S /\ Below(S, K, q[m]) = m - 1
  <2>1. q[m] = CHOOSE v \in S : Cardinality({d \in S : Less(HeadedKey(d), HeadedKey(v))}) = m - 1
    BY DEF Headed, HeadedAt
  <2>2. \E v \in S : Cardinality({d \in S : Less(HeadedKey(d), HeadedKey(v))}) = m - 1
    BY <1>4, <1>5
  <2> DEFINE below(v) == Cardinality({d \in S : Less(HeadedKey(d), HeadedKey(v))})
  <2>a. q[m] = (CHOOSE v \in S : below(v) = m - 1) /\ (\E v \in S : below(v) = m - 1)
    BY <2>1, <2>2
  <2> HIDE DEF q, below
  <2>b. q[m] \in S /\ below(q[m]) = m - 1
    BY <2>a
  <2>3. q[m] \in S /\ Cardinality({d \in S : Less(HeadedKey(d), HeadedKey(q[m]))}) = m - 1
    BY <2>b DEF below
  <2>4. QED BY <1>4, <2>3
<1>6. q = [m \in 1..Cardinality(S) |-> q[m]]
  BY DEF Headed
<1> HIDE DEF q
<1>7. Sorting(q, S, K)
  BY <1>5, <1>6 DEF Sorting
<1>8. Lists(q, S) /\ Enumerates(q, S, Keyed(S, K))
  BY <1>2, <1>7, SortedIs
<1>9. QED BY <1>8 DEF q


LEMMA AlongIsInt == \A a, b \in Bounding : AlongX(a, b) \in Int /\ AlongY(a, b) \in Int
<1> SUFFICES ASSUME NEW a \in Bounding, NEW b \in Bounding PROVE AlongX(a, b) \in Int /\ AlongY(a, b) \in Int
  OBVIOUS
<1>1. /\ a.x0 \in Int /\ a.x1 \in Int /\ a.y0 \in Int /\ a.y1 \in Int
      /\ b.x0 \in Int /\ b.x1 \in Int /\ b.y0 \in Int /\ b.y1 \in Int
  BY DEF Bounding
<1>2. ASSUME NEW i \in Int, NEW j \in Int, NEW k \in Int, NEW l \in Int PROVE Along(i, j, k, l) \in Int
  <2> DEFINE lo == Max({i, k})
             hi == Min({j, l})
  <2>1. lo \in Int /\ hi \in Int
    BY OfTwo
  <2>2. Along(i, j, k, l) = hi - lo
    BY DEF Along
  <2> HIDE DEF lo, hi
  <2>3. QED BY <2>1, <2>2
<1>3. QED BY <1>1, <1>2 DEF AlongX, AlongY

\* A table with cells that have boxes.
Bare(t) == t.cells \in Seq(Boxed) /\ t.box \in Bounding

LEMMA ColumnsAre ==
    ASSUME NEW t, Bare(t)
    PROVE  /\ Columns(t) \in SUBSET Int /\ IsFiniteSet(Columns(t))
           /\ \A k \in DOMAIN t.cells : t.cells[k].col \in Columns(t)
           /\ \A col \in Columns(t) : ColumnBand(t, col) \in Bounding /\ FirstCell(t, col) \in Int
<1> DEFINE cells == t.cells
           D == DOMAIN cells
           f == [k \in D |-> cells[k].col]
           g == [k \in D |-> cells[k].box]
<1>1. /\ Len(cells) \in Nat /\ D = 1..Len(cells)
      /\ \A k \in D : cells[k] \in Boxed
  BY SeqHas DEF Bare
<1>2. IsFiniteSet(D) /\ D \in SUBSET Int
  <2> DEFINE m == Len(cells)
  <2>1. m \in Nat /\ D = 1..m
    BY <1>1
  <2> HIDE DEF m
  <2>2. IsFiniteSet(1..m) /\ \A k \in 1..m : k \in Int
    BY <2>1, FS_Interval
  <2>3. QED BY <2>1, <2>2
<1>3. \A k \in D : f[k] \in Int /\ g[k] \in Bounding /\ f[k] = cells[k].col /\ g[k] = cells[k].box
  BY <1>1 DEF Boxed
<1>4. Columns(t) = {f[k] : k \in D}
  BY DEF Columns, ToSet
<1>5. \A col : {c.box : c \in {c \in ToSet(t.cells) : c.col = col}} = {g[k] : k \in {k \in D : f[k] = col}}
  <2> SUFFICES ASSUME NEW col PROVE {c.box : c \in {c \in ToSet(t.cells) : c.col = col}} = {g[k] : k \in {k \in D : f[k] = col}}
    OBVIOUS
  <2>1. ToSet(t.cells) = {cells[k] : k \in D}
    BY DEF ToSet
  <2> DEFINE A == {c \in ToSet(t.cells) : c.col = col}
             K == {k \in D : f[k] = col}
  <2>2. \A k \in K : cells[k] \in A /\ cells[k].box = g[k]
    BY <1>3, <2>1
  <2>3. \A c \in A : \E k \in K : c.box = g[k]
    BY <1>3, <2>1
  <2> HIDE DEF A, K, f, g
  <2>4. {c.box : c \in A} = {g[k] : k \in K}
    BY <2>2, <2>3
  <2>5. QED BY <2>4 DEF A, K
<1>6. \A col : FirstCell(t, col) = Min({k \in D : f[k] = col})
  BY <1>3 DEF FirstCell
<1> HIDE DEF f, g, D
<1>7. Columns(t) \in SUBSET Int /\ IsFiniteSet(Columns(t))
  <2>1. IsFiniteSet({f[k] : k \in D})
    BY <1>2, ImageIsFinite
  <2>2. QED BY <1>3, <1>4, <2>1
<1>8. ASSUME NEW col \in Columns(t) PROVE ColumnBand(t, col) \in Bounding /\ FirstCell(t, col) \in Int
  <2> DEFINE K == {k \in D : f[k] = col}
             B == {g[k] : k \in K}
  <2>1. K \in SUBSET D /\ K # {}
    BY <1>4
  <2>2. IsFiniteSet(K) /\ K \in SUBSET Int
    BY <1>2, <2>1, FS_Subset
  <2>3. ColumnBand(t, col) = Hull(B)
    BY <1>5 DEF ColumnBand
  <2>4. FirstCell(t, col) = Min(K)
    BY <1>6
  <2> HIDE DEF K
  <2>5. IsFiniteSet(B)
    BY <2>2, ImageIsFinite
  <2>6. B \in SUBSET Bounding /\ B # {}
    BY <1>3, <2>1
  <2> HIDE DEF B
  <2>7. Hull(B) \in Bounding
    BY <2>5, <2>6, HullIs
  <2>8. Min(K) \in K
    BY <2>1, <2>2, MinIs
  <2>9. QED BY <2>2, <2>3, <2>4, <2>7, <2>8
<1>9. QED BY <1>3, <1>4, <1>7, <1>8 DEF D

\* No token has two best columns.
LEMMA BestIsOne ==
    ASSUME NEW tok \in Tokens, NEW t, Bare(t), NEW i \in DOMAIN tok
    PROVE  /\ BestColumn(tok, t, i) \in SUBSET Columns(t)
           /\ \A c, d \in BestColumn(tok, t, i) : c = d
<1> DEFINE over(c) == Max({0, AlongX(tok[i].box, ColumnBand(t, c))})
           best == BestColumn(tok, t, i)
<1>1. \A c \in best : /\ c \in Columns(t)
                      /\ \A d \in Columns(t) \ {c} :
                           over(d) < over(c) \/ (over(d) = over(c) /\ FirstCell(t, c) < FirstCell(t, d))
  BY DEF BestColumn
<1>2. \A c \in Columns(t) : over(c) \in Int /\ FirstCell(t, c) \in Int
  <2> SUFFICES ASSUME NEW c \in Columns(t) PROVE over(c) \in Int /\ FirstCell(t, c) \in Int
    OBVIOUS
  <2> DEFINE a == tok[i].box
             b == ColumnBand(t, c)
             along == AlongX(a, b)
  <2>1. a \in Bounding /\ b \in Bounding /\ FirstCell(t, c) \in Int
    BY TokensAre, ColumnsAre
  <2> HIDE DEF a, b
  <2>2. along \in Int
    BY <2>1, AlongIsInt
  <2> HIDE DEF along
  <2>3. Max({0, along}) \in Int
    <3>1. 0 \in Int /\ along \in Int
      BY <2>2
    <3>2. Max({0, along}) = IF 0 <= along THEN along ELSE 0
      BY <3>1, OfTwo
    <3>3. QED BY <3>1, <3>2
  <2>4. QED BY <2>1, <2>3 DEF along, a, b
<1> HIDE DEF over, best
<1>3. ASSUME NEW c \in best, NEW d \in best, c # d PROVE FALSE
  <2>1. c \in Columns(t) /\ d \in Columns(t)
    BY <1>1
  <2>2. over(d) < over(c) \/ (over(d) = over(c) /\ FirstCell(t, c) < FirstCell(t, d))
    BY <1>1, <1>3, <2>1
  <2>3. over(c) < over(d) \/ (over(c) = over(d) /\ FirstCell(t, d) < FirstCell(t, c))
    BY <1>1, <1>3, <2>1
  <2>4. QED BY <1>2, <2>1, <2>2, <2>3
<1>4. QED BY <1>1, <1>3 DEF best

\* The tokens no cell takes, and the rows they make.
Spare(tok, t) == Within(tok, DOMAIN tok, t.box) \ (Claimed(tok, t) \cup Missed(tok, t))
Groups(tok, t) == {c \in {Cluster(tok, Spare(tok, t), i) : i \in Spare(tok, t)} :
                     Cardinality(RowColumns(tok, t, c)) >= 2}

LEMMA GroupsAre ==
    ASSUME NEW tok \in Tokens, NEW t, Bare(t)
    PROVE  /\ Spare(tok, t) \in SUBSET DOMAIN tok /\ IsFiniteSet(Spare(tok, t))
           /\ \A c \in Groups(tok, t) :
                 /\ c \in SUBSET Spare(tok, t) /\ c # {} /\ IsFiniteSet(c)
                 /\ RowColumns(tok, t, c) \in SUBSET Columns(t) /\ IsFiniteSet(RowColumns(tok, t, c))
           /\ \A c, d \in Groups(tok, t) : \A i \in c : i \in d => c = d
           /\ Lists(NewRows(tok, t), Groups(tok, t)) /\ NewRows(tok, t) = Headed(Groups(tok, t))
<1> DEFINE R == Spare(tok, t)
           G == Groups(tok, t)
           f == [i \in R |-> Cluster(tok, R, i)]
<1>1. R \in SUBSET DOMAIN tok
  BY DEF Spare, Within
<1>2. IsFiniteSet(R) /\ R \in SUBSET Int
  BY <1>1, TokensAre, FS_Subset
<1>3. G \in SUBSET {f[i] : i \in R} /\ \A c \in G : \E i \in R : c = Cluster(tok, R, i)
  BY DEF Groups
<1>4. NewRows(tok, t) = Headed(G)
  BY DEF NewRows, Ordered, Headed, HeadedAt, HeadedKey, Groups, Spare
<1> HIDE DEF R, G, f
<1>5. ASSUME NEW c \in G
      PROVE  /\ c \in SUBSET R /\ c # {} /\ IsFiniteSet(c)
             /\ RowColumns(tok, t, c) \in SUBSET Columns(t) /\ IsFiniteSet(RowColumns(tok, t, c))
  <2>1. PICK i \in R : c = Cluster(tok, R, i)
    BY <1>3
  <2>2. i \in c /\ c \in SUBSET R
    BY <1>2, <2>1, ClusterIs DEF Rowed
  <2>3. IsFiniteSet(c)
    BY <1>2, <2>2, FS_Subset
  <2>4. \A j \in c : BestColumn(tok, t, j) \in SUBSET Columns(t)
    BY <1>1, <2>2, BestIsOne
  <2>5. RowColumns(tok, t, c) \in SUBSET Columns(t)
    BY <2>4 DEF RowColumns
  <2>6. IsFiniteSet(Columns(t))
    BY ColumnsAre
  <2>7. IsFiniteSet(RowColumns(tok, t, c))
    BY <2>5, <2>6, FS_Subset
  <2>8. QED BY <2>2, <2>3, <2>5, <2>7
<1>6. ASSUME NEW c \in G, NEW d \in G, NEW i \in c, i \in d PROVE c = d
  <2>1. PICK j \in R : c = Cluster(tok, R, j)
    BY <1>3
  <2>2. PICK k \in R : d = Cluster(tok, R, k)
    BY <1>3
  <2>3. i \in Cluster(tok, R, j) /\ i \in Cluster(tok, R, k)
    BY <1>6, <2>1, <2>2
  <2>4. Cluster(tok, R, i) = Cluster(tok, R, j)
    BY <1>2, <2>3, ClustersPart
  <2>5. Cluster(tok, R, i) = Cluster(tok, R, k)
    BY <1>2, <2>3, ClustersPart
  <2>6. QED BY <2>1, <2>2, <2>4, <2>5
<1>7. IsFiniteSet(G)
  <2>1. IsFiniteSet({f[i] : i \in R})
    BY <1>2, ImageIsFinite
  <2>2. QED BY <1>3, <2>1, FS_Subset
<1>8. G \in SUBSET SUBSET Int
  BY <1>2, <1>5
<1>9. Lists(Headed(G), G)
  <2>1. (\A c \in G : IsFiniteSet(c) /\ c # {}) /\ (\A c, d \in G : \A i \in c : i \in d => c = d)
    BY <1>5, <1>6
  <2>2. QED BY <1>7, <1>8, <2>1, HeadedIs
<1>10. QED BY <1>1, <1>2, <1>4, <1>5, <1>6, <1>9 DEF R, G

GridCells(tok, t) ==
    [k \in DOMAIN t.cells |-> [t.cells[k] EXCEPT !.text = Held(tok, t.cells[k]) \o Nudged(tok, t, k)]]
NextRow(t) == MaxOr({c.row : c \in ToSet(t.cells)}, -1) + 1
RowsOf(tok, t) ==
    [m \in DOMAIN NewRows(tok, t) |-> RowCells(tok, t, NewRows(tok, t)[m], NextRow(t) + m - 1)]
AllCells(tok, t) == GridCells(tok, t) \o FlattenSeq(RowsOf(tok, t))

LEMMA SeqWider == ASSUME NEW S \in SUBSET Int, NEW s \in Seq(S) PROVE s \in Seq(Int)
<1> DEFINE l == Len(s)
<1>1. l \in Nat /\ DOMAIN s = 1..l /\ s = [k \in DOMAIN s |-> s[k]] /\ \A k \in DOMAIN s : s[k] \in S
  BY SeqHas
<1>2. s = [k \in 1..l |-> s[k]] /\ \A k \in 1..l : s[k] \in Int
  BY <1>1
<1> HIDE DEF l
<1>3. QED BY <1>1, <1>2, SeqMade

LEMMA FillForm ==
    ASSUME NEW tok, NEW t
    PROVE  FillTable(tok, t) = IF NewRows(tok, t) = <<>> THEN [t EXCEPT !.cells = GridCells(tok, t)]
                               ELSE Renumbered([t EXCEPT !.cells = AllCells(tok, t), !.doubt = "medium"])
BY DEF FillTable, GridCells, NextRow, RowsOf, AllCells

\* The tokens of cell k of the grid, and of an inferred cell.
Takes(tok, t, k) ==
    Within(tok, DOMAIN tok, t.cells[k].box) \cup {i \in Missed(tok, t) : Near(tok, t, i) = {k}}
OwnOf(tok, t, C, col) == {i \in C : BestColumn(tok, t, i) = {col}}
GridCell(c, tok, t, k) ==
    /\ c \in Boxed /\ c.row = t.cells[k].row /\ c.col = t.cells[k].col
    /\ c.rs = t.cells[k].rs /\ c.cs = t.cells[k].cs /\ c.box = t.cells[k].box
    /\ Lists(c.text, Inked(tok, Takes(tok, t, k)))
InferredCell(c, tok, t, C, col, row) ==
    /\ c \in Boxed /\ c.row = row /\ c.col = col /\ c.rs = 1 /\ c.cs = 1
    /\ c.box.y0 = Hull({tok[i].box : i \in C}).y0 /\ c.box.y1 = Hull({tok[i].box : i \in C}).y1
    /\ Lists(c.text, Inked(tok, OwnOf(tok, t, C, col)))

LEMMA GridCellIs ==
    ASSUME NEW tok \in Tokens, NEW t, Bare(t), NEW k \in DOMAIN t.cells
    PROVE  GridCell([t.cells[k] EXCEPT !.text = Held(tok, t.cells[k]) \o Nudged(tok, t, k)], tok, t, k)
<1> DEFINE c == t.cells[k]
           W == Within(tok, DOMAIN tok, c.box)
           N == {i \in Missed(tok, t) : Near(tok, t, i) = {k}}
           held == Held(tok, c)
           nudged == Nudged(tok, t, k)
           text == held \o nudged
<1>1. c \in Boxed
  BY SeqHas DEF Bare
<1>2. W \in SUBSET DOMAIN tok /\ N \in SUBSET DOMAIN tok /\ DOMAIN tok \in SUBSET Int /\ IsFiniteSet(DOMAIN tok)
  BY TokensAre DEF Within, Missed
<1>3. \A x \in W : x \notin N
  BY DEF Within, Missed, Claimed, ToSet
<1>4. held = Ink(tok, InLines(tok, W))
  BY DEF Held
<1>5. nudged = Ink(tok, ByNumber(N))
  BY DEF Nudged, Ordered, ByNumber, NumberAt
<1>6. Takes(tok, t, k) = W \cup N
  BY DEF Takes
<1> HIDE DEF W, N, held, nudged
<1>7. Lists(held, Inked(tok, W))
  <2>1. Lists(InLines(tok, W), W)
    BY <1>2, InLinesIs
  <2>2. QED BY <1>2, <1>4, <2>1, InkIs
<1>8. Lists(nudged, Inked(tok, N))
  <2>1. N \in SUBSET Int /\ IsFiniteSet(N)
    BY <1>2, FS_Subset
  <2>2. Lists(ByNumber(N), N)
    <3>1. Enumerates(ByNumber(N), N, Up(N))
      BY <2>1, ByNumberIs
    <3>2. QED BY <2>1, <3>1, NumbersChain, EnumeratesLists
  <2>3. QED BY <1>2, <1>5, <2>2, InkIs
<1>9. Lists(text, Inked(tok, W) \cup Inked(tok, N))
  <2>1. \A x \in Inked(tok, W) : x \notin Inked(tok, N)
    BY <1>3 DEF Inked
  <2>2. QED BY <1>7, <1>8, <2>1, ListsJoin
<1>10. Inked(tok, W) \cup Inked(tok, N) = Inked(tok, W \cup N)
  BY DEF Inked
<1>11. text \in Seq(Int)
  <2>1. text \in Seq(Inked(tok, W \cup N))
    BY <1>9, <1>10 DEF Lists
  <2> DEFINE E == Inked(tok, W \cup N)
  <2>2. E \in SUBSET Int /\ text \in Seq(E)
    BY <1>2, <2>1 DEF Inked
  <2> HIDE DEF text, E
  <2>3. QED BY <2>2, SeqWider
<1> HIDE DEF text
<1> DEFINE r == [c EXCEPT !.text = text]
<1>12. /\ r \in Boxed /\ r.row = c.row /\ r.col = c.col /\ r.rs = c.rs /\ r.cs = c.cs /\ r.box = c.box
       /\ r.text = text
  BY <1>1, <1>11 DEF Boxed
<1>13. Lists(text, Inked(tok, Takes(tok, t, k)))
  BY <1>6, <1>9, <1>10
<1> HIDE DEF r
<1>14. GridCell(r, tok, t, k)
  BY <1>12, <1>13 DEF GridCell, c
<1>15. QED BY <1>14 DEF r, text, held, nudged

LEMMA RowCellsAre ==
    ASSUME NEW tok \in Tokens, NEW t, Bare(t), NEW C \in Groups(tok, t), NEW row \in Nat
    PROVE  /\ RowCells(tok, t, C, row) \in Seq(Boxed)
           /\ \E cols : /\ Lists(cols, RowColumns(tok, t, C)) /\ DOMAIN cols = DOMAIN RowCells(tok, t, C, row)
                        /\ \A k \in DOMAIN cols :
                              /\ cols[k] \in RowColumns(tok, t, C)
                              /\ InferredCell(RowCells(tok, t, C, row)[k], tok, t, C, cols[k], row)
<1> DEFINE S == RowColumns(tok, t, C)
           cols == ByNumber(S)
           y == Hull({tok[i].box : i \in C})
           cell(k) == [Cell(row, cols[k], 1, 1,
                            Box(ColumnBand(t, cols[k]).x0, y.y0, ColumnBand(t, cols[k]).x1, y.y1))
                         EXCEPT !.text = Ink(tok, Leftward(tok, OwnOf(tok, t, C, cols[k])))]
           q == RowCells(tok, t, C, row)
<1>1. q = [k \in DOMAIN cols |-> cell(k)]
  BY DEF RowCells, Ordered, ByNumber, NumberAt, Leftward, LeftwardAt, LeftwardKey, OwnOf
<1>2. /\ C \in SUBSET DOMAIN tok /\ C # {} /\ IsFiniteSet(C) /\ S \in SUBSET Columns(t) /\ IsFiniteSet(S)
      /\ S \in SUBSET Int
  <2>1. /\ C \in SUBSET Spare(tok, t) /\ C # {} /\ IsFiniteSet(C) /\ S \in SUBSET Columns(t) /\ IsFiniteSet(S)
        /\ Spare(tok, t) \in SUBSET DOMAIN tok
    BY GroupsAre
  <2>2. Columns(t) \in SUBSET Int
    BY ColumnsAre
  <2> HIDE DEF S
  <2>3. QED BY <2>1, <2>2
<1>3. y \in Bounding
  <2> DEFINE f == [i \in C |-> tok[i].box]
             B == {f[i] : i \in C}
  <2>1. B = {tok[i].box : i \in C}
    OBVIOUS
  <2>2. \A i \in C : f[i] \in Bounding
    BY <1>2, TokensAre
  <2> HIDE DEF f
  <2>3. IsFiniteSet(B)
    BY <1>2, ImageIsFinite
  <2>4. B \in SUBSET Bounding /\ B # {}
    BY <1>2, <2>2
  <2> HIDE DEF B
  <2>5. QED BY <2>1, <2>3, <2>4, HullIs
<1> HIDE DEF S, q
<1>4. Lists(cols, S)
  <2>1. Enumerates(cols, S, Up(S))
    BY <1>2, ByNumberIs
  <2> HIDE DEF cols
  <2>2. QED BY <1>2, <2>1, NumbersChain, EnumeratesLists
<1>5. Len(cols) \in Nat /\ DOMAIN cols = 1..Len(cols) /\ \A k \in DOMAIN cols : cols[k] \in S
  BY <1>4, ListHolds
<1>6. ASSUME NEW k \in DOMAIN cols PROVE InferredCell(cell(k), tok, t, C, cols[k], row)
  <2> DEFINE col == cols[k]
             O == OwnOf(tok, t, C, col)
             text == Ink(tok, Leftward(tok, O))
             band == ColumnBand(t, col)
             b == Box(band.x0, y.y0, band.x1, y.y1)
  <2>1. col \in S /\ col \in Nat
    <3>1. col \in S
      BY <1>5
    <3>2. \A v \in Columns(t) : v \in Nat
      <4> SUFFICES ASSUME NEW v \in Columns(t) PROVE v \in Nat
        OBVIOUS
      <4>1. PICK j \in DOMAIN t.cells : v = t.cells[j].col
        BY DEF Columns, ToSet
      <4>2. t.cells[j] \in Boxed
        BY SeqHas DEF Bare
      <4>3. QED BY <4>1, <4>2 DEF Boxed
    <3>3. QED BY <1>2, <3>1, <3>2
  <2>2. band \in Bounding
    BY <1>2, <2>1, ColumnsAre
  <2>3. O \in SUBSET DOMAIN tok /\ IsFiniteSet(O) /\ O \in SUBSET Int
    BY <1>2, FS_Subset, TokensAre DEF OwnOf
  <2> HIDE DEF O
  <2>4. Lists(text, Inked(tok, O)) /\ text \in Seq(Int)
    <3>1. Lists(Leftward(tok, O), O)
      BY <2>3, LeftwardIs
    <3>2. QED BY <2>3, <3>1, InkIs
  <2>5. b \in Bounding /\ b.y0 = y.y0 /\ b.y1 = y.y1
    BY <1>3, <2>2 DEF Box, Bounding
  <2> HIDE DEF text, b
  <2>6. cell(k) = [row |-> row, col |-> col, rs |-> 1, cs |-> 1, box |-> b, text |-> text]
    <3>1. cell(k) = [Cell(row, col, 1, 1, b) EXCEPT !.text = text]
      BY DEF O, text, b
    <3>2. Cell(row, col, 1, 1, b) = [row |-> row, col |-> col, rs |-> 1, cs |-> 1, box |-> b, text |-> <<>>]
      BY DEF Cell
    <3> HIDE DEF cell, col
    <3>3. QED BY <3>1, <3>2
  <2> HIDE DEF col, y, cell
  <2> DEFINE c == cell(k)
  <2>7. c \in Boxed /\ c.row = row /\ c.col = col /\ c.rs = 1 /\ c.cs = 1 /\ c.box = b /\ c.text = text
    BY <2>1, <2>4, <2>5, <2>6 DEF Boxed, Nat1
  <2> HIDE DEF c
  <2>8. InferredCell(c, tok, t, C, col, row)
    BY <2>4, <2>5, <2>7 DEF InferredCell, O, y
  <2>9. QED BY <2>8 DEF c, col
<1> HIDE DEF cell, cols
<1>7. DOMAIN q = DOMAIN cols /\ \A k \in DOMAIN cols : InferredCell(q[k], tok, t, C, cols[k], row)
  BY <1>1, <1>6
<1>8. q \in Seq(Boxed)
  <2> DEFINE m == Len(cols)
  <2>1. m \in Nat /\ q = [k \in 1..m |-> q[k]] /\ \A k \in 1..m : q[k] \in Boxed
    BY <1>1, <1>5, <1>7 DEF InferredCell
  <2> HIDE DEF m
  <2>2. QED BY <2>1, SeqMade
<1>9. QED BY <1>4, <1>5, <1>7, <1>8 DEF S, q

LEMMA NextRowIs ==
    ASSUME NEW t, Bare(t)
    PROVE  NextRow(t) \in Nat /\ \A k \in DOMAIN t.cells : t.cells[k].row < NextRow(t)
<1> DEFINE D == DOMAIN t.cells
           f == [k \in D |-> t.cells[k].row]
           R == {f[k] : k \in D}
           top == MaxOr(R, -1)
<1>1. {c.row : c \in ToSet(t.cells)} = R
  BY DEF ToSet
<1>2. NextRow(t) = top + 1
  BY <1>1 DEF NextRow
<1>3. IsFiniteSet(D)
  <2> DEFINE l == Len(t.cells)
  <2>1. l \in Nat /\ D = 1..l
    BY SeqHas DEF Bare
  <2> HIDE DEF l
  <2>2. QED BY <2>1, FS_Interval
<1>4. \A k \in D : f[k] \in Nat /\ f[k] = t.cells[k].row
  <2> SUFFICES ASSUME NEW k \in D PROVE f[k] \in Nat /\ f[k] = t.cells[k].row
    OBVIOUS
  <2>1. t.cells[k] \in Boxed
    BY SeqHas DEF Bare
  <2>2. QED BY <2>1 DEF Boxed
<1> HIDE DEF f, D
<1>5. IsFiniteSet(R)
  BY <1>3, ImageIsFinite
<1>6. R \in SUBSET Nat /\ \A k \in D : f[k] \in R
  BY <1>4
<1> HIDE DEF R
<1>7. CASE R = {}
  <2>1. top = -1
    BY <1>7 DEF MaxOr
  <2> HIDE DEF top
  <2>2. NextRow(t) = 0
    BY <1>2, <2>1
  <2>3. QED BY <1>6, <1>7, <2>2 DEF D
<1>8. CASE R # {}
  <2>1. R \in SUBSET Int
    BY <1>6
  <2>2. Max(R) \in R /\ \A x \in R : x <= Max(R)
    BY <1>5, <1>8, <2>1, MaxIs
  <2>3. top = Max(R)
    BY <1>8 DEF MaxOr
  <2> HIDE DEF top
  <2>4. top \in Nat /\ \A k \in D : f[k] <= top
    BY <1>6, <2>2, <2>3
  <2>5. \A k \in D : f[k] < NextRow(t)
    BY <1>2, <1>4, <2>4
  <2>6. QED BY <1>2, <1>4, <2>4, <2>5 DEF D
<1>9. QED BY <1>7, <1>8

\* The cells of a table filled, before its rows are numbered again: those of
\* the grid, then those of the rows inferred, one for each of its columns.
InferredFrom(c, tok, t, m) ==
    /\ m \in DOMAIN NewRows(tok, t) /\ c.col \in RowColumns(tok, t, NewRows(tok, t)[m])
    /\ InferredCell(c, tok, t, NewRows(tok, t)[m], c.col, NextRow(t) + m - 1)
Stocked(all, tok, t) ==
    /\ all \in Seq(Boxed) /\ Len(t.cells) <= Len(all)
    /\ \A k \in DOMAIN t.cells : GridCell(all[k], tok, t, k)
    /\ \A p \in DOMAIN all : p > Len(t.cells) => \E m : InferredFrom(all[p], tok, t, m)
    /\ \A p, q \in DOMAIN all : p > Len(t.cells) /\ q > Len(t.cells)
                                  /\ all[p].row = all[q].row /\ all[p].col = all[q].col => p = q
    /\ \A m \in DOMAIN NewRows(tok, t) : \A col \in RowColumns(tok, t, NewRows(tok, t)[m]) :
          \E p \in DOMAIN all : p > Len(t.cells) /\ InferredFrom(all[p], tok, t, m) /\ all[p].col = col

LEMMA GridCellsAre ==
    ASSUME NEW tok \in Tokens, NEW t, Bare(t)
    PROVE  /\ GridCells(tok, t) \in Seq(Boxed) /\ Len(GridCells(tok, t)) = Len(t.cells)
           /\ \A k \in DOMAIN t.cells : GridCell(GridCells(tok, t)[k], tok, t, k)
<1> DEFINE g == GridCells(tok, t)
           l == Len(t.cells)
<1>1. l \in Nat /\ DOMAIN t.cells = 1..l
  BY SeqHas DEF Bare
<1>2. ASSUME NEW k \in DOMAIN t.cells PROVE GridCell(g[k], tok, t, k)
  BY GridCellIs DEF GridCells
<1>3. g = [k \in DOMAIN t.cells |-> g[k]]
  BY DEF GridCells
<1> HIDE DEF g
<1>4. \A k \in 1..l : g[k] \in Boxed
  BY <1>1, <1>2 DEF GridCell
<1> HIDE DEF l
<1>5. g \in Seq(Boxed) /\ Len(g) = l
  BY <1>1, <1>3, <1>4, SeqMade
<1>6. QED BY <1>2, <1>5 DEF g, l

\* One row inferred: its cells have the row's number and different columns.
RowStock(q, tok, t, m) ==
    /\ q \in Seq(Boxed)
    /\ \A i \in DOMAIN q : InferredFrom(q[i], tok, t, m)
    /\ \A i, j \in DOMAIN q : q[i].col = q[j].col => i = j
    /\ \A col \in RowColumns(tok, t, NewRows(tok, t)[m]) : \E i \in DOMAIN q : q[i].col = col

LEMMA RowStocks ==
    ASSUME NEW tok \in Tokens, NEW t, Bare(t), NEW m \in DOMAIN NewRows(tok, t)
    PROVE  RowStock(RowsOf(tok, t)[m], tok, t, m) /\ m \in Nat
<1> DEFINE C == NewRows(tok, t)[m]
           row == NextRow(t) + m - 1
           q == RowsOf(tok, t)[m]
<1>1. Lists(NewRows(tok, t), Groups(tok, t))
  BY GroupsAre
<1>2. C \in Groups(tok, t) /\ m \in Nat /\ m > 0
  <2>1. /\ Len(NewRows(tok, t)) \in Nat /\ DOMAIN NewRows(tok, t) = 1..Len(NewRows(tok, t))
        /\ C \in Groups(tok, t)
    BY <1>1, ListHolds
  <2>2. QED BY <2>1
<1>3. row \in Nat
  BY <1>2, NextRowIs
<1>4. q = RowCells(tok, t, C, row)
  BY DEF RowsOf
<1> HIDE DEF q, row
<1>5. /\ q \in Seq(Boxed)
      /\ \E cols : /\ Lists(cols, RowColumns(tok, t, C)) /\ DOMAIN cols = DOMAIN q
                   /\ \A k \in DOMAIN cols :
                         /\ cols[k] \in RowColumns(tok, t, C)
                         /\ InferredCell(q[k], tok, t, C, cols[k], row)
  BY <1>2, <1>3, <1>4, RowCellsAre
<1>6. PICK cols : /\ Lists(cols, RowColumns(tok, t, C)) /\ DOMAIN cols = DOMAIN q
                  /\ \A k \in DOMAIN cols :
                         /\ cols[k] \in RowColumns(tok, t, C)
                         /\ InferredCell(q[k], tok, t, C, cols[k], row)
  BY <1>5
<1>7. \A i \in DOMAIN q : q[i].col = cols[i]
  BY <1>6 DEF InferredCell
<1>8. \A i \in DOMAIN q : InferredFrom(q[i], tok, t, m)
  BY <1>6, <1>7 DEF InferredFrom, row
<1>9. \A i, j \in DOMAIN q : q[i].col = q[j].col => i = j
  BY <1>6, <1>7 DEF Lists
<1>10. \A col \in RowColumns(tok, t, C) : \E i \in DOMAIN q : q[i].col = col
  BY <1>6, <1>7 DEF Lists
<1>11. QED BY <1>2, <1>5, <1>8, <1>9, <1>10 DEF RowStock, q

LEMMA AllCellsAre ==
    ASSUME NEW tok \in Tokens, NEW t, Bare(t)
    PROVE  Stocked(AllCells(tok, t), tok, t)
<1> DEFINE g == GridCells(tok, t)
           ss == RowsOf(tok, t)
           h == FlattenSeq(ss)
           all == AllCells(tok, t)
           a == Len(t.cells)
           b == Len(h)
<1>1. g \in Seq(Boxed) /\ Len(g) = a /\ \A k \in DOMAIN t.cells : GridCell(g[k], tok, t, k)
  BY GridCellsAre
<1>2. DOMAIN ss = DOMAIN NewRows(tok, t) /\ \A m \in DOMAIN ss : RowStock(ss[m], tok, t, m) /\ m \in Nat
  <2>1. DOMAIN ss = DOMAIN NewRows(tok, t)
    BY DEF RowsOf
  <2> HIDE DEF ss
  <2>2. QED BY <2>1, RowStocks DEF ss
<1>3. ss \in Seq(Seq(Boxed))
  <2> DEFINE l == Len(NewRows(tok, t))
  <2>1. l \in Nat /\ DOMAIN NewRows(tok, t) = 1..l
    BY GroupsAre, ListHolds
  <2>2. ss = [k \in DOMAIN NewRows(tok, t) |-> ss[k]]
    BY DEF RowsOf
  <2> HIDE DEF l, ss
  <2>3. ss = [k \in 1..l |-> ss[k]] /\ \A k \in 1..l : ss[k] \in Seq(Boxed)
    BY <1>2, <2>1, <2>2 DEF RowStock
  <2>4. QED BY <2>1, <2>3, SeqMade
<1>4. PICK start : Flat(h, ss, start) /\ h \in Seq(Boxed)
  BY <1>3, FlattenIs
<1>5. all = g \o h
  BY DEF AllCells
<1>6. a \in Nat /\ DOMAIN t.cells = 1..a /\ b \in Nat /\ DOMAIN h = 1..b
  BY <1>4, SeqHas DEF Bare
<1> HIDE DEF g, h, all, ss
<1>7. /\ all \in Seq(Boxed) /\ DOMAIN all = 1..(a + b) /\ Len(all) = a + b
      /\ (\A k \in 1..a : all[k] = g[k]) /\ \A k \in 1..b : all[a + k] = h[k]
  <2> DEFINE u == a
             v == b
  <2>1. u \in Nat /\ v \in Nat /\ Len(g) = u /\ Len(h) = v /\ g \in Seq(Boxed) /\ h \in Seq(Boxed)
    BY <1>1, <1>4, <1>6
  <2> HIDE DEF u, v
  <2>2. /\ g \o h \in Seq(Boxed) /\ DOMAIN (g \o h) = 1..(u + v) /\ Len(g \o h) = u + v
        /\ (\A k \in 1..u : (g \o h)[k] = g[k]) /\ \A k \in 1..v : (g \o h)[u + k] = h[k]
    BY <2>1
  <2>3. QED BY <1>5, <2>2 DEF u, v
<1> DEFINE Made0(p, m, i) == m \in DOMAIN ss /\ i \in DOMAIN ss[m] /\ p = a + start[m] + i /\ all[p] = ss[m][i]
<1>8. ASSUME NEW p \in DOMAIN all, p > a
      PROVE  \E m, i : Made0(p, m, i)
  <2> DEFINE r == p - a
  <2>1. r \in 1..b /\ p = a + r
    BY <1>6, <1>7, <1>8
  <2> HIDE DEF r
  <2>2. PICK m, i : m \in DOMAIN ss /\ i \in DOMAIN ss[m] /\ r = start[m] + i
    BY <1>4, <1>6, <2>1 DEF Flat
  <2>3. h[r] = ss[m][i] /\ start[m] \in Nat
    BY <1>4, <2>2 DEF Flat
  <2>4. i \in Nat
    <3> DEFINE q == ss[m]
    <3>1. q \in Seq(Boxed)
      BY <1>2, <2>2 DEF RowStock
    <3>2. i \in DOMAIN q
      BY <2>2
    <3> HIDE DEF q
    <3>3. QED BY <3>1, <3>2, SeqHas
  <2>5. all[p] = h[r]
    BY <1>7, <2>1
  <2> HIDE DEF a, b
  <2>6. p = a + start[m] + i
    BY <1>6, <2>1, <2>2, <2>3, <2>4
  <2>7. Made0(p, m, i)
    BY <2>2, <2>3, <2>5, <2>6
  <2> HIDE DEF Made0
  <2>8. QED BY <2>7
<1>9. ASSUME NEW p \in DOMAIN all, p > a PROVE \E m : InferredFrom(all[p], tok, t, m)
  <2>1. PICK m, i : Made0(p, m, i)
    BY <1>8, <1>9
  <2>2. InferredFrom(ss[m][i], tok, t, m)
    BY <1>2, <2>1 DEF RowStock
  <2>3. QED BY <2>1, <2>2
<1>10. ASSUME NEW p \in DOMAIN all, NEW q \in DOMAIN all, p > a, q > a, all[p].row = all[q].row, all[p].col = all[q].col
       PROVE  p = q
  <2>1. PICK m, i : Made0(p, m, i)
    BY <1>8, <1>10
  <2>2. PICK l, j : Made0(q, l, j)
    BY <1>8, <1>10
  <2>3. InferredFrom(ss[m][i], tok, t, m) /\ InferredFrom(ss[l][j], tok, t, l) /\ m \in Nat /\ l \in Nat
    BY <1>2, <2>1, <2>2 DEF RowStock
  <2>4. all[p].row = NextRow(t) + m - 1 /\ all[q].row = NextRow(t) + l - 1
    BY <2>1, <2>2, <2>3 DEF InferredFrom, InferredCell
  <2>5. m = l
    <3> DEFINE z == NextRow(t)
    <3>1. z \in Nat /\ z + m - 1 = z + l - 1
      BY <1>10, <2>4, NextRowIs
    <3> HIDE DEF z
    <3>2. QED BY <2>3, <3>1
  <2>6. ss[m][i].col = ss[m][j].col /\ i \in DOMAIN ss[m] /\ j \in DOMAIN ss[m]
    BY <1>10, <2>1, <2>2, <2>5
  <2>7. i = j
    BY <1>2, <2>1, <2>6 DEF RowStock
  <2>8. QED BY <2>1, <2>2, <2>5, <2>7
<1>b. ASSUME NEW m \in DOMAIN NewRows(tok, t), NEW col \in RowColumns(tok, t, NewRows(tok, t)[m])
      PROVE  \E p \in DOMAIN all : p > a /\ InferredFrom(all[p], tok, t, m) /\ all[p].col = col
  <2>1. m \in DOMAIN ss /\ RowStock(ss[m], tok, t, m)
    BY <1>2
  <2>2. PICK i \in DOMAIN ss[m] : ss[m][i].col = col
    BY <2>1 DEF RowStock
  <2> DEFINE r == start[m] + i
             p == a + r
  <2>3. r \in DOMAIN h /\ h[r] = ss[m][i]
    BY <1>4, <2>1 DEF Flat
  <2> HIDE DEF r, a, b
  <2>4. p \in DOMAIN all /\ p > a /\ all[p] = h[r]
    BY <1>6, <1>7, <2>3
  <2>5. InferredFrom(all[p], tok, t, m) /\ all[p].col = col
    BY <2>1, <2>2, <2>3, <2>4 DEF RowStock
  <2>6. QED BY <2>4, <2>5
<1>11. Stocked(all, tok, t)
  <2>1. a <= a + b
    BY <1>6
  <2>2. \A k \in DOMAIN t.cells : GridCell(all[k], tok, t, k)
    BY <1>1, <1>6, <1>7
  <2>3. QED BY <1>7, <1>9, <1>10, <1>b, <2>1, <2>2 DEF Stocked
<1>12. QED BY <1>11 DEF all

\* The rows of a filled table from the top, as in Renumbered.
RowTop(cells, r) == Min({c.box.y0 : c \in {c \in ToSet(cells) : c.row = r}})
RowFirst(cells, r) == Min({k \in DOMAIN cells : cells[k].row = r})
RowNumbers(cells) == {c.row : c \in ToSet(cells)}

LEMMA RowTops ==
    ASSUME NEW cells \in Seq(Boxed)
    PROVE  /\ RowNumbers(cells) \in SUBSET Int /\ IsFiniteSet(RowNumbers(cells))
           /\ \A k \in DOMAIN cells : cells[k].row \in RowNumbers(cells)
           /\ \A r \in RowNumbers(cells) :
                 /\ RowTop(cells, r) \in Int /\ RowFirst(cells, r) \in Int
                 /\ RowFirst(cells, r) \in DOMAIN cells /\ cells[RowFirst(cells, r)].row = r
                 /\ \E k \in DOMAIN cells : cells[k].row = r /\ RowTop(cells, r) = cells[k].box.y0
                 /\ \A k \in DOMAIN cells : cells[k].row = r => RowTop(cells, r) <= cells[k].box.y0
<1> DEFINE D == DOMAIN cells
           R == RowNumbers(cells)
           f == [k \in D |-> cells[k].row]
           g == [k \in D |-> cells[k].box.y0]
<1>1. D \in SUBSET Int /\ IsFiniteSet(D)
  <2> DEFINE l == Len(cells)
  <2>1. l \in Nat /\ D = 1..l
    BY SeqHas
  <2> HIDE DEF l
  <2>2. QED BY <2>1, FS_Interval
<1>2. \A k \in D : f[k] = cells[k].row /\ g[k] = cells[k].box.y0 /\ f[k] \in Nat /\ g[k] \in Int
  <2> SUFFICES ASSUME NEW k \in D PROVE f[k] = cells[k].row /\ g[k] = cells[k].box.y0 /\ f[k] \in Nat /\ g[k] \in Int
    OBVIOUS
  <2>1. cells[k] \in Boxed
    BY SeqHas
  <2>2. QED BY <2>1 DEF Boxed, Bounding
<1>3. R = {f[k] : k \in D}
  BY DEF RowNumbers, ToSet
<1>4. \A r : RowFirst(cells, r) = Min({k \in D : f[k] = r})
  BY <1>2 DEF RowFirst
<1>5. \A r : RowTop(cells, r) = Min({g[k] : k \in {k \in D : f[k] = r}})
  <2> SUFFICES ASSUME NEW r PROVE RowTop(cells, r) = Min({g[k] : k \in {k \in D : f[k] = r}})
    OBVIOUS
  <2>1. ToSet(cells) = {cells[k] : k \in D}
    BY DEF ToSet
  <2> DEFINE A == {c \in ToSet(cells) : c.row = r}
             K == {k \in D : f[k] = r}
  <2>2. \A k \in K : cells[k] \in A /\ cells[k].box.y0 = g[k]
    BY <1>2, <2>1
  <2>3. \A c \in A : \E k \in K : c.box.y0 = g[k]
    BY <1>2, <2>1
  <2> HIDE DEF A, K, f, g
  <2>4. {c.box.y0 : c \in A} = {g[k] : k \in K}
    BY <2>2, <2>3
  <2>5. QED BY <2>4 DEF A, K, RowTop
<1> HIDE DEF f, g, D, R
<1>6. R \in SUBSET Int /\ IsFiniteSet(R)
  <2> DEFINE I == {f[k] : k \in D}
  <2>1. IsFiniteSet(I)
    BY <1>1, ImageIsFinite
  <2>2. R = I /\ \A x \in I : x \in Int
    BY <1>2, <1>3
  <2> HIDE DEF I
  <2>3. QED BY <2>1, <2>2
<1>7. ASSUME NEW r \in R
      PROVE  /\ RowTop(cells, r) \in Int /\ RowFirst(cells, r) \in Int
             /\ RowFirst(cells, r) \in D /\ f[RowFirst(cells, r)] = r
             /\ \E k \in D : f[k] = r /\ RowTop(cells, r) = g[k]
             /\ \A k \in D : f[k] = r => RowTop(cells, r) <= g[k]
  <2> DEFINE K == {k \in D : f[k] = r}
             B == {g[k] : k \in K}
  <2>1. K \in SUBSET D /\ K # {} /\ \A k \in D : f[k] = r => k \in K
    BY <1>3
  <2>2. IsFiniteSet(K) /\ K \in SUBSET Int
    BY <1>1, <2>1, FS_Subset
  <2>3. RowTop(cells, r) = Min(B)
    BY <1>5
  <2>4. RowFirst(cells, r) = Min(K)
    BY <1>4
  <2>a. \A k \in K : f[k] = r /\ k \in D
    OBVIOUS
  <2> HIDE DEF K
  <2>5. IsFiniteSet(B)
    BY <2>2, ImageIsFinite
  <2>6. B \in SUBSET Int /\ B # {} /\ (\A k \in K : g[k] \in B) /\ \A b \in B : \E k \in K : b = g[k]
    BY <1>2, <2>1
  <2> HIDE DEF B
  <2>7. Min(B) \in B /\ \A b \in B : Min(B) <= b
    BY <2>5, <2>6, MinIs
  <2>8. Min(K) \in K
    BY <2>1, <2>2, MinIs
  <2>9. RowTop(cells, r) \in Int /\ RowFirst(cells, r) \in K
    BY <2>3, <2>4, <2>6, <2>7, <2>8
  <2>10. \E k \in K : RowTop(cells, r) = g[k]
    BY <2>3, <2>6, <2>7
  <2>11. \A k \in K : RowTop(cells, r) <= g[k]
    BY <2>3, <2>6, <2>7
  <2>12. QED BY <2>1, <2>2, <2>a, <2>9, <2>10, <2>11
<1>8. ASSUME NEW r \in R
      PROVE  /\ RowTop(cells, r) \in Int /\ RowFirst(cells, r) \in Int
             /\ RowFirst(cells, r) \in D /\ cells[RowFirst(cells, r)].row = r
             /\ \E k \in D : cells[k].row = r /\ RowTop(cells, r) = cells[k].box.y0
             /\ \A k \in D : cells[k].row = r => RowTop(cells, r) <= cells[k].box.y0
  BY <1>2, <1>7
<1>9. \A k \in D : cells[k].row \in R
  BY <1>2, <1>3
<1>10. QED BY <1>6, <1>8, <1>9 DEF D, R

\* Rows in the order of their numbers to come, as in Renumbered.
RankedKey(cells, r) == <<RowTop(cells, r), RowFirst(cells, r)>>
RankedAt(cells, S, m) ==
    CHOOSE v \in S : Cardinality({d \in S : Less(RankedKey(cells, d), RankedKey(cells, v))}) = m - 1
Ranked(cells, S) == [m \in 1..Cardinality(S) |-> RankedAt(cells, S, m)]

LEMMA RankedIs ==
    ASSUME NEW cells, NEW S \in SUBSET Int, IsFiniteSet(S), cells \in Seq(Boxed), S = RowNumbers(cells)
    PROVE  Lists(Ranked(cells, S), S) /\ Enumerates(Ranked(cells, S), S, Keyed(S, [r \in S |-> <<RowTop(cells, r), RowFirst(cells, r), 0>>]))
<1> DEFINE q == Ranked(cells, S)
           K == [r \in S |-> <<RowTop(cells, r), RowFirst(cells, r), 0>>]
<1>1. \A r \in S : RowTop(cells, r) \in Int /\ RowFirst(cells, r) \in Int
  BY RowTops
<1>2. Keys(S, K)
  <2>1. K \in [S -> Int \X Int \X Int]
    BY <1>1
  <2>2. \A r \in S : K[r][2] = RowFirst(cells, r)
    OBVIOUS
  <2> HIDE DEF K
  <2>3. \A r, j \in S : RowFirst(cells, r) = RowFirst(cells, j) => r = j
    BY RowTops
  <2>4. QED BY <2>1, <2>2, <2>3 DEF Keys
<1>3. ASSUME NEW d \in S, NEW v \in S PROVE Less(RankedKey(cells, d), RankedKey(cells, v)) <=> Less(K[d], K[v])
  <2> DEFINE a1 == RowTop(cells, d)  a2 == RowFirst(cells, d)
             b1 == RowTop(cells, v)  b2 == RowFirst(cells, v)
  <2>1. a1 \in Int /\ b1 \in Int /\ a2 \in Int /\ b2 \in Int
    BY <1>1
  <2>2. /\ RankedKey(cells, d) = <<a1, a2>> /\ RankedKey(cells, v) = <<b1, b2>>
        /\ K[d] = <<a1, a2, 0>> /\ K[v] = <<b1, b2, 0>>
    BY DEF RankedKey
  <2> HIDE DEF K, a1, b1, a2, b2
  <2>3. QED BY ZenonT(30), <2>1, <2>2, LessTwo
<1> HIDE DEF K
<1>4. ASSUME NEW v \in S PROVE Cardinality({d \in S : Less(RankedKey(cells, d), RankedKey(cells, v))}) = Below(S, K, v)
  <2>1. {d \in S : Less(RankedKey(cells, d), RankedKey(cells, v))} = {d \in S : Less(K[d], K[v])}
    BY <1>3
  <2>2. QED BY <2>1 DEF Below
<1>5. ASSUME NEW m \in 1..Cardinality(S), \E v \in S : Below(S, K, v) = m - 1
      PROVE  q[m] \in S /\ Below(S, K, q[m]) = m - 1
  <2>1. q[m] = CHOOSE v \in S : Cardinality({d \in S : Less(RankedKey(cells, d), RankedKey(cells, v))}) = m - 1
    BY DEF Ranked, RankedAt
  <2>2. \E v \in S : Cardinality({d \in S : Less(RankedKey(cells, d), RankedKey(cells, v))}) = m - 1
    BY <1>4, <1>5
  <2> HIDE DEF q
  <2>3. q[m] \in S /\ Cardinality({d \in S : Less(RankedKey(cells, d), RankedKey(cells, q[m]))}) = m - 1
    BY <2>1, <2>2
  <2>4. QED BY <1>4, <2>3
<1>6. q = [m \in 1..Cardinality(S) |-> q[m]]
  BY DEF Ranked
<1> HIDE DEF q
<1>7. Sorting(q, S, K)
  BY <1>5, <1>6 DEF Sorting
<1>8. Lists(q, S) /\ Enumerates(q, S, Keyed(S, K))
  BY <1>2, <1>7, SortedIs
<1>9. QED BY <1>8 DEF q, K

\* A filled table keeps the cells but for their rows, and its place.
Retains(f, all) ==
    /\ DOMAIN f.cells = DOMAIN all
    /\ \A k \in DOMAIN all :
          /\ f.cells[k].col = all[k].col /\ f.cells[k].rs = all[k].rs /\ f.cells[k].cs = all[k].cs
          /\ f.cells[k].box = all[k].box /\ f.cells[k].text = all[k].text
Reranked(f, t) ==
    /\ f.box = t.box /\ f.cols = t.cols /\ f.doubt = t.doubt /\ f.rows \in Nat
    /\ Retains(f, t.cells)
    /\ \A k \in DOMAIN t.cells : f.cells[k].row \in 0..(f.rows - 1)
    /\ \A k, l \in DOMAIN t.cells :
          /\ f.cells[k].row = f.cells[l].row <=> t.cells[k].row = t.cells[l].row
          /\ RowTop(t.cells, t.cells[k].row) < RowTop(t.cells, t.cells[l].row)
               => f.cells[k].row < f.cells[l].row
Tabular == {"rows", "cols", "cells", "box", "doubt"}

LEMMA RenumberedForm ==
    ASSUME NEW t
    PROVE  Renumbered(t) =
             LET order == Ranked(t.cells, RowNumbers(t.cells))
                 place(r) == CHOOSE m \in DOMAIN order : order[m] = r
                 moved(c) == [c EXCEPT !.row = place(c.row) - 1]
             IN  [t EXCEPT !.cells = [k \in DOMAIN @ |-> moved(@[k])], !.rows = Len(order)]
BY DEF Renumbered, Ordered, Ranked, RankedAt, RankedKey, RowTop, RowFirst, RowNumbers

LEMMA RenumberedIs ==
    ASSUME NEW t, t.cells \in Seq(Boxed), t = [x \in Tabular |-> t[x]]
    PROVE  Reranked(Renumbered(t), t)
<1> DEFINE cells == t.cells
           R == RowNumbers(cells)
           order == Ranked(cells, R)
           l == Len(order)
           at(r) == CHOOSE m \in DOMAIN order : order[m] = r
           f == Renumbered(t)
           moved(c) == [c EXCEPT !.row = at(c.row) - 1]
           K == [r \in R |-> <<RowTop(cells, r), RowFirst(cells, r), 0>>]
<1>1. f = [t EXCEPT !.cells = [k \in DOMAIN @ |-> moved(@[k])], !.rows = l]
  BY RenumberedForm
<1>2. Lists(order, R) /\ Enumerates(order, R, Keyed(R, K))
  BY RowTops, RankedIs
<1> HIDE DEF order, R
<1>3. l \in Nat /\ DOMAIN order = 1..l
  BY <1>2 DEF Lists
<1>4. ASSUME NEW r \in R PROVE at(r) \in 1..l /\ order[at(r)] = r
  BY <1>2, <1>3 DEF Lists
<1>5. ASSUME NEW r \in R, NEW s \in R, RowTop(cells, r) < RowTop(cells, s) PROVE at(r) < at(s)
  <2> DEFINE i == at(r)
             j == at(s)
  <2>1. i \in 1..l /\ j \in 1..l /\ order[i] = r /\ order[j] = s
    BY <1>4
  <2> HIDE DEF i, j
  <2>2. RowTop(cells, r) \in Int /\ RowTop(cells, s) \in Int /\ RowFirst(cells, r) \in Int /\ RowFirst(cells, s) \in Int
    BY RowTops DEF R
  <2>3. i # j
    BY <1>5, <2>1, <2>2
  <2>4. ~ (j < i)
    <3> SUFFICES ASSUME j < i PROVE FALSE
      OBVIOUS
    <3>1. <<s, r>> \in Keyed(R, K)
      BY <1>2, <1>3, <2>1 DEF Enumerates
    <3>2. Less(<<RowTop(cells, s), RowFirst(cells, s), 0>>, <<RowTop(cells, r), RowFirst(cells, r), 0>>)
      BY <3>1 DEF Keyed
    <3>3. RowTop(cells, s) <= RowTop(cells, r)
      BY <2>2, <3>2, LessIs
    <3>4. QED BY <1>5, <2>2, <3>3
  <2>5. i < j
    BY <2>1, <2>3, <2>4
  <2>6. QED BY <2>5 DEF i, j
<1> DEFINE place == [r \in R |-> at(r)]
<1>6. /\ \A r \in R : place[r] \in 1..l
      /\ \A r, s \in R : place[r] = place[s] => r = s
      /\ \A r, s \in R : RowTop(cells, r) < RowTop(cells, s) => place[r] < place[s]
  BY <1>4, <1>5
<1>7. \A k \in DOMAIN cells : cells[k].row \in R
  BY RowTops DEF R
<1> HIDE DEF f, l, at, moved
<1>a. /\ DOMAIN f.cells = DOMAIN cells /\ f.rows = l /\ f.box = t.box /\ f.cols = t.cols /\ f.doubt = t.doubt
      /\ \A k \in DOMAIN cells : f.cells[k] = moved(cells[k])
  BY <1>1 DEF Tabular
<1>8. /\ DOMAIN f.cells = DOMAIN cells /\ f.rows = l /\ f.box = t.box /\ f.cols = t.cols /\ f.doubt = t.doubt
      /\ \A k \in DOMAIN cells : f.cells[k] = [cells[k] EXCEPT !.row = place[cells[k].row] - 1]
  <2>1. \A k \in DOMAIN cells : place[cells[k].row] = at(cells[k].row)
    BY <1>7
  <2> HIDE DEF place, cells
  <2>2. QED BY <1>a, <2>1 DEF moved
<1> HIDE DEF place
<1>9. ASSUME NEW k \in DOMAIN cells
      PROVE  /\ f.cells[k].row = place[cells[k].row] - 1
             /\ f.cells[k].col = cells[k].col /\ f.cells[k].rs = cells[k].rs /\ f.cells[k].cs = cells[k].cs
             /\ f.cells[k].box = cells[k].box /\ f.cells[k].text = cells[k].text
  <2>1. cells[k] \in Boxed
    BY SeqHas
  <2>2. f.cells[k] = [cells[k] EXCEPT !.row = place[cells[k].row] - 1]
    BY <1>8
  <2>3. QED BY <2>1, <2>2 DEF Boxed
<1>10. DOMAIN f.cells = DOMAIN cells
  BY <1>8
<1>11. ASSUME NEW k \in DOMAIN cells PROVE f.cells[k].row \in 0..(f.rows - 1)
  <2> DEFINE v == place[cells[k].row]
             w == f.cells[k].row
  <2>1. v \in 1..l /\ w = v - 1 /\ f.rows = l
    BY <1>6, <1>7, <1>8, <1>9
  <2> HIDE DEF v, w
  <2>2. w \in 0..(f.rows - 1)
    BY <1>3, <2>1
  <2>3. QED BY <2>2 DEF w
<1>12. ASSUME NEW j \in DOMAIN cells, NEW k \in DOMAIN cells
       PROVE  /\ f.cells[j].row = f.cells[k].row <=> cells[j].row = cells[k].row
              /\ RowTop(cells, cells[j].row) < RowTop(cells, cells[k].row) => f.cells[j].row < f.cells[k].row
  <2> DEFINE r == cells[j].row
             s == cells[k].row
  <2>1. r \in R /\ s \in R
    BY <1>7
  <2>2. f.cells[j].row = place[r] - 1 /\ f.cells[k].row = place[s] - 1
    BY <1>9
  <2> HIDE DEF r, s, cells
  <2>3. place[r] \in Int /\ place[s] \in Int
    BY <1>6, <2>1
  <2>4. (place[r] = place[s] <=> r = s) /\ (RowTop(cells, r) < RowTop(cells, s) => place[r] < place[s])
    BY <1>6, <2>1
  <2>5. QED BY <2>2, <2>3, <2>4 DEF r, s
<1>13. Reranked(f, t)
  BY <1>3, <1>8, <1>9, <1>10, <1>11, <1>12 DEF Reranked, Retains
<1>14. QED BY <1>13 DEF f

\* A table filled: in the order of its cells nothing has moved.
Stock(f, all, tok, t) ==
    /\ Stocked(all, tok, t) /\ Retains(f, all) /\ f.box = t.box /\ f.cols = t.cols

LEMMA FilledIs ==
    ASSUME NEW tok \in Tokens, NEW t, Bare(t), t = [x \in Tabular |-> t[x]]
    PROVE  \/ /\ NewRows(tok, t) = <<>> /\ Stock(FillTable(tok, t), GridCells(tok, t), tok, t)
              /\ FillTable(tok, t) = [t EXCEPT !.cells = GridCells(tok, t)]
           \/ /\ NewRows(tok, t) # <<>> /\ Stock(FillTable(tok, t), AllCells(tok, t), tok, t)
              /\ Reranked(FillTable(tok, t), [t EXCEPT !.cells = AllCells(tok, t), !.doubt = "medium"])
<1> DEFINE g == GridCells(tok, t)
           all == AllCells(tok, t)
           a == Len(t.cells)
<1>1. CASE NewRows(tok, t) = <<>>
  <2>1. FillTable(tok, t) = [t EXCEPT !.cells = g]
    BY <1>1, FillForm
  <2>2. g \in Seq(Boxed) /\ Len(g) = a /\ (\A k \in DOMAIN t.cells : GridCell(g[k], tok, t, k))
    BY GridCellsAre
  <2> HIDE DEF g
  <2>3. a \in Nat /\ Len(g) \in Nat /\ DOMAIN g = 1..a
    BY <2>2, SeqHas DEF Bare
  <2>4. Stocked(g, tok, t)
    <3>1. \A p \in DOMAIN g : ~ (p > a)
      BY <2>3
    <3>2. DOMAIN NewRows(tok, t) = {}
      BY <1>1
    <3>3. QED BY <2>2, <2>3, <3>1, <3>2 DEF Stocked
  <2>5. LET f == [t EXCEPT !.cells = g] IN f.cells = g /\ f.box = t.box /\ f.cols = t.cols
    BY DEF Tabular
  <2>6. Stock(FillTable(tok, t), g, tok, t)
    BY <2>1, <2>4, <2>5 DEF Stock, Retains
  <2>7. QED BY <1>1, <2>1, <2>6 DEF g
<1>2. CASE NewRows(tok, t) # <<>>
  <2> DEFINE s == [t EXCEPT !.cells = all, !.doubt = "medium"]
  <2>1. FillTable(tok, t) = Renumbered(s)
    BY <1>2, FillForm
  <2>2. Stocked(all, tok, t)
    BY AllCellsAre
  <2> HIDE DEF all
  <2>3. s.cells = all /\ s.box = t.box /\ s.cols = t.cols /\ s = [x \in Tabular |-> s[x]]
    BY DEF Tabular
  <2>4. s.cells \in Seq(Boxed)
    BY <2>2, <2>3 DEF Stocked
  <2> HIDE DEF s
  <2>5. Reranked(Renumbered(s), s)
    BY <2>3, <2>4, RenumberedIs
  <2>6. Stock(FillTable(tok, t), all, tok, t)
    BY <2>1, <2>2, <2>3, <2>5 DEF Stock, Reranked
  <2>7. QED BY <1>2, <2>1, <2>5, <2>6 DEF all, s
<1>3. QED BY <1>1, <1>2

-----------------------------------------------------------------------------
(***************************************************************************)
(* Where a token of a page is.                                             *)
(***************************************************************************)
\* Token i of a filled table is in one cell, or in cells that overlap there.
Placed(f, tok, t) ==
    /\ \A i \in DOMAIN tok : tok[i].ink # "none" =>
          ((\E k \in DOMAIN f.cells : i \in ToSet(f.cells[k].text)) <=> i \in Taken(tok, t))
    /\ \A k \in DOMAIN f.cells : \A i \in ToSet(f.cells[k].text) :
          /\ i \in DOMAIN tok
          /\ CenterIn(tok[i].box, f.cells[k].box) \/ CenterIn(tok[i].box, f.box)
    /\ \A k, l \in DOMAIN f.cells : \A i \in ToSet(f.cells[k].text) : i \in ToSet(f.cells[l].text) /\ k # l =>
          CenterIn(tok[i].box, f.cells[k].box) /\ CenterIn(tok[i].box, f.cells[l].box)
    /\ \A k \in DOMAIN f.cells : Lists(f.cells[k].text, ToSet(f.cells[k].text))

\* The tokens of a cell: of the grid, or of a row inferred.
TokensOf(all, tok, t, k) ==
    IF k <= Len(t.cells) THEN Takes(tok, t, k)
    ELSE LET m == CHOOSE m : InferredFrom(all[k], tok, t, m)
         IN  OwnOf(tok, t, NewRows(tok, t)[m], all[k].col)

LEMMA StockedTokens ==
    ASSUME NEW tok \in Tokens, NEW t, Bare(t), NEW all, Stocked(all, tok, t), NEW k \in DOMAIN all
    PROVE  /\ Lists(all[k].text, Inked(tok, TokensOf(all, tok, t, k)))
           /\ Len(t.cells) \in Nat /\ DOMAIN t.cells = 1..Len(t.cells) /\ k \in Nat /\ k > 0
           /\ k > Len(t.cells) =>
                \E m : /\ InferredFrom(all[k], tok, t, m)
                       /\ TokensOf(all, tok, t, k) = OwnOf(tok, t, NewRows(tok, t)[m], all[k].col)
<1> DEFINE a == Len(t.cells)
<1>1. a \in Nat /\ DOMAIN t.cells = 1..a
  BY SeqHas DEF Bare
<1>2. k \in Nat /\ k > 0
  <2>1. Len(all) \in Nat /\ DOMAIN all = 1..Len(all)
    BY SeqHas DEF Stocked
  <2>2. QED BY <2>1
<1> HIDE DEF a
<1>3. CASE k <= a
  <2>1. k \in DOMAIN t.cells
    BY <1>1, <1>2, <1>3
  <2>2. GridCell(all[k], tok, t, k)
    BY <2>1 DEF Stocked
  <2>3. ~ (k > a)
    BY <1>1, <1>2, <1>3
  <2>4. TokensOf(all, tok, t, k) = Takes(tok, t, k)
    BY <1>3 DEF TokensOf, a
  <2>5. QED BY <1>1, <1>2, <2>2, <2>3, <2>4 DEF GridCell, a
<1>4. CASE k > a
  <2> DEFINE m == CHOOSE m : InferredFrom(all[k], tok, t, m)
  <2>1. \E l : InferredFrom(all[k], tok, t, l)
    BY <1>4 DEF Stocked, a
  <2>2. InferredFrom(all[k], tok, t, m)
    BY <2>1
  <2>3. ~ (k <= a)
    BY <1>1, <1>2, <1>4
  <2>4. TokensOf(all, tok, t, k) = OwnOf(tok, t, NewRows(tok, t)[m], all[k].col)
    BY <2>3 DEF TokensOf, a
  <2> HIDE DEF m
  <2>5. Lists(all[k].text, Inked(tok, OwnOf(tok, t, NewRows(tok, t)[m], all[k].col)))
    BY <2>2 DEF InferredFrom, InferredCell
  <2>6. QED BY <1>1, <1>2, <2>2, <2>4, <2>5 DEF a
<1>5. QED BY <1>1, <1>2, <1>3, <1>4

\* What FillTable took is what the cells hold.
LEMMA TakenIs ==
    ASSUME NEW tok \in Tokens, NEW t, Bare(t), NEW all, Stocked(all, tok, t), NEW i \in DOMAIN tok
    PROVE  (\E k \in DOMAIN all : i \in TokensOf(all, tok, t, k)) <=> i \in Taken(tok, t)
<1> DEFINE a == Len(t.cells)
<1>1. a \in Nat /\ DOMAIN t.cells = 1..a /\ a <= Len(all) /\ Len(all) \in Nat /\ DOMAIN all = 1..Len(all)
  BY SeqHas DEF Bare, Stocked
<1>2. \A k \in DOMAIN t.cells : k \in DOMAIN all /\ TokensOf(all, tok, t, k) = Takes(tok, t, k)
  <2> DEFINE L == Len(all)
  <2>1. a \in Nat /\ a <= L /\ L \in Nat /\ DOMAIN t.cells = 1..a /\ DOMAIN all = 1..L
    BY <1>1
  <2> HIDE DEF a, L
  <2>2. \A k \in DOMAIN t.cells : k \in DOMAIN all /\ k <= a
    BY <2>1
  <2>3. QED BY <2>2 DEF TokensOf, a
<1>3. ASSUME NEW k \in DOMAIN all, i \in TokensOf(all, tok, t, k) PROVE i \in Taken(tok, t)
  <2>1. CASE k \in DOMAIN t.cells
    <3>1. i \in Takes(tok, t, k)
      BY <1>2, <1>3, <2>1
    <3>2. CASE i \in Within(tok, DOMAIN tok, t.cells[k].box)
      <4>1. i \in Claimed(tok, t)
        BY <2>1, <3>2 DEF Claimed, Within, ToSet
      <4>2. QED BY <4>1 DEF Taken
    <3>3. CASE i \in Missed(tok, t)
      BY <3>3 DEF Taken
    <3>4. QED BY <3>1, <3>2, <3>3 DEF Takes
  <2>2. CASE k \notin DOMAIN t.cells
    <3>1. /\ k \in Nat /\ k > 0
          /\ k > Len(t.cells) =>
                \E m : /\ InferredFrom(all[k], tok, t, m)
                       /\ TokensOf(all, tok, t, k) = OwnOf(tok, t, NewRows(tok, t)[m], all[k].col)
      BY StockedTokens
    <3>2. k > a
      <4> HIDE DEF a
      <4>1. QED BY <1>1, <2>2, <3>1
    <3>3. PICK m : /\ InferredFrom(all[k], tok, t, m)
                   /\ TokensOf(all, tok, t, k) = OwnOf(tok, t, NewRows(tok, t)[m], all[k].col)
      BY <3>1, <3>2
    <3>4. m \in DOMAIN NewRows(tok, t) /\ i \in NewRows(tok, t)[m] /\ BestColumn(tok, t, i) # {}
      BY <1>3, <3>3 DEF InferredFrom, OwnOf
    <3>5. QED BY <3>4 DEF Taken, ToSet
  <2>3. QED BY <2>1, <2>2
<1>4. ASSUME i \in Taken(tok, t) PROVE \E k \in DOMAIN all : i \in TokensOf(all, tok, t, k)
  <2>1. CASE i \in Claimed(tok, t)
    <3>1. PICK k \in DOMAIN t.cells : CenterIn(tok[i].box, t.cells[k].box)
      BY <2>1 DEF Claimed, ToSet
    <3>2. i \in Takes(tok, t, k)
      BY <3>1 DEF Takes, Within
    <3>3. QED BY <1>2, <3>2
  <2>2. CASE i \in Missed(tok, t)
    <3>1. Cardinality(Near(tok, t, i)) = 1
      BY <2>2 DEF Missed
    <3>2. PICK k : Near(tok, t, i) = {k}
      <4> DEFINE N == Near(tok, t, i)
      <4>1. Cardinality(N) = 1 /\ IsFiniteSet(N)
        <5>1. N \in SUBSET DOMAIN t.cells
          BY DEF Near
        <5>2. IsFiniteSet(1..a)
          BY <1>1, FS_Interval
        <5>3. IsFiniteSet(DOMAIN t.cells)
          BY <1>1, <5>2
        <5> HIDE DEF N
        <5>4. QED BY <3>1, <5>1, <5>3, FS_Subset DEF N
      <4> HIDE DEF N
      <4>2. \E k : N = {k}
        BY <4>1, FS_Singleton
      <4>3. QED BY <4>2 DEF N
    <3>3. k \in DOMAIN t.cells
      BY <3>2 DEF Near
    <3>4. i \in Takes(tok, t, k)
      BY <2>2, <3>2 DEF Takes
    <3>5. QED BY <1>2, <3>3, <3>4
  <2>3. CASE \E m \in DOMAIN NewRows(tok, t) : i \in NewRows(tok, t)[m] /\ BestColumn(tok, t, i) # {}
    <3>1. PICK m \in DOMAIN NewRows(tok, t) : i \in NewRows(tok, t)[m] /\ BestColumn(tok, t, i) # {}
      BY <2>3
    <3>2. PICK col : col \in BestColumn(tok, t, i)
      BY <3>1
    <3>3. BestColumn(tok, t, i) = {col}
      BY <3>2, BestIsOne
    <3>4. col \in RowColumns(tok, t, NewRows(tok, t)[m])
      BY <3>1, <3>2 DEF RowColumns
    <3>5. PICK p \in DOMAIN all : p > Len(t.cells) /\ InferredFrom(all[p], tok, t, m) /\ all[p].col = col
      BY <3>4 DEF Stocked
    <3>6. /\ Len(t.cells) \in Nat /\ DOMAIN t.cells = 1..Len(t.cells) /\ p \in Nat /\ p > 0
          /\ p > Len(t.cells) =>
                \E l : /\ InferredFrom(all[p], tok, t, l)
                       /\ TokensOf(all, tok, t, p) = OwnOf(tok, t, NewRows(tok, t)[l], all[p].col)
      BY StockedTokens
    <3>7. PICK l : /\ InferredFrom(all[p], tok, t, l)
                   /\ TokensOf(all, tok, t, p) = OwnOf(tok, t, NewRows(tok, t)[l], all[p].col)
      BY <3>5, <3>6
    <3>8. l = m
      <4>1. all[p].row = NextRow(t) + l - 1 /\ all[p].row = NextRow(t) + m - 1
        BY <3>5, <3>7 DEF InferredFrom, InferredCell
      <4>2. l \in DOMAIN NewRows(tok, t)
        BY <3>7 DEF InferredFrom
      <4>3. l \in Nat /\ m \in Nat
        BY <4>2, RowStocks
      <4> DEFINE z == NextRow(t)
      <4>4. z \in Nat /\ z + m - 1 = z + l - 1
        BY <4>1, NextRowIs
      <4> HIDE DEF z
      <4>5. QED BY <4>3, <4>4
    <3>9. i \in OwnOf(tok, t, NewRows(tok, t)[m], col)
      BY <3>1, <3>3 DEF OwnOf
    <3>10. QED BY <3>5, <3>7, <3>8, <3>9
  <2>4. i \in Claimed(tok, t) \/ i \in Missed(tok, t)
        \/ \E m \in DOMAIN NewRows(tok, t) : i \in NewRows(tok, t)[m] /\ BestColumn(tok, t, i) # {}
    BY <1>4 DEF Taken, ToSet
  <2>5. QED BY <2>1, <2>2, <2>3, <2>4
<1>5. QED BY <1>3, <1>4

\* Where the tokens of a cell lie, and when two cells have one.
LEMMA ApartOrOver ==
    ASSUME NEW tok \in Tokens, NEW t, Bare(t), NEW all, Stocked(all, tok, t), NEW i \in DOMAIN tok,
           NEW k \in DOMAIN all, i \in TokensOf(all, tok, t, k)
    PROVE  /\ \/ k \in DOMAIN t.cells /\ CenterIn(tok[i].box, all[k].box) /\ i \in Claimed(tok, t)
              \/ /\ k \in DOMAIN t.cells /\ i \in Missed(tok, t) /\ Near(tok, t, i) = {k}
                 /\ CenterIn(tok[i].box, t.box)
              \/ /\ k \notin DOMAIN t.cells /\ i \in Spare(tok, t) /\ CenterIn(tok[i].box, t.box)
                 /\ \E m : /\ InferredFrom(all[k], tok, t, m) /\ i \in NewRows(tok, t)[m]
                           /\ BestColumn(tok, t, i) = {all[k].col}
<1> DEFINE a == Len(t.cells)
<1>1. /\ a \in Nat /\ DOMAIN t.cells = 1..a /\ k \in Nat /\ k > 0
      /\ k > a => \E m : /\ InferredFrom(all[k], tok, t, m)
                         /\ TokensOf(all, tok, t, k) = OwnOf(tok, t, NewRows(tok, t)[m], all[k].col)
  BY StockedTokens
<1> HIDE DEF a
<1>2. CASE k \in DOMAIN t.cells
  <2>1. k <= a
    BY <1>1, <1>2
  <2>2. i \in Takes(tok, t, k)
    BY <2>1 DEF TokensOf, a
  <2>3. all[k].box = t.cells[k].box
    BY <1>2 DEF Stocked, GridCell
  <2>4. CASE i \in Within(tok, DOMAIN tok, t.cells[k].box)
    <3>1. CenterIn(tok[i].box, all[k].box)
      BY <2>3, <2>4 DEF Within
    <3>2. i \in Claimed(tok, t)
      BY <1>2, <2>4 DEF Within, Claimed, ToSet
    <3>3. QED BY <1>2, <3>1, <3>2
  <2>5. CASE i \in Missed(tok, t) /\ Near(tok, t, i) = {k}
    BY <1>2, <2>5 DEF Missed, Within
  <2>6. QED BY <2>2, <2>4, <2>5 DEF Takes
<1>3. CASE k \notin DOMAIN t.cells
  <2>1. k > a
    BY <1>1, <1>3
  <2>2. PICK m : /\ InferredFrom(all[k], tok, t, m)
                 /\ TokensOf(all, tok, t, k) = OwnOf(tok, t, NewRows(tok, t)[m], all[k].col)
    BY <1>1, <2>1
  <2>3. i \in NewRows(tok, t)[m] /\ BestColumn(tok, t, i) = {all[k].col} /\ m \in DOMAIN NewRows(tok, t)
    BY <2>2 DEF OwnOf, InferredFrom
  <2>4. NewRows(tok, t)[m] \in Groups(tok, t)
    BY <2>3, GroupsAre, ListHolds
  <2>5. i \in Spare(tok, t)
    BY <2>3, <2>4, GroupsAre
  <2>6. CenterIn(tok[i].box, t.box)
    BY <2>5 DEF Spare, Within
  <2>7. QED BY <1>3, <2>2, <2>3, <2>5, <2>6
<1>4. QED BY <1>2, <1>3

LEMMA SharedCells ==
    ASSUME NEW tok \in Tokens, NEW t, Bare(t), NEW all, Stocked(all, tok, t), NEW i \in DOMAIN tok,
           NEW k \in DOMAIN all, i \in TokensOf(all, tok, t, k),
           NEW l \in DOMAIN all, i \in TokensOf(all, tok, t, l), k # l
    PROVE  CenterIn(tok[i].box, all[k].box) /\ CenterIn(tok[i].box, all[l].box)
<1> DEFINE Over0(p) == p \in DOMAIN t.cells /\ CenterIn(tok[i].box, all[p].box) /\ i \in Claimed(tok, t)
           Near0(p) == p \in DOMAIN t.cells /\ i \in Missed(tok, t) /\ Near(tok, t, i) = {p}
           New0(p) == /\ p \notin DOMAIN t.cells /\ i \in Spare(tok, t)
                      /\ \E m : /\ InferredFrom(all[p], tok, t, m) /\ i \in NewRows(tok, t)[m]
                                /\ BestColumn(tok, t, i) = {all[p].col}
<1>1. Over0(k) \/ Near0(k) \/ New0(k)
  BY ApartOrOver
<1>2. Over0(l) \/ Near0(l) \/ New0(l)
  BY ApartOrOver
<1>3. i \in Missed(tok, t) => i \notin Claimed(tok, t)
  BY DEF Missed
<1>4. i \in Spare(tok, t) => i \notin Claimed(tok, t) /\ i \notin Missed(tok, t)
  BY DEF Spare
<1>5. ~ (Near0(k) /\ Near0(l))
  OBVIOUS
<1>6. ASSUME New0(k), New0(l) PROVE FALSE
  <2>1. PICK m : InferredFrom(all[k], tok, t, m) /\ i \in NewRows(tok, t)[m] /\ BestColumn(tok, t, i) = {all[k].col}
    BY <1>6
  <2>2. PICK j : InferredFrom(all[l], tok, t, j) /\ i \in NewRows(tok, t)[j] /\ BestColumn(tok, t, i) = {all[l].col}
    BY <1>6
  <2>3. m \in DOMAIN NewRows(tok, t) /\ j \in DOMAIN NewRows(tok, t)
    BY <2>1, <2>2 DEF InferredFrom
  <2>4. Lists(NewRows(tok, t), Groups(tok, t))
    BY GroupsAre
  <2>5. NewRows(tok, t)[m] \in Groups(tok, t) /\ NewRows(tok, t)[j] \in Groups(tok, t)
    BY <2>3, <2>4, ListHolds
  <2>6. NewRows(tok, t)[m] = NewRows(tok, t)[j]
    BY <2>1, <2>2, <2>5, GroupsAre
  <2>7. m = j
    BY <2>3, <2>4, <2>6 DEF Lists
  <2>8. all[k].row = all[l].row /\ all[k].col = all[l].col
    <3>1. all[k].row = NextRow(t) + m - 1 /\ all[l].row = NextRow(t) + j - 1
      BY <2>1, <2>2 DEF InferredFrom, InferredCell
    <3>2. all[k].col = all[l].col
      BY <2>1, <2>2
    <3>3. QED BY <2>7, <3>1, <3>2
  <2>9. k > Len(t.cells) /\ l > Len(t.cells)
    <3> DEFINE a == Len(t.cells)
    <3>1. a \in Nat /\ DOMAIN t.cells = 1..a /\ k \in Nat /\ k > 0
      BY StockedTokens
    <3>2. l \in Nat /\ l > 0
      BY StockedTokens
    <3>3. k \notin DOMAIN t.cells /\ l \notin DOMAIN t.cells
      BY <1>6
    <3> HIDE DEF a
    <3>4. k > a /\ l > a
      BY <3>1, <3>2, <3>3
    <3>5. QED BY <3>4 DEF a
  <2>10. k = l
    BY <2>8, <2>9 DEF Stocked
  <2>11. QED BY <2>10
<1> HIDE DEF New0
<1>7. New0(k) \/ New0(l) => i \in Spare(tok, t)
  BY DEF New0
<1>8. Over0(k) /\ Over0(l)
  BY <1>1, <1>2, <1>3, <1>4, <1>5, <1>6, <1>7
<1>9. QED BY <1>8

LEMMA StockedOnPage ==
    ASSUME NEW tok \in Tokens, NEW t, Bare(t), NEW all, Stocked(all, tok, t), NEW k \in DOMAIN all,
           NEW i \in TokensOf(all, tok, t, k)
    PROVE  i \in DOMAIN tok
<1> DEFINE a == Len(t.cells)
<1>1. /\ a \in Nat /\ k \in Nat
      /\ k > a => \E m : /\ InferredFrom(all[k], tok, t, m)
                         /\ TokensOf(all, tok, t, k) = OwnOf(tok, t, NewRows(tok, t)[m], all[k].col)
  BY StockedTokens
<1>2. CASE k <= a
  BY <1>2 DEF TokensOf, Takes, Within, Missed
<1>3. CASE k > a
  <2>1. PICK m : /\ InferredFrom(all[k], tok, t, m)
                 /\ TokensOf(all, tok, t, k) = OwnOf(tok, t, NewRows(tok, t)[m], all[k].col)
    BY <1>1, <1>3
  <2>2. i \in NewRows(tok, t)[m] /\ m \in DOMAIN NewRows(tok, t)
    BY <2>1 DEF OwnOf, InferredFrom
  <2>3. NewRows(tok, t)[m] \in Groups(tok, t)
    BY <2>2, GroupsAre, ListHolds
  <2>4. QED BY <2>2, <2>3, GroupsAre
<1> HIDE DEF a
<1>4. k <= a \/ k > a
  BY <1>1
<1>5. QED BY <1>2, <1>3, <1>4

LEMMA FilledPlaces ==
    ASSUME NEW tok \in Tokens, NEW t, Bare(t), t = [x \in Tabular |-> t[x]]
    PROVE  Placed(FillTable(tok, t), tok, t)
<1> DEFINE f == FillTable(tok, t)
<1>1. \E all : Stock(f, all, tok, t)
  BY FilledIs
<1> HIDE DEF f
<1>2. PICK all : Stock(f, all, tok, t)
  BY <1>1
<1>3. /\ Stocked(all, tok, t) /\ DOMAIN f.cells = DOMAIN all /\ f.box = t.box
      /\ \A k \in DOMAIN all : f.cells[k].box = all[k].box /\ f.cells[k].text = all[k].text
  BY <1>2 DEF Stock, Retains
<1>4. ASSUME NEW k \in DOMAIN all
      PROVE  /\ Lists(f.cells[k].text, ToSet(f.cells[k].text))
             /\ ToSet(f.cells[k].text) = Inked(tok, TokensOf(all, tok, t, k))
  <2> DEFINE s == f.cells[k].text
             S == Inked(tok, TokensOf(all, tok, t, k))
  <2>1. Lists(s, S)
    BY <1>3, <1>4, StockedTokens
  <2> HIDE DEF s, S
  <2>2. ToSet(s) = S
    BY <2>1, ListedIs
  <2>3. QED BY <2>1, <2>2 DEF s, S
<1>5. \A k \in DOMAIN all : \A i \in TokensOf(all, tok, t, k) : i \in DOMAIN tok
  BY <1>3, StockedOnPage
<1>6. ASSUME NEW i \in DOMAIN tok, tok[i].ink # "none"
      PROVE  (\E k \in DOMAIN f.cells : i \in ToSet(f.cells[k].text)) <=> i \in Taken(tok, t)
  <2>1. (\E k \in DOMAIN all : i \in TokensOf(all, tok, t, k)) <=> i \in Taken(tok, t)
    BY <1>3, TakenIs
  <2>2. \A k \in DOMAIN all : i \in ToSet(f.cells[k].text) <=> i \in TokensOf(all, tok, t, k)
    BY <1>4, <1>6 DEF Inked
  <2>3. QED BY <1>3, <2>1, <2>2
<1>7. ASSUME NEW k \in DOMAIN f.cells, NEW i \in ToSet(f.cells[k].text)
      PROVE  /\ i \in DOMAIN tok
             /\ CenterIn(tok[i].box, f.cells[k].box) \/ CenterIn(tok[i].box, f.box)
  <2>1. k \in DOMAIN all /\ i \in TokensOf(all, tok, t, k) /\ i \in DOMAIN tok
    BY <1>3, <1>4, <1>5, <1>7 DEF Inked
  <2>2. CenterIn(tok[i].box, all[k].box) \/ CenterIn(tok[i].box, t.box)
    BY <1>3, <2>1, ApartOrOver
  <2>3. QED BY <1>3, <2>1, <2>2
<1>8. ASSUME NEW k \in DOMAIN f.cells, NEW l \in DOMAIN f.cells, NEW i \in ToSet(f.cells[k].text),
             i \in ToSet(f.cells[l].text), k # l
      PROVE  CenterIn(tok[i].box, f.cells[k].box) /\ CenterIn(tok[i].box, f.cells[l].box)
  <2>1. /\ k \in DOMAIN all /\ i \in TokensOf(all, tok, t, k) /\ i \in DOMAIN tok
        /\ l \in DOMAIN all /\ i \in TokensOf(all, tok, t, l)
    BY <1>3, <1>4, <1>5, <1>8 DEF Inked
  <2>2. CenterIn(tok[i].box, all[k].box) /\ CenterIn(tok[i].box, all[l].box)
    BY <1>3, <1>8, <2>1, SharedCells
  <2>3. QED BY <1>3, <2>1, <2>2
<1>9. Placed(f, tok, t)
  BY <1>3, <1>4, <1>6, <1>7, <1>8 DEF Placed
<1>10. QED BY <1>9 DEF f

LEMMA OnceIs ==
    ASSUME NEW text, NEW S, Lists(text, S), NEW i \in ToSet(text)
    PROVE  Cardinality({m \in DOMAIN text : text[m] = i}) = 1
<1>1. PICK m \in DOMAIN text : text[m] = i
  BY DEF ToSet
<1>2. {k \in DOMAIN text : text[k] = i} = {m}
  BY <1>1 DEF Lists
<1>3. QED BY <1>2, FS_Singleton

\* The tables recognised on a page, as OCR fills them.
Tables0(u, tables) ==
    /\ OfLength(tables) /\ u.tokens \in Tokens
    /\ \A k \in DOMAIN tables : Bare(tables[k]) /\ tables[k] = [x \in Tabular |-> tables[k][x]]

\* What a page says of token i in its cells.
LEMMA HoldersAre ==
    ASSUME NEW u, NEW tables, Tables0(u, tables), NEW p, p.tables = Filled(u, tables),
           NEW i \in DOMAIN u.tokens, u.tokens[i].ink # "none"
    PROVE  /\ Holders(p, i) # {} <=> i \in UsedUp(u, tables)
           /\ \A a, b \in Holders(p, i) : a # b =>
                IF a[1] = b[1] THEN CenterIn(u.tokens[i].box, a[2].box) /\ CenterIn(u.tokens[i].box, b[2].box)
                ELSE \A h \in {a, b} : CenterIn(u.tokens[i].box, h[2].box) \/ CenterIn(u.tokens[i].box, h[1].box)
           /\ \A a \in Holders(p, i) : Cardinality({m \in DOMAIN a[2].text : a[2].text[m] = i}) = 1
<1> DEFINE tok == u.tokens
           F(k) == FillTable(tok, tables[k])
           H == Holders(p, i)
           At(h, k, j) == /\ k \in DOMAIN tables /\ j \in DOMAIN F(k).cells
                          /\ h = <<F(k), F(k).cells[j]>> /\ i \in ToSet(F(k).cells[j].text)
<1>1. \A k \in DOMAIN tables : Placed(F(k), tok, tables[k])
  BY FilledPlaces DEF Tables0
<1>2. ToSet(p.tables) = {F(k) : k \in DOMAIN tables}
  BY DEF ToSet, Filled
<1>3. \A h : h \in H <=> \E k, j : At(h, k, j)
  <2> SUFFICES ASSUME NEW h PROVE h \in H <=> \E k, j : At(h, k, j)
    OBVIOUS
  <2>1. ASSUME h \in H PROVE \E k, j : At(h, k, j)
    <3>1. PICK t \in ToSet(p.tables) : h \in {t} \X ToSet(t.cells) /\ i \in ToSet(h[2].text)
      BY <2>1 DEF Holders
    <3>2. PICK k \in DOMAIN tables : t = F(k)
      BY <1>2, <3>1
    <3>3. h = <<t, h[2]>> /\ h[2] \in ToSet(t.cells)
      BY <3>1
    <3>4. PICK j \in DOMAIN t.cells : h[2] = t.cells[j]
      BY <3>3 DEF ToSet
    <3> HIDE DEF F
    <3>5. QED BY <3>1, <3>2, <3>3, <3>4
  <2>2. ASSUME NEW k, NEW j, At(h, k, j) PROVE h \in H
    <3> DEFINE t == F(k)
    <3>1. t \in ToSet(p.tables) /\ t.cells[j] \in ToSet(t.cells) /\ h = <<t, t.cells[j]>> /\ i \in ToSet(t.cells[j].text)
      BY <1>2, <2>2 DEF ToSet
    <3> HIDE DEF t
    <3>2. h \in {t} \X ToSet(t.cells) /\ h[2] = t.cells[j]
      BY <3>1
    <3>3. QED BY <3>1, <3>2 DEF Holders
  <2>3. QED BY <2>1, <2>2
<1> HIDE DEF H, F
<1>4. H # {} <=> i \in UsedUp(u, tables)
  <2>1. ASSUME H # {} PROVE i \in UsedUp(u, tables)
    <3>1. PICK h : h \in H
      BY <2>1
    <3>2. PICK k, j : At(h, k, j)
      BY <1>3, <3>1
    <3>3. i \in Taken(tok, tables[k])
      BY <1>1, <3>2 DEF Placed
    <3>4. QED BY <3>2, <3>3 DEF UsedUp, ToSet
  <2>2. ASSUME i \in UsedUp(u, tables) PROVE H # {}
    <3>1. PICK k \in DOMAIN tables : i \in Taken(tok, tables[k])
      BY <2>2 DEF UsedUp, ToSet
    <3>2. PICK j \in DOMAIN F(k).cells : i \in ToSet(F(k).cells[j].text)
      BY <1>1, <3>1 DEF Placed
    <3>3. At(<<F(k), F(k).cells[j]>>, k, j)
      BY <3>2
    <3>4. QED BY <1>3, <3>3
  <2>3. QED BY <2>1, <2>2
<1>5. ASSUME NEW a \in H, NEW b \in H, a # b
      PROVE  IF a[1] = b[1] THEN CenterIn(tok[i].box, a[2].box) /\ CenterIn(tok[i].box, b[2].box)
             ELSE \A h \in {a, b} : CenterIn(tok[i].box, h[2].box) \/ CenterIn(tok[i].box, h[1].box)
  <2>1. PICK k, j : At(a, k, j)
    BY <1>3
  <2>2. PICK l, m : At(b, l, m)
    BY <1>3
  <2>3. a[1] = F(k) /\ a[2] = F(k).cells[j] /\ b[1] = F(l) /\ b[2] = F(l).cells[m]
    BY <2>1, <2>2
  <2>4. CASE a[1] = b[1]
    <3>1. F(k) = F(l) /\ j # m
      BY <1>5, <2>1, <2>2, <2>3, <2>4
    <3>2. j \in DOMAIN F(k).cells /\ m \in DOMAIN F(k).cells /\ i \in ToSet(F(k).cells[j].text)
          /\ i \in ToSet(F(k).cells[m].text)
      BY <2>1, <2>2, <3>1
    <3>3. CenterIn(tok[i].box, F(k).cells[j].box) /\ CenterIn(tok[i].box, F(k).cells[m].box)
      BY <1>1, <2>1, <3>1, <3>2 DEF Placed
    <3>4. QED BY <2>3, <2>4, <3>1, <3>3
  <2>5. CASE a[1] # b[1]
    <3>1. CenterIn(tok[i].box, a[2].box) \/ CenterIn(tok[i].box, a[1].box)
      BY <1>1, <2>1, <2>3 DEF Placed
    <3>2. CenterIn(tok[i].box, b[2].box) \/ CenterIn(tok[i].box, b[1].box)
      BY <1>1, <2>2, <2>3 DEF Placed
    <3>3. QED BY <2>5, <3>1, <3>2
  <2>6. QED BY <2>4, <2>5
<1>6. ASSUME NEW a \in H PROVE Cardinality({m \in DOMAIN a[2].text : a[2].text[m] = i}) = 1
  <2>1. PICK k, j : At(a, k, j)
    BY <1>3
  <2> DEFINE text == a[2].text
  <2>2. text = F(k).cells[j].text
    BY <2>1
  <2>3. Lists(text, ToSet(text)) /\ i \in ToSet(text)
    BY <1>1, <2>1, <2>2 DEF Placed
  <2> HIDE DEF text
  <2>4. Cardinality({m \in DOMAIN text : text[m] = i}) = 1
    BY <2>3, OnceIs
  <2>5. QED BY <2>4 DEF text
<1>7. QED BY <1>4, <1>5, <1>6 DEF H

\* What the elements of a page say of token i: regions, tables, blocks.
Parts(E, u, tables, a, b, c, at) ==
    /\ a \in Nat /\ b \in Nat /\ c \in Nat /\ DOMAIN E = 1..(a + b + c) /\ DOMAIN u.regions = 1..a
    /\ \A k \in 1..a : Stands(E[k], u.tokens, u.regions, UsedUp(u, tables), k)
    /\ \A k \in 1..b : E[a + k].id[1] = "t" /\ E[a + k].text = <<>>
    /\ Lists(at, Worded(u.tokens, Blocks(u.tokens, Loose(u, tables)))) /\ DOMAIN at = 1..c
    /\ \A k \in 1..c : Recovered(E[a + b + k], u.tokens, Blocks(u.tokens, Loose(u, tables))[at[k]])

LEMMA PartsAre ==
    ASSUME NEW u, Answered(u), NEW tables, Tables0(u, tables), NEW how
    PROVE  \E a, b, c, at : Parts(VisualPage(u, how, tables).elements, u, tables, a, b, c, at)
<1> DEFINE Q == VisualPage(u, how, tables).elements
           tok == u.tokens
           filled == Filled(u, tables)
           orphans == Loose(u, tables)
           laid == LaidOf(u, tables)
<1>0. OfLength(tables)
  BY DEF Tables0
<1>1. PICK rest, at : Composed(Q, tok, filled, orphans, laid, rest, at)
  BY <1>0, VisualFormIs DEF VisualForm
<1> DEFINE a == Len(laid.elements)
           b == Len(rest)
           c == Len(at)
<1>2. /\ Lists(rest, DOMAIN filled \ laid.shown) /\ Lists(at, Worded(tok, Blocks(tok, orphans)))
      /\ DOMAIN Q = 1..(a + b + c)
      /\ \A j \in 1..a : Q[j] = laid.elements[j]
      /\ \A j \in 1..b : Q[a + j] = Element(<<"t", rest[j]>>, "table", filled[rest[j]].box, <<>>, rest[j])
      /\ \A j \in 1..c : Recovered(Q[a + b + j], tok, Blocks(tok, orphans)[at[j]])
  BY <1>1 DEF Composed
<1> HIDE DEF Q, filled, orphans, laid
<1>3. OfLength(filled) /\ tok \in Tokens /\ u.regions \in Regions
  BY <1>0 DEF OfLength, filled, Filled, Answered
<1>4. /\ laid \in Lain(filled) /\ a = Len(u.regions)
      /\ \A i \in DOMAIN u.regions : Stands(laid.elements[i], tok, u.regions, UsedUp(u, tables), i)
  BY <1>3, LaidIs DEF laid, LaidOf, filled
<1>5. a \in Nat /\ b \in Nat /\ c \in Nat /\ DOMAIN u.regions = 1..a /\ DOMAIN at = 1..c
  <2>1. Len(u.regions) \in Nat /\ DOMAIN u.regions = 1..Len(u.regions)
    BY <1>3, SeqHas DEF Regions
  <2>2. Len(rest) \in Nat /\ Len(at) \in Nat /\ DOMAIN at = 1..Len(at)
    BY <1>2 DEF Lists
  <2>3. QED BY <1>4, <2>1, <2>2
<1>6. \A j \in 1..b : Q[a + j].id[1] = "t" /\ Q[a + j].text = <<>>
  <2> SUFFICES ASSUME NEW j \in 1..b PROVE Q[a + j].id[1] = "t" /\ Q[a + j].text = <<>>
    OBVIOUS
  <2> DEFINE e == Q[a + j]
  <2>1. e = Element(<<"t", rest[j]>>, "table", filled[rest[j]].box, <<>>, rest[j])
    BY <1>2
  <2> HIDE DEF e
  <2>2. e.id = <<"t", rest[j]>> /\ e.text = <<>>
    BY <2>1 DEF Element
  <2>3. e.id[1] = "t"
    BY <2>2
  <2>4. QED BY <2>2, <2>3 DEF e
<1>7. \A j \in 1..a : Stands(Q[j], tok, u.regions, UsedUp(u, tables), j)
  BY <1>2, <1>4, <1>5
<1> HIDE DEF a, b, c
<1>8. Parts(Q, u, tables, a, b, c, at)
  BY <1>2, <1>5, <1>6, <1>7 DEF Parts, orphans
<1>9. QED BY <1>8 DEF Q

LEMMA WordedIs ==
    ASSUME NEW u, NEW tables, Tables0(u, tables), NEW E, NEW a, NEW b, NEW c, NEW at, Parts(E, u, tables, a, b, c, at),
           NEW i \in DOMAIN u.tokens, u.tokens[i].ink # "none"
    PROVE  /\ \A k \in DOMAIN E : \/ k \in 1..a
                                  \/ \E j \in 1..b : k = a + j
                                  \/ \E j \in 1..c : k = a + b + j
           /\ \A k \in 1..a : i \in ToSet(E[k].text) <=>
                /\ E[k].type \in OrdinaryTypes /\ CenterIn(u.tokens[i].box, E[k].box) /\ i \notin UsedUp(u, tables)
           /\ \A k \in 1..c : /\ E[a + b + k].id[1] = "r"
                              /\ i \in ToSet(E[a + b + k].text) <=>
                                   i \in ToSet(Blocks(u.tokens, Loose(u, tables))[at[k]].ids)
           /\ \A k \in DOMAIN E : i \in ToSet(E[k].text) =>
                Cardinality({m \in DOMAIN E[k].text : E[k].text[m] = i}) = 1
<1> DEFINE tok == u.tokens
           S == Loose(u, tables)
           blocks == Blocks(tok, S)
<1>1. tok \in Tokens /\ S \in SUBSET DOMAIN tok
  BY DEF Tables0, Loose, Orphans
<1> HIDE DEF S
<1>2. /\ a \in Nat /\ b \in Nat /\ c \in Nat /\ DOMAIN E = 1..(a + b + c) /\ DOMAIN u.regions = 1..a
      /\ \A k \in 1..a : Stands(E[k], tok, u.regions, UsedUp(u, tables), k)
      /\ \A k \in 1..b : E[a + k].id[1] = "t" /\ E[a + k].text = <<>>
      /\ Lists(at, Worded(tok, blocks)) /\ DOMAIN at = 1..c
      /\ \A k \in 1..c : Recovered(E[a + b + k], tok, blocks[at[k]])
  BY DEF Parts, S
<1> HIDE DEF blocks
<1>3. ASSUME NEW k \in DOMAIN E
      PROVE k \in 1..a \/ (\E j \in 1..b : k = a + j) \/ \E j \in 1..c : k = a + b + j
  <2>1. k \in 1..a \/ (k - a) \in 1..b \/ (k - (a + b)) \in 1..c
    BY <1>2
  <2>2. k = a + (k - a) /\ k = a + b + (k - (a + b))
    BY <1>2
  <2>3. QED BY <2>1, <2>2
<1>4. ASSUME NEW k \in 1..a
      PROVE  /\ i \in ToSet(E[k].text) <=>
                  /\ E[k].type \in OrdinaryTypes /\ CenterIn(tok[i].box, E[k].box) /\ i \notin UsedUp(u, tables)
             /\ i \in ToSet(E[k].text) => Cardinality({m \in DOMAIN E[k].text : E[k].text[m] = i}) = 1
  <2> DEFINE e == E[k]
             text == e.text
  <2>1. Stands(e, tok, u.regions, UsedUp(u, tables), k)
    BY <1>2
  <2> HIDE DEF e
  <2>2. CASE e.type = "table" /\ text = <<>>
    <3>1. ToSet(<<>>) = {}
      BY DEF ToSet
    <3>2. "table" \notin OrdinaryTypes
      BY DEF OrdinaryTypes
    <3>3. QED BY <2>2, <3>1, <3>2 DEF e
  <2>3. CASE e.type \in OrdinaryTypes /\ text = RegionText(tok, u.regions[k].box, UsedUp(u, tables))
    <3> DEFINE S0 == Inked(tok, Ours(tok, e.box, UsedUp(u, tables)))
    <3>1. e.box = u.regions[k].box
      BY <2>1 DEF Stands
    <3>2. Lists(text, S0)
      BY <1>1, <2>3, <3>1, RegionTextIs
    <3>3. i \in S0 <=> CenterIn(tok[i].box, e.box) /\ i \notin UsedUp(u, tables)
      BY DEF Inked, Ours, Within
    <3> HIDE DEF S0, text
    <3>4. ToSet(text) = S0
      BY <3>2, ListedIs
    <3>5. i \in ToSet(text) => Cardinality({m \in DOMAIN text : text[m] = i}) = 1
      BY <3>2, OnceIs
    <3>6. QED BY <2>3, <3>3, <3>4, <3>5 DEF e, text
  <2>4. QED BY <2>1, <2>2, <2>3 DEF Stands
<1>5. ASSUME NEW k \in 1..c
      PROVE  /\ E[a + b + k].id[1] = "r"
             /\ i \in ToSet(E[a + b + k].text) <=> i \in ToSet(blocks[at[k]].ids)
             /\ i \in ToSet(E[a + b + k].text) =>
                  Cardinality({m \in DOMAIN E[a + b + k].text : E[a + b + k].text[m] = i}) = 1
  <2> DEFINE e == E[a + b + k]
             j == at[k]
             text == e.text
             I == ToSet(blocks[j].ids)
  <2>1. Recovered(e, tok, blocks[j]) /\ j \in Worded(tok, blocks)
    BY <1>2, ListHolds
  <2> HIDE DEF e, j
  <2>2. Lists(text, Inked(tok, I))
    BY <1>1, <2>1, RecoveredIs DEF blocks
  <2>3. e.id[1] = "r"
    BY <2>1 DEF Recovered
  <2> DEFINE S0 == Inked(tok, I)
  <2>a. Lists(text, S0) /\ (i \in S0 <=> i \in I)
    BY <2>2 DEF Inked
  <2> HIDE DEF text, I, S0
  <2>4. ToSet(text) = S0
    BY <2>a, ListedIs
  <2>5. i \in ToSet(text) => Cardinality({m \in DOMAIN text : text[m] = i}) = 1
    BY <2>a, OnceIs
  <2>6. QED BY <2>3, <2>a, <2>4, <2>5 DEF e, text, j, I
<1>6. ASSUME NEW k \in DOMAIN E, i \in ToSet(E[k].text)
      PROVE Cardinality({m \in DOMAIN E[k].text : E[k].text[m] = i}) = 1
  <2>1. CASE k \in 1..a
    BY <1>4, <1>6, <2>1
  <2>2. CASE \E j \in 1..b : k = a + j
    <3>1. E[k].text = <<>>
      BY <1>2, <2>2
    <3>2. QED BY <1>6, <3>1 DEF ToSet
  <2>3. CASE \E j \in 1..c : k = a + b + j
    BY <1>5, <1>6, <2>3
  <2>4. QED BY <1>3, <2>1, <2>2, <2>3
<1>7. QED BY <1>3, <1>4, <1>5, <1>6 DEF blocks, S

LEMMA VisualKeepsOnce ==
    ASSUME NEW u, Answered(u), NEW tables, Tables0(u, tables), NEW how,
           NEW p, p.tables = Filled(u, tables), p.elements = VisualPage(u, how, tables).elements,
           NEW i \in DOMAIN u.tokens, u.tokens[i].ink # "none"
    PROVE  KeptOnce(p, i, u.tokens)
<1> DEFINE tok == u.tokens
           E == p.elements
           box == tok[i].box
           ordinary == Over(p, box, OrdinaryTypes)
           shown == Over(p, box, {"table"})
           owned == UsedUp(u, tables)
           S == Loose(u, tables)
           blocks == Blocks(tok, S)
           W == Written(p, i)
           H == Holders(p, i)
<1>1. PICK a, b, c, at : Parts(E, u, tables, a, b, c, at)
  BY PartsAre
<1>2. /\ a \in Nat /\ b \in Nat /\ c \in Nat /\ DOMAIN E = 1..(a + b + c) /\ DOMAIN u.regions = 1..a
      /\ \A k \in 1..a : Stands(E[k], tok, u.regions, owned, k)
      /\ \A k \in 1..b : E[a + k].id[1] = "t" /\ E[a + k].text = <<>>
      /\ Lists(at, Worded(tok, blocks)) /\ DOMAIN at = 1..c
  BY <1>1 DEF Parts
<1>3. /\ \A k \in DOMAIN E : \/ k \in 1..a
                             \/ \E j \in 1..b : k = a + j
                             \/ \E j \in 1..c : k = a + b + j
      /\ \A k \in 1..a : i \in ToSet(E[k].text) <=>
                E[k].type \in OrdinaryTypes /\ CenterIn(box, E[k].box) /\ i \notin owned
      /\ \A k \in 1..c : /\ E[a + b + k].id[1] = "r"
                         /\ i \in ToSet(E[a + b + k].text) <=> i \in ToSet(blocks[at[k]].ids)
      /\ \A k \in DOMAIN E : i \in ToSet(E[k].text) =>
                Cardinality({m \in DOMAIN E[k].text : E[k].text[m] = i}) = 1
  BY <1>1, WordedIs
<1>4. /\ H # {} <=> i \in owned
      /\ \A x, y \in H : x # y =>
                IF x[1] = y[1] THEN CenterIn(box, x[2].box) /\ CenterIn(box, y[2].box)
                ELSE \A h \in {x, y} : CenterIn(box, h[2].box) \/ CenterIn(box, h[1].box)
      /\ \A x \in H : Cardinality({m \in DOMAIN x[2].text : x[2].text[m] = i}) = 1
  BY HoldersAre
<1>5. \A k : k \in W <=> k \in DOMAIN E /\ i \in ToSet(E[k].text)
  BY DEF Written
<1>6. \A k : k \in ordinary <=> k \in DOMAIN E /\ E[k].id[1] = "e" /\ E[k].type \in OrdinaryTypes /\ CenterIn(box, E[k].box)
  BY DEF Over
<1>7. \A k : k \in shown <=> k \in DOMAIN E /\ E[k].id[1] = "e" /\ E[k].type = "table" /\ CenterIn(box, E[k].box)
  BY DEF Over
<1>8. S \in SUBSET DOMAIN tok /\ (i \in S <=> i \notin owned /\ \A k \in DOMAIN u.regions : ~ CenterIn(box, u.regions[k].box))
  BY DEF Loose, Orphans, ToSet
<1>9. BlockInv(blocks, S)
  BY <1>8, BlocksAre DEF Tables0
<1> HIDE DEF E, ordinary, shown, owned, S, blocks, W, H, box
<1>10. \A k \in 1..a : k \in DOMAIN E /\ E[k].id[1] = "e" /\ E[k].box = u.regions[k].box
                       /\ (E[k].type = "table" \/ E[k].type \in OrdinaryTypes)
  <2> SUFFICES ASSUME NEW k \in 1..a
               PROVE  k \in DOMAIN E /\ E[k].id[1] = "e" /\ E[k].box = u.regions[k].box
                      /\ (E[k].type = "table" \/ E[k].type \in OrdinaryTypes)
    OBVIOUS
  <2>1. k \in DOMAIN E
    BY <1>2
  <2> DEFINE e == E[k]
  <2>2. Stands(e, tok, u.regions, owned, k)
    BY <1>2
  <2> HIDE DEF e
  <2>3. e.id = <<"e", k>> /\ e.box = u.regions[k].box /\ (e.type = "table" \/ e.type \in OrdinaryTypes)
    BY <2>2 DEF Stands
  <2>4. e.id[1] = "e"
    BY <2>3
  <2>5. QED BY <2>1, <2>3, <2>4 DEF e
<1>11. \A k \in DOMAIN E : E[k].id[1] = "e" => k \in 1..a
  <2> SUFFICES ASSUME NEW k \in DOMAIN E, E[k].id[1] = "e" PROVE k \in 1..a
    OBVIOUS
  <2>1. \A j \in 1..b : k # a + j
    BY <1>2
  <2>2. \A j \in 1..c : k # a + b + j
    BY <1>3
  <2>3. QED BY <1>3, <2>1, <2>2
<1>12. \A k \in 1..c : a + b + k \in DOMAIN E /\ at[k] \in DOMAIN blocks /\ at[k] \in Worded(tok, blocks)
  <2> SUFFICES ASSUME NEW k \in 1..c
               PROVE a + b + k \in DOMAIN E /\ at[k] \in DOMAIN blocks /\ at[k] \in Worded(tok, blocks)
    OBVIOUS
  <2>1. a + b + k \in DOMAIN E
    BY <1>2
  <2>2. at[k] \in Worded(tok, blocks)
    BY <1>2, ListHolds
  <2>3. QED BY <2>1, <2>2 DEF Worded
\* A token is in a recovered block only when nothing else holds it.
<1>13. \A k \in W : (k \in 1..a /\ k \in ordinary /\ i \notin owned) \/ (i \in S /\ \E j \in 1..c : k = a + b + j)
  <2> SUFFICES ASSUME NEW k \in W
               PROVE  (k \in 1..a /\ k \in ordinary /\ i \notin owned) \/ (i \in S /\ \E j \in 1..c : k = a + b + j)
    OBVIOUS
  <2>1. k \in DOMAIN E /\ i \in ToSet(E[k].text)
    BY <1>5
  <2>2. CASE k \in 1..a
    BY <1>3, <1>6, <1>10, <2>1, <2>2
  <2>3. CASE \E j \in 1..b : k = a + j
    BY <1>2, <2>1, <2>3 DEF ToSet
  <2>4. CASE \E j \in 1..c : k = a + b + j
    <3>1. PICK j \in 1..c : k = a + b + j
      BY <2>4
    <3>2. i \in ToSet(blocks[at[j]].ids)
      BY <1>3, <2>1, <3>1
    <3>3. i \in S
      BY <1>9, <1>12, <3>2 DEF BlockInv
    <3>4. QED BY <3>1, <3>3
  <2>5. QED BY <1>3, <2>1, <2>2, <2>3, <2>4
<1>14. i \in S => i \notin owned /\ ordinary = {} /\ shown = {}
  <2> SUFFICES ASSUME i \in S PROVE i \notin owned /\ ordinary = {} /\ shown = {}
    OBVIOUS
  <2>1. i \notin owned /\ \A k \in 1..a : ~ CenterIn(box, E[k].box)
    BY <1>2, <1>8, <1>10
  <2>2. QED BY <1>6, <1>7, <1>11, <2>1
<1>15. H # {} => W = {}
  BY <1>4, <1>13, <1>14
<1>16. ASSUME H = {}, tok[i].ink = "word"
       PROVE  IF ordinary # {} THEN W = ordinary
              ELSE IF shown = {} THEN Cardinality(W) = 1
              ELSE W = {}
  <2>1. i \notin owned
    BY <1>4, <1>16
  <2>2. CASE ordinary # {}
    <3>1. i \notin S
      BY <1>14, <2>2
    <3>2. \A k \in W : k \in ordinary
      BY <1>13, <3>1
    <3>3. \A k \in ordinary : k \in W
      <4> SUFFICES ASSUME NEW k \in ordinary PROVE k \in W
        OBVIOUS
      <4>1. k \in DOMAIN E /\ k \in 1..a /\ E[k].type \in OrdinaryTypes /\ CenterIn(box, E[k].box)
        BY <1>6, <1>11
      <4>2. QED BY <1>3, <1>5, <2>1, <4>1
    <3>4. W = ordinary
      BY <3>2, <3>3
    <3>5. QED BY <2>2, <3>4
  <2>3. CASE ordinary = {} /\ shown = {}
    <3>1. \A k \in 1..a : ~ CenterIn(box, E[k].box)
      BY <1>6, <1>7, <1>10, <2>3
    <3>2. i \in S
      BY <1>2, <1>8, <1>10, <2>1, <3>1
    <3>3. PICK j \in DOMAIN blocks : i \in ToSet(blocks[j].ids)
      BY <1>9, <3>2 DEF BlockInv
    <3>4. j \in Worded(tok, blocks)
      BY <1>16, <3>3 DEF Worded
    <3>5. PICK m \in 1..c : at[m] = j
      BY <1>2, <3>4 DEF Lists
    <3> DEFINE v == a + b + m
    <3>6. v \in DOMAIN E /\ i \in ToSet(E[v].text)
      BY <1>3, <1>12, <3>3, <3>5
    <3>7. \A k \in W : k = v
      <4> SUFFICES ASSUME NEW k \in W PROVE k = v
        OBVIOUS
      <4>1. PICK l \in 1..c : k = a + b + l
        BY <1>13, <2>3
      <4>2. i \in ToSet(blocks[at[l]].ids)
        BY <1>3, <1>5, <4>1
      <4>3. at[l] = j
        BY <1>9, <1>12, <3>3, <4>2 DEF BlockInv
      <4>4. l = m
        BY SMTT(30), <1>2, <3>5, <4>3 DEF Lists
      <4>5. QED BY <4>1, <4>4
    <3>8. v \in W
      BY <1>5, <3>6
    <3> HIDE DEF v
    <3>9. W = {v}
      BY <3>7, <3>8
    <3>10. Cardinality(W) = 1
      BY <3>9, FS_Singleton
    <3>11. QED BY <2>3, <3>10
  <2>4. CASE ordinary = {} /\ shown # {}
    <3>1. i \notin S
      BY <1>14, <2>4
    <3>2. W = {}
      BY <1>13, <2>4, <3>1
    <3>3. QED BY <2>4, <3>2
  <2>5. QED BY <2>2, <2>3, <2>4
<1>17. \A text \in {x[2].text : x \in H} \cup {E[k].text : k \in W} :
          Cardinality({m \in DOMAIN text : text[m] = i}) = 1
  <2>1. \A k \in W : Cardinality({m \in DOMAIN E[k].text : E[k].text[m] = i}) = 1
    BY <1>3, <1>5
  <2>2. QED BY <1>4, <2>1
<1>18. /\ Holders(p, i) # {} => Written(p, i) = {}
       /\ Holders(p, i) = {} /\ tok[i].ink = "word" =>
            IF ordinary # {} THEN Written(p, i) = ordinary
            ELSE IF shown = {} THEN Cardinality(Written(p, i)) = 1
            ELSE Written(p, i) = {}
       /\ \A x, y \in Holders(p, i) : x # y =>
            IF x[1] = y[1] THEN CenterIn(box, x[2].box) /\ CenterIn(box, y[2].box)
            ELSE \A h \in {x, y} : CenterIn(box, h[2].box) \/ CenterIn(box, h[1].box)
       /\ \A text \in {x[2].text : x \in Holders(p, i)} \cup {p.elements[k].text : k \in Written(p, i)} :
            Cardinality({m \in DOMAIN text : text[m] = i}) = 1
  BY <1>4, <1>15, <1>16, <1>17 DEF H, W, E
<1>19. QED BY <1>18 DEF KeptOnce, ordinary, shown, box

\* A table as it was recognised.
Gridded(t, rows, cols) ==
    /\ Bare(t) /\ t = [x \in Tabular |-> t[x]]
    /\ rows \in Bands2 /\ Sorted(rows) /\ t.rows = Len(rows) /\ t.cols = Len(cols) /\ t.doubt = "none"
    /\ Structured(t.cells, rows, cols, t.box.y0)

\* The tables a page starts from have cells with boxes.
LEMMA PageTablesBare ==
    ASSUME NEW d \in Docs, NEW i \in DOMAIN d.units
    PROVE  /\ Tables0(d.units[i], PageTables(d.units[i]))
           /\ \A m \in DOMAIN PageTables(d.units[i]) :
                 \E rows, cols : Gridded(PageTables(d.units[i])[m], rows, cols)
<1> DEFINE u == d.units[i]
           at == ByNumber(PlacesOf(u))
           T == PageTables(u)
           N == [rows : Bands2, cols : Bands2,
                 spans : SUBSET [x0 : Int, y0 : Int, x1 : Int, y1 : Int, conf : Int]]
<1>1. /\ Answered(u) /\ u.grids \in Seq(N) /\ DOMAIN Candidates(u) \subseteq DOMAIN u.grids
      /\ \A k \in DOMAIN u.grids :
              LET g == u.grids[k]
              IN  /\ IsFiniteSet(g.spans) /\ (g.rows = <<>> <=> g.cols = <<>>)
                  /\ Sorted(g.rows) /\ Sorted(g.cols)
  BY AnswersAre, GridsAssumption, CandidatesAssumption
<1> HIDE DEF u
<1>2. /\ OfLength(T) /\ Lists(at, PlacesOf(u)) /\ DOMAIN T = DOMAIN at
      /\ \A m \in DOMAIN T :
           LET k == at[m]
           IN  T[m] = Table(Len(u.grids[k].rows), Len(u.grids[k].cols),
                            StructureCells(u.grids[k].rows, u.grids[k].cols, u.grids[k].spans, Candidates(u)[k]),
                            Candidates(u)[k])
  BY <1>1, PageTablesAre
<1>3. Candidates(u) \in Seq(Bounding)
  BY <1>1, CandidatesAre
<1> HIDE DEF T, at
<1>4. ASSUME NEW m \in DOMAIN T PROVE /\ Bare(T[m]) /\ T[m] = [x \in Tabular |-> T[m][x]]
                                        /\ \E rows, cols : Gridded(T[m], rows, cols)
  <2> DEFINE k == at[m]
             g == u.grids[k]
             box == Candidates(u)[k]
             cells == StructureCells(g.rows, g.cols, g.spans, box)
             t == T[m]
  <2>1. k \in PlacesOf(u)
    BY <1>2, ListHolds
  <2>2. k \in DOMAIN Candidates(u) /\ k \in DOMAIN u.grids
    BY <1>1, <2>1 DEF PlacesOf
  <2> HIDE DEF k
  <2>3. box \in Bounding
    BY <1>3, <2>2, SeqHas
  <2>4. g \in N
    BY <1>1, <2>2, SeqHas
  <2>5. /\ g.rows \in Bands2 /\ g.cols \in Bands2 /\ IsFiniteSet(g.spans)
        /\ Sorted(g.rows) /\ Sorted(g.cols) /\ \A s \in g.spans : s.conf \in Int
    BY <1>1, <2>2, <2>4
  <2> HIDE DEF g, box
  <2>6. Structured(cells, g.rows, g.cols, box.y0)
    BY <2>3, <2>5, StructureIs
  <2>7. t = Table(Len(g.rows), Len(g.cols), cells, box)
    BY <1>2 DEF g, box, k
  <2>8. cells \in Seq(Boxed)
    BY <2>6 DEF Structured
  <2> HIDE DEF t, cells
  <2>9. t = [rows |-> Len(g.rows), cols |-> Len(g.cols), cells |-> cells, box |-> box, doubt |-> "none"]
    BY <2>7 DEF Table
  <2>10. Bare(t) /\ t = [x \in Tabular |-> t[x]]
    BY <2>3, <2>8, <2>9 DEF Bare, Tabular
  <2>11. /\ t.rows = Len(g.rows) /\ t.cols = Len(g.cols) /\ t.doubt = "none"
         /\ t.cells = cells /\ t.box = box
    BY <2>9
  <2>12. Gridded(t, g.rows, g.cols)
    BY <2>5, <2>6, <2>10, <2>11 DEF Gridded
  <2>13. QED BY <2>10, <2>12 DEF t
<1>5. u.tokens \in Tokens
  BY <1>1 DEF Answered
<1>6. Tables0(u, T)
  BY <1>2, <1>4, <1>5 DEF Tables0
<1>7. QED BY <1>4, <1>6 DEF u, T

LEMMA DrawnKeepsOnce ==
    ASSUME NEW d \in Docs, NEW k \in DOMAIN d.units, NEW p, From(p, d.units[k], {}), p.route \in Visually,
           NEW i \in DOMAIN d.units[k].tokens, d.units[k].tokens[i].ink # "none"
    PROVE  KeptOnce(p, i, d.units[k].tokens)
<1> DEFINE u == d.units[k]
<1>1. Answered(u) /\ Tables0(u, PageTables(u))
  BY AnswersAre, PageTablesBare
<1> HIDE DEF u
<1>2. PICK q \in Made(u) : Keeps(p, q, {})
  BY DEF From, u
<1>3. p.route = q.route /\ p.elements = q.elements /\ p.tables = q.tables
  BY <1>2 DEF Keeps
<1>4. OfficePage(u).route \notin Visually /\ NativePage(u).route \notin Visually /\ E2ePage(u).route \notin Visually
  <2>1. OfficePage(u).route = "native_office"
    BY DEF OfficePage, Page
  <2>2. E2ePage(u).route = "e2e"
    BY DEF E2ePage, Page
  <2>3. QED BY <2>1, <2>2, NativeIs DEF Visually
<1>5. PICK how \in Visually, tables \in {<<>>, PageTables(u)} : q = VisualPage(u, how, tables)
  BY <1>2, <1>3, <1>4 DEF Made
<1>6. Tables0(u, tables)
  <2>1. Tables0(u, <<>>)
    <3>1. DOMAIN <<>> = 1..0 /\ 0 \in Nat /\ DOMAIN <<>> = {}
      OBVIOUS
    <3>2. QED BY <1>1, <3>1 DEF OfLength, Tables0
  <2>2. QED BY <1>1, <1>5, <2>1
<1>7. q.tables = Filled(u, tables)
  BY <1>1, <1>5, <1>6, VisualFormIs DEF Tables0
<1>8. p.tables = Filled(u, tables) /\ p.elements = VisualPage(u, how, tables).elements
  BY <1>3, <1>5, <1>7
<1>9. i \in DOMAIN u.tokens /\ u.tokens[i].ink # "none"
  BY DEF u
<1>10. KeptOnce(p, i, u.tokens)
  BY <1>1, <1>6, <1>8, <1>9, VisualKeepsOnce
<1>11. QED BY <1>10 DEF u

LEMMA PagesKeepOnce == BudgetInv /\ MarkInv /\ PageInv => EvidenceKeptOnce
<1> SUFFICES ASSUME BudgetInv, MarkInv, PageInv, pc \notin {"fused", "reordered"},
                    NEW k \in DOMAIN pages, pages[k].route \in Visually,
                    NEW i \in DOMAIN doc.units[k].tokens, doc.units[k].tokens[i].ink # "none"
             PROVE  KeptOnce(pages[k], i, doc.units[k].tokens)
  BY DEF EvidenceKeptOnce
<1>1. doc \in Docs
  BY DEF BudgetInv, Bounds
<1>2. From(pages[k], doc.units[k], {})
  BY DEF PageInv, Drawn, Renewed
<1>3. k \in DOMAIN doc.units
  <2>1. Len(pages) <= Len(doc.units) /\ DOMAIN pages = 1..Len(pages) /\ Len(pages) \in Nat
    BY DEF PageInv, Counting, MarkInv, Built
  <2>2. Len(doc.units) \in Nat /\ DOMAIN doc.units = 1..Len(doc.units)
    BY <1>1, Documents
  <2>3. QED BY <2>1, <2>2
<1>4. QED BY <1>1, <1>2, <1>3, DrawnKeepsOnce

(***************************************************************************)
(* A token of a scanned page is kept once: in a cell, or in the texts of   *)
(* the ordinary regions over it, or in one recovered block, and whole in   *)
(* each; cells share one only where they, or their tables, overlap.  It is *)
(* lost only as a word of a table region with no cell for it, or as a mark *)
(* that nothing holds.  (_fill_table_cell_text, merge_regions_into_page.)  *)
(***************************************************************************)
THEOREM ScannedTextIsKeptOnce == Spec => []EvidenceKeptOnce
BY PagesHold, PagesKeepOnce, PTL

-----------------------------------------------------------------------------
(***************************************************************************)
(* How the cells of a table stand.                                         *)
(***************************************************************************)
\* Cells of one row begin together and end below, and so do later rows.
Level(cells) ==
    \A k, l \in DOMAIN cells :
        /\ cells[k].box.y0 < cells[k].box.y1
        /\ cells[k].row = cells[l].row => cells[k].box.y0 = cells[l].box.y0
Falling(cells) ==
    \A k, l \in DOMAIN cells :
        cells[k].box.y1 <= cells[l].box.y0 => cells[k].row < cells[l].row
Simple(cells) == \A k \in DOMAIN cells : cells[k].rs = 1

\* A token that shares a row with another has a height.
LEMMA SameRowIsTall ==
    ASSUME NEW a \in Bounding, NEW b \in Bounding, SameRow(a, b)
    PROVE  b.y0 < b.y1
<1> DEFINE lo == Max({a.y0, b.y0})
           hi == Min({a.y1, b.y1})
<1>1. a.y0 \in Int /\ a.y1 \in Int /\ b.y0 \in Int /\ b.y1 \in Int
  BY DEF Bounding
<1>2. /\ Max({a.y0, b.y0}) = IF a.y0 <= b.y0 THEN b.y0 ELSE a.y0
      /\ Min({a.y1, b.y1}) = IF a.y1 <= b.y1 THEN a.y1 ELSE b.y1
  BY <1>1, OfTwo
<1>3. hi - lo > 0
  BY DEF SameRow, AlongY, Along
<1> HIDE DEF lo, hi
<1>4. b.y0 <= lo /\ hi <= b.y1 /\ lo \in Int /\ hi \in Int
  BY <1>1, <1>2 DEF lo, hi
<1>5. QED BY <1>1, <1>3, <1>4

\* A row that is inferred has a height, since it has two columns.
LEMMA GroupIsTall ==
    ASSUME NEW tok \in Tokens, NEW t, Bare(t), NEW C \in Groups(tok, t)
    PROVE  Hull({tok[i].box : i \in C}).y0 < Hull({tok[i].box : i \in C}).y1
<1> DEFINE R == Spare(tok, t)
           B == {tok[i].box : i \in C}
           f == [i \in C |-> tok[i].box]
<1>1. /\ R \in SUBSET DOMAIN tok /\ IsFiniteSet(R) /\ C \in SUBSET R /\ C # {} /\ IsFiniteSet(C)
      /\ IsFiniteSet(RowColumns(tok, t, C))
  BY GroupsAre
<1>2. PICK i \in R : C = Cluster(tok, R, i) /\ Cardinality(RowColumns(tok, t, C)) >= 2
  BY DEF Groups
<1>3. i \in C /\ \A D : Rowed(tok, R, D) /\ i \in D => C \subseteq D
  BY <1>1, <1>2, ClusterIs
<1>4. \A j \in R : tok[j].box \in Bounding
  BY <1>1, TokensAre
<1>5. tok[i].box.y0 < tok[i].box.y1
  <2> SUFFICES ASSUME ~ (tok[i].box.y0 < tok[i].box.y1) PROVE FALSE
    OBVIOUS
  <2>1. \A j \in R : ~ SameRow(tok[j].box, tok[i].box)
    BY <1>4, SameRowIsTall
  <2>2. Rowed(tok, R, {i})
    BY <2>1 DEF Rowed
  <2>3. C = {i}
    BY <1>3, <2>2
  <2>4. RowColumns(tok, t, C) = BestColumn(tok, t, i)
    BY <2>3 DEF RowColumns
  <2>5. \A c, d \in BestColumn(tok, t, i) : c = d
    BY <1>1, BestIsOne
  <2>6. Cardinality(BestColumn(tok, t, i)) <= 1
    BY <2>5, AtMostOne
  <2> DEFINE z == Cardinality(BestColumn(tok, t, i))
  <2>7. z >= 2 /\ z <= 1 /\ z \in Nat
    BY <1>1, <1>2, <2>4, <2>6, FS_CardinalityType
  <2> HIDE DEF z
  <2>8. QED BY <2>7
<1>6. B \in SUBSET Bounding /\ B # {} /\ IsFiniteSet(B) /\ tok[i].box \in B
  <2>1. B = {f[j] : j \in C}
    OBVIOUS
  <2> HIDE DEF f
  <2>2. IsFiniteSet({f[j] : j \in C})
    BY <1>1, ImageIsFinite
  <2>3. QED BY <1>1, <1>3, <1>4, <2>1, <2>2
<1> HIDE DEF B
<1>7. Hull(B) \in Bounding /\ Hull(B).y0 <= tok[i].box.y0 /\ tok[i].box.y1 <= Hull(B).y1
  BY <1>6, HullIs
<1> DEFINE h == Hull(B)
           b == tok[i].box
<1>8. h \in Bounding /\ b \in Bounding /\ h.y0 <= b.y0 /\ b.y1 <= h.y1 /\ b.y0 < b.y1
  BY <1>5, <1>6, <1>7
<1> HIDE DEF h, b
<1>9. h.y0 < h.y1
  BY <1>8 DEF Bounding
<1>10. QED BY <1>9 DEF h, B

LEMMA GriddedIsLevel ==
    ASSUME NEW t, NEW rows, NEW cols, Gridded(t, rows, cols)
    PROVE  Level(t.cells) /\ Falling(t.cells)
<1> DEFINE cells == t.cells
           top == t.box.y0
<1>1. ASSUME NEW k \in DOMAIN cells
      PROVE  /\ cells[k].row \in Nat /\ cells[k].row + 1 \in DOMAIN rows /\ rows[cells[k].row + 1][1] \in Int
             /\ cells[k].box.y0 = top + rows[cells[k].row + 1][1] /\ cells[k].box.y0 < cells[k].box.y1
             /\ cells[k].box.y0 \in Int /\ cells[k].box.y1 \in Int
  <2>1. cells \in Seq(Boxed)
    BY DEF Gridded, Bare
  <2>2. cells[k] \in Boxed
    BY <2>1, SeqHas
  <2>3. cells[k].row \in Nat /\ cells[k].box.y0 \in Int /\ cells[k].box.y1 \in Int
    BY <2>2 DEF Boxed, Bounding
  <2>4. /\ cells[k].row + 1 \in DOMAIN rows
        /\ cells[k].box.y0 = top + rows[cells[k].row + 1][1] /\ cells[k].box.y0 < cells[k].box.y1
    BY DEF Gridded, Structured
  <2> DEFINE m == cells[k].row + 1
  <2>5. m \in DOMAIN rows /\ rows \in Seq(Int \X Int)
    BY <2>4 DEF Gridded, Bands2
  <2> HIDE DEF m
  <2>6. rows[m] \in Int \X Int
    BY <2>5, SeqHas
  <2>7. rows[m][1] \in Int
    BY <2>6
  <2>8. QED BY <2>3, <2>4, <2>7 DEF m
<1>2. top \in Int
  BY DEF Gridded, Bare, Bounding
<1>3. \A i, j \in DOMAIN rows : i < j => rows[i][1] <= rows[j][1]
  BY DEF Gridded, Sorted
<1> HIDE DEF cells, top
<1>4. Level(cells)
  BY <1>1 DEF Level
<1>5. ASSUME NEW k \in DOMAIN cells, NEW l \in DOMAIN cells, cells[k].box.y1 <= cells[l].box.y0
      PROVE  cells[k].row < cells[l].row
  <2> DEFINE i == cells[k].row + 1
             j == cells[l].row + 1
             a0 == cells[k].box.y0
             a1 == cells[k].box.y1
             b0 == cells[l].box.y0
  <2>1. /\ i \in DOMAIN rows /\ j \in DOMAIN rows /\ rows[i][1] \in Int /\ rows[j][1] \in Int
        /\ a0 = top + rows[i][1] /\ b0 = top + rows[j][1] /\ a0 < a1 /\ a1 <= b0
        /\ a0 \in Int /\ a1 \in Int /\ b0 \in Int /\ i \in Int /\ j \in Int
    BY <1>1, <1>5
  <2>2. cells[k].row < cells[l].row <=> i < j
    BY <1>1
  <2> HIDE DEF i, j, a0, a1, b0
  <2>3. ~ (j < i) /\ i # j
    BY <1>2, <1>3, <2>1
  <2>4. QED BY <2>1, <2>2, <2>3
<1>6. Falling(cells)
  BY <1>5 DEF Falling
<1>7. QED BY <1>4, <1>6 DEF cells

LEMMA StockedIsLevel ==
    ASSUME NEW tok \in Tokens, NEW t, Bare(t), Level(t.cells), NEW all, Stocked(all, tok, t)
    PROVE  Level(all) /\ all \in Seq(Boxed)
           /\ \A k, l \in DOMAIN all : k <= Len(t.cells) /\ l > Len(t.cells) => all[k].row < all[l].row
<1> DEFINE a == Len(t.cells)
           next == NextRow(t)
           old(k) == k \in DOMAIN t.cells /\ all[k].row = t.cells[k].row /\ all[k].box = t.cells[k].box
                     /\ all[k].row < next
           new(k) == \E m \in Nat : /\ m > 0 /\ m \in DOMAIN NewRows(tok, t)
                                    /\ all[k].row = next + m - 1
                                    /\ all[k].box.y0 = Hull({tok[i].box : i \in NewRows(tok, t)[m]}).y0
                                    /\ all[k].box.y1 = Hull({tok[i].box : i \in NewRows(tok, t)[m]}).y1
<1>1. next \in Nat /\ \A k \in DOMAIN t.cells : t.cells[k].row < next
  BY NextRowIs
<1>2. a \in Nat /\ DOMAIN t.cells = 1..a /\ all \in Seq(Boxed)
  BY SeqHas DEF Bare, Stocked
<1>3. \A k \in DOMAIN all : k \in Nat /\ k > 0 /\ all[k].row \in Nat
  <2> SUFFICES ASSUME NEW k \in DOMAIN all PROVE k \in Nat /\ k > 0 /\ all[k].row \in Nat
    OBVIOUS
  <2>1. all[k] \in Boxed /\ Len(all) \in Nat /\ DOMAIN all = 1..Len(all)
    BY <1>2, SeqHas
  <2>2. QED BY <2>1 DEF Boxed
<1>4. ASSUME NEW k \in DOMAIN all, k <= a PROVE old(k)
  <2>1. k \in DOMAIN t.cells
    BY <1>2, <1>3, <1>4
  <2>2. GridCell(all[k], tok, t, k)
    BY <2>1 DEF Stocked
  <2>3. QED BY <1>1, <2>1, <2>2 DEF GridCell
<1>5. ASSUME NEW k \in DOMAIN all, k > a PROVE new(k)
  <2>1. PICK m : InferredFrom(all[k], tok, t, m)
    BY <1>5 DEF Stocked
  <2>2. /\ m \in DOMAIN NewRows(tok, t)
        /\ all[k].row = next + m - 1
        /\ all[k].box.y0 = Hull({tok[i].box : i \in NewRows(tok, t)[m]}).y0
        /\ all[k].box.y1 = Hull({tok[i].box : i \in NewRows(tok, t)[m]}).y1
    BY <2>1 DEF InferredFrom, InferredCell
  <2>3. Len(NewRows(tok, t)) \in Nat /\ DOMAIN NewRows(tok, t) = 1..Len(NewRows(tok, t))
    BY GroupsAre, ListHolds
  <2>4. m \in Nat /\ m > 0
    BY <2>2, <2>3
  <2>5. QED BY <2>2, <2>4
<1>6. \A k \in DOMAIN all : k <= a \/ k > a
  BY <1>2, <1>3
<1>7. \A m \in DOMAIN NewRows(tok, t) :
         Hull({tok[i].box : i \in NewRows(tok, t)[m]}).y0 < Hull({tok[i].box : i \in NewRows(tok, t)[m]}).y1
  <2> SUFFICES ASSUME NEW m \in DOMAIN NewRows(tok, t)
               PROVE  Hull({tok[i].box : i \in NewRows(tok, t)[m]}).y0
                        < Hull({tok[i].box : i \in NewRows(tok, t)[m]}).y1
    OBVIOUS
  <2> DEFINE C == NewRows(tok, t)[m]
  <2>1. C \in Groups(tok, t)
    BY GroupsAre, ListHolds
  <2> HIDE DEF C
  <2>2. Hull({tok[i].box : i \in C}).y0 < Hull({tok[i].box : i \in C}).y1
    BY <2>1, GroupIsTall
  <2>3. QED BY <2>2 DEF C
<1> HIDE DEF next, a
<1>8. ASSUME NEW k \in DOMAIN all PROVE all[k].box.y0 < all[k].box.y1
  <2>1. CASE k <= a
    BY <1>4, <2>1 DEF Level
  <2>2. CASE k > a
    BY <1>5, <1>7, <2>2
  <2>3. QED BY <1>6, <2>1, <2>2
<1>9. ASSUME NEW k \in DOMAIN all, NEW l \in DOMAIN all, k <= a, l > a PROVE all[k].row < all[l].row
  <2>1. all[k].row < next
    BY <1>4, <1>9
  <2>2. PICK m \in Nat : m > 0 /\ all[l].row = next + m - 1
    BY <1>5, <1>9
  <2>3. QED BY <1>1, <1>3, <2>1, <2>2
<1>10. ASSUME NEW k \in DOMAIN all, NEW l \in DOMAIN all, all[k].row = all[l].row
       PROVE  all[k].box.y0 = all[l].box.y0
  <2>1. CASE k <= a /\ l <= a
    BY <1>4, <1>10, <2>1 DEF Level
  <2>2. CASE k > a /\ l > a
    <3>1. PICK m \in Nat : /\ all[k].row = next + m - 1
                           /\ all[k].box.y0 = Hull({tok[i].box : i \in NewRows(tok, t)[m]}).y0
      BY <1>5, <2>2
    <3>2. PICK v \in Nat : /\ all[l].row = next + v - 1
                           /\ all[l].box.y0 = Hull({tok[i].box : i \in NewRows(tok, t)[v]}).y0
      BY <1>5, <2>2
    <3>3. m = v
      <4>1. next + m - 1 = next + v - 1
        BY <1>10, <3>1, <3>2
      <4>2. QED BY <1>1, <4>1
    <3>4. QED BY <3>1, <3>2, <3>3
  <2>3. CASE k <= a /\ l > a
    BY <1>3, <1>9, <1>10, <2>3
  <2>4. CASE k > a /\ l <= a
    BY <1>3, <1>9, <1>10, <2>4
  <2>5. QED BY <1>6, <2>1, <2>2, <2>3, <2>4
<1>11. Level(all)
  BY <1>8, <1>10 DEF Level
<1>12. QED BY <1>2, <1>9, <1>11 DEF a

\* Numbered again from their tops, the rows fall.
LEMMA RerankedFalls ==
    ASSUME NEW f, NEW t, Reranked(f, t), t.cells \in Seq(Boxed), Level(t.cells)
    PROVE  Falling(f.cells)
<1> DEFINE all == t.cells
<1>1. \A k \in DOMAIN all : RowTop(all, all[k].row) = all[k].box.y0
  <2> SUFFICES ASSUME NEW k \in DOMAIN all PROVE RowTop(all, all[k].row) = all[k].box.y0
    OBVIOUS
  <2> DEFINE r == all[k].row
  <2>1. r \in RowNumbers(all) /\ \E l \in DOMAIN all : all[l].row = r /\ RowTop(all, r) = all[l].box.y0
    BY RowTops
  <2>2. QED BY <2>1 DEF Level
<1>2. /\ DOMAIN f.cells = DOMAIN all /\ \A k \in DOMAIN all : f.cells[k].box = all[k].box
      /\ \A k, l \in DOMAIN all : RowTop(all, all[k].row) < RowTop(all, all[l].row)
                                     => f.cells[k].row < f.cells[l].row
  BY DEF Reranked, Retains
<1>3. \A k \in DOMAIN all : all[k].box.y0 \in Int /\ all[k].box.y1 \in Int /\ all[k].box.y0 < all[k].box.y1
  <2> SUFFICES ASSUME NEW k \in DOMAIN all
               PROVE  all[k].box.y0 \in Int /\ all[k].box.y1 \in Int /\ all[k].box.y0 < all[k].box.y1
    OBVIOUS
  <2>1. all[k] \in Boxed
    BY SeqHas
  <2>2. QED BY <2>1 DEF Boxed, Bounding, Level
<1> HIDE DEF all
<1>4. ASSUME NEW k \in DOMAIN all, NEW l \in DOMAIN all, all[k].box.y1 <= all[l].box.y0
      PROVE  f.cells[k].row < f.cells[l].row
  <2>1. all[k].box.y0 < all[l].box.y0
    BY <1>3, <1>4
  <2>2. QED BY <1>1, <1>2, <2>1
<1>5. QED BY <1>2, <1>4 DEF Falling

LEMMA SlotsFollow ==
    \A c, d : c.row = d.row /\ c.col = d.col /\ c.rs = d.rs /\ c.cs = d.cs => Slots(c) = Slots(d)
BY DEF Slots

\* Cells of one row each meet only within a row, and there where they do now.
LEMMA RowsApart ==
    ASSUME NEW c, NEW d, c.rs = 1, d.rs = 1, c.row \in Int, d.row \in Int, c.row # d.row
    PROVE  Slots(c) \cap Slots(d) = {}
<1>1. (c.row .. c.row + 1 - 1) = {c.row} /\ (d.row .. d.row + 1 - 1) = {d.row}
  OBVIOUS
<1>2. /\ Slots(c) = {c.row} \X (c.col .. c.col + c.cs - 1)
      /\ Slots(d) = {d.row} \X (d.col .. d.col + d.cs - 1)
  BY <1>1 DEF Slots
<1>3. QED BY <1>2

LEMMA SlotsShift ==
    ASSUME NEW c, NEW d, Slots(c) \cap Slots(d) = {}, c.rs = 1, d.rs = 1, c.row \in Int, c.row = d.row,
           NEW e, NEW g, e.rs = 1, g.rs = 1, e.row \in Int, e.row = g.row,
           e.col = c.col, e.cs = c.cs, g.col = d.col, g.cs = d.cs
    PROVE  Slots(e) \cap Slots(g) = {}
<1> DEFINE X == c.col .. c.col + c.cs - 1
           Y == d.col .. d.col + d.cs - 1
<1>1. (c.row .. c.row + 1 - 1) = {c.row} /\ (e.row .. e.row + 1 - 1) = {e.row}
  OBVIOUS
<1>2. /\ Slots(c) = {c.row} \X X /\ Slots(d) = {c.row} \X Y
      /\ Slots(e) = {e.row} \X X /\ Slots(g) = {e.row} \X Y
  BY <1>1 DEF Slots
<1> HIDE DEF X, Y
<1>3. X \cap Y = {}
  <2> SUFFICES ASSUME NEW x \in X, x \in Y PROVE FALSE
    OBVIOUS
  <2>1. <<c.row, x>> \in Slots(c) /\ <<c.row, x>> \in Slots(d)
    BY <1>2
  <2>2. QED BY <2>1
<1>4. QED BY <1>2, <1>3

Firm(f) ==
    /\ f.doubt = "none" \/ Simple(f.cells) => Fits(f) /\ Disjoint(f.cells)
    /\ Falling(f.cells)

\* With no row inferred, a filled table stands as it was recognised.
LEMMA FilledInPlace ==
    ASSUME NEW t, NEW rows, NEW cols, Gridded(t, rows, cols), NEW f,
           f.rows = t.rows, f.cols = t.cols, DOMAIN f.cells = DOMAIN t.cells,
           \A k \in DOMAIN t.cells :
              /\ f.cells[k].row = t.cells[k].row /\ f.cells[k].col = t.cells[k].col
              /\ f.cells[k].rs = t.cells[k].rs /\ f.cells[k].cs = t.cells[k].cs
              /\ f.cells[k].box = t.cells[k].box
    PROVE  Firm(f)
<1>1. \A k, l \in DOMAIN t.cells : k < l => Slots(t.cells[k]) \cap Slots(t.cells[l]) = {}
  BY DEF Gridded, Structured, Disjoint
<1>2. \A k \in DOMAIN t.cells : Slots(f.cells[k]) = Slots(t.cells[k])
  BY SlotsFollow
<1>3. Disjoint(f.cells)
  BY <1>1, <1>2 DEF Disjoint
<1>4. \A k \in DOMAIN t.cells : /\ t.cells[k].row + t.cells[k].rs <= t.rows
                                /\ t.cells[k].col + t.cells[k].cs <= t.cols
  BY DEF Gridded, Structured
<1>5. Fits(f)
  BY <1>4 DEF Fits, ToSet
<1>6. Falling(t.cells)
  BY GriddedIsLevel
<1>7. Falling(f.cells)
  BY <1>6 DEF Falling
<1>8. QED BY <1>3, <1>5, <1>7 DEF Firm

\* The columns a cell of a filled table covers are columns of the table.
LEMMA StockedInColumns ==
    ASSUME NEW tok \in Tokens, NEW t, NEW rows, NEW cols, Gridded(t, rows, cols),
           NEW all, Stocked(all, tok, t), NEW k \in DOMAIN all
    PROVE  all[k].col + all[k].cs <= t.cols
<1> DEFINE a == Len(t.cells)
<1>1. Bare(t) /\ t.cols = Len(cols)
      /\ \A l \in DOMAIN t.cells : t.cells[l].col + t.cells[l].cs <= Len(cols)
  BY DEF Gridded, Structured
<1>2. a \in Nat /\ DOMAIN t.cells = 1..a /\ all \in Seq(Boxed)
  BY <1>1, SeqHas DEF Bare, Stocked
<1>3. Len(all) \in Nat /\ DOMAIN all = 1..Len(all) /\ k \in Nat /\ k > 0
  BY <1>2, SeqHas
<1> HIDE DEF a
<1>4. CASE k <= a
  <2>1. k \in DOMAIN t.cells
    BY <1>2, <1>3, <1>4
  <2>2. GridCell(all[k], tok, t, k)
    BY <2>1 DEF Stocked
  <2>3. all[k].col = t.cells[k].col /\ all[k].cs = t.cells[k].cs
    BY <2>2 DEF GridCell
  <2>4. QED BY <1>1, <2>1, <2>3
<1>5. CASE k > a
  <2>1. PICK m : InferredFrom(all[k], tok, t, m)
    BY <1>5 DEF Stocked, a
  <2>2. /\ m \in DOMAIN NewRows(tok, t) /\ all[k].col \in RowColumns(tok, t, NewRows(tok, t)[m]) /\ all[k].cs = 1
    BY <2>1 DEF InferredFrom, InferredCell
  <2>3. NewRows(tok, t)[m] \in Groups(tok, t)
    BY <1>1, <2>2, GroupsAre, ListHolds
  <2>4. all[k].col \in Columns(t)
    BY <1>1, <2>2, <2>3, GroupsAre
  <2>5. PICK l \in DOMAIN t.cells : t.cells[l].col = all[k].col
    BY <2>4 DEF Columns, ToSet
  <2> DEFINE x == t.cells[l].col
             y == t.cells[l].cs
             z == Len(cols)
  <2>6. t.cells[l] \in Boxed
    BY <1>1, <2>5, SeqHas DEF Bare
  <2>7. x \in Nat /\ y \in Nat1 /\ x + y <= z /\ t.cols = z
    BY <1>1, <2>6 DEF Boxed
  <2>b. z \in Int
    <3>1. rows \in Bands2 /\ z = t.cols
      BY DEF Gridded
    <3>2. t.box \in Bounding
      BY <1>1 DEF Bare
    <3>3. QED BY <2>7
  <2> HIDE DEF x, y, z
  <2>8. x + 1 <= z
    BY <2>7, <2>b DEF Nat1
  <2>9. QED BY <2>2, <2>5, <2>7, <2>8 DEF x
<1>6. k <= a \/ k > a
  BY <1>2, <1>3
<1>7. QED BY <1>4, <1>5, <1>6

LEMMA OneColumnApart ==
    ASSUME NEW c, NEW d, c.cs = 1, d.cs = 1, c.col \in Int, d.col \in Int, c.col # d.col
    PROVE  Slots(c) \cap Slots(d) = {}
<1>1. (c.col .. c.col + 1 - 1) = {c.col} /\ (d.col .. d.col + 1 - 1) = {d.col}
  OBVIOUS
<1>2. /\ Slots(c) = (c.row .. c.row + c.rs - 1) \X {c.col}
      /\ Slots(d) = (d.row .. d.row + d.rs - 1) \X {d.col}
  BY <1>1 DEF Slots
<1>3. QED BY <1>2

\* Two cells of a filled table that share a row do not share a column.
LEMMA StockedApart ==
    ASSUME NEW tok \in Tokens, NEW t, NEW rows, NEW cols, Gridded(t, rows, cols),
           NEW all, Stocked(all, tok, t), NEW f, Reranked(f, [t EXCEPT !.cells = all, !.doubt = "medium"]),
           Simple(f.cells), NEW k \in DOMAIN all, NEW l \in DOMAIN all, k # l
    PROVE  Slots(f.cells[k]) \cap Slots(f.cells[l]) = {}
<1> DEFINE a == Len(t.cells)
           D == DOMAIN t.cells
           c == f.cells[k]
           d == f.cells[l]
           s == [t EXCEPT !.cells = all, !.doubt = "medium"]
<1>1. s.cells = all /\ Bare(t)
  BY DEF Gridded, Tabular
<1>2. /\ DOMAIN f.cells = DOMAIN all /\ f.rows \in Nat
      /\ c.col = all[k].col /\ c.rs = all[k].rs /\ c.cs = all[k].cs
      /\ d.col = all[l].col /\ d.rs = all[l].rs /\ d.cs = all[l].cs
      /\ c.row \in 0..(f.rows - 1) /\ d.row \in 0..(f.rows - 1)
      /\ c.row = d.row <=> all[k].row = all[l].row
  BY <1>1 DEF Reranked, Retains
<1>3. c.rs = 1 /\ d.rs = 1 /\ c.row \in Int /\ d.row \in Int
  BY <1>2 DEF Simple
<1>4. a \in Nat /\ DOMAIN t.cells = 1..a /\ all \in Seq(Boxed)
  BY <1>1, SeqHas DEF Bare, Stocked
<1>5. all[k] \in Boxed /\ all[l] \in Boxed /\ Len(all) \in Nat /\ DOMAIN all = 1..Len(all)
      /\ k \in Nat /\ k > 0 /\ l \in Nat /\ l > 0
  BY <1>4, SeqHas
<1>6. Level(t.cells)
  BY GriddedIsLevel
<1>7. /\ k <= a /\ l > a => all[k].row < all[l].row
      /\ l <= a /\ k > a => all[l].row < all[k].row
  BY <1>1, <1>6, StockedIsLevel
<1>8. all[k].row \in Int /\ all[l].row \in Int /\ all[k].col \in Int /\ all[l].col \in Int
  BY <1>5 DEF Boxed
<1>a. (k \in D => k <= a) /\ (k \notin D => k > a) /\ (l \in D => l <= a) /\ (l \notin D => l > a)
  <2>1. a \in Nat /\ D = 1..a /\ k \in Nat /\ l \in Nat /\ k > 0 /\ l > 0
    BY <1>4, <1>5
  <2> HIDE DEF a, D
  <2>2. QED BY <2>1
<1>9. CASE c.row # d.row
  BY <1>3, <1>9, RowsApart
<1>10. CASE c.row = d.row /\ k \in D /\ l \in D
  <2>1. k \in DOMAIN t.cells /\ l \in DOMAIN t.cells
    BY <1>10
  <2> DEFINE e == t.cells[k]
             g == t.cells[l]
  <2>2. GridCell(all[k], tok, t, k) /\ GridCell(all[l], tok, t, l)
    BY <2>1 DEF Stocked
  <2>3. /\ all[k].row = e.row /\ all[k].col = e.col /\ all[k].rs = e.rs /\ all[k].cs = e.cs
        /\ all[l].row = g.row /\ all[l].col = g.col /\ all[l].rs = g.rs /\ all[l].cs = g.cs
    BY <2>2 DEF GridCell
  <2>4. Disjoint(t.cells)
    BY DEF Gridded, Structured
  <2>5. \A i, j \in DOMAIN t.cells : i < j => Slots(t.cells[i]) \cap Slots(t.cells[j]) = {}
    BY <2>4 DEF Disjoint
  <2>6. k < l \/ l < k
    BY <1>5
  <2>7. Slots(e) \cap Slots(g) = {}
    BY <2>1, <2>5, <2>6
  <2>8. e.rs = 1 /\ g.rs = 1 /\ e.row = g.row /\ e.row \in Int
    BY <1>2, <1>3, <1>8, <1>10, <2>3
  <2>9. c.col = e.col /\ c.cs = e.cs /\ d.col = g.col /\ d.cs = g.cs
    BY <1>2, <2>3
  <2>a. c.rs = 1 /\ d.rs = 1 /\ c.row \in Int /\ c.row = d.row
    BY <1>3, <1>10
  <2> HIDE DEF c, d, e, g
  <2>10. Slots(c) \cap Slots(d) = {}
    BY <2>7, <2>8, <2>9, <2>a, SlotsShift
  <2>11. QED BY <2>10 DEF c, d
<1>11. CASE c.row = d.row /\ k \notin D /\ l \notin D
  <2>1. PICK m : InferredFrom(all[k], tok, t, m)
    BY <1>11, <1>a DEF Stocked
  <2>2. PICK v : InferredFrom(all[l], tok, t, v)
    BY <1>11, <1>a DEF Stocked
  <2>3. all[k].cs = 1 /\ all[l].cs = 1
    BY <2>1, <2>2 DEF InferredFrom, InferredCell
  <2>4. all[k].col # all[l].col
    BY <1>2, <1>11, <1>a DEF Stocked
  <2>5. c.cs = 1 /\ d.cs = 1 /\ c.col \in Int /\ d.col \in Int /\ c.col # d.col
    BY <1>2, <1>8, <2>3, <2>4
  <2> HIDE DEF c, d
  <2>6. Slots(c) \cap Slots(d) = {}
    BY <2>5, OneColumnApart
  <2>7. QED BY <2>6 DEF c, d
<1>12. ~ (c.row = d.row /\ k \in D /\ l \notin D) /\ ~ (c.row = d.row /\ l \in D /\ k \notin D)
  BY <1>2, <1>7, <1>8, <1>a
<1>13. QED
  <2> HIDE DEF c, d, D
  <2>1. c.row = d.row => (k \in D /\ l \in D) \/ (k \notin D /\ l \notin D)
    BY <1>12
  <2>2. QED BY <1>9, <1>10, <1>11, <2>1

\* A table with inferred rows stays sound as long as none of its cells has
\* more than one row.
LEMMA FilledWithRows ==
    ASSUME NEW tok \in Tokens, NEW t, NEW rows, NEW cols, Gridded(t, rows, cols),
           NEW all, Stocked(all, tok, t), NEW f, Reranked(f, [t EXCEPT !.cells = all, !.doubt = "medium"])
    PROVE  Firm(f)
<1> DEFINE s == [t EXCEPT !.cells = all, !.doubt = "medium"]
<1>1. s.cells = all /\ s.doubt = "medium" /\ s.cols = t.cols /\ Bare(t)
  BY DEF Gridded, Tabular
<1>2. Level(all) /\ all \in Seq(Boxed)
  <2>1. Level(t.cells)
    BY GriddedIsLevel
  <2>2. QED BY <1>1, <2>1, StockedIsLevel
<1>3. Falling(f.cells)
  <2>1. s.cells \in Seq(Boxed) /\ Level(s.cells) /\ Reranked(f, s)
    BY <1>1, <1>2
  <2> HIDE DEF s
  <2>2. QED BY <2>1, RerankedFalls
<1>4. /\ f.doubt = "medium" /\ f.cols = t.cols /\ f.rows \in Nat /\ DOMAIN f.cells = DOMAIN all
      /\ \A k \in DOMAIN all : /\ f.cells[k].col = all[k].col /\ f.cells[k].cs = all[k].cs
                               /\ f.cells[k].row \in 0..(f.rows - 1)
  BY <1>1 DEF Reranked, Retains
<1>5. ASSUME Simple(f.cells) PROVE Fits(f) /\ Disjoint(f.cells)
  <2>1. ASSUME NEW k \in DOMAIN f.cells
        PROVE  f.cells[k].row + f.cells[k].rs <= f.rows /\ f.cells[k].col + f.cells[k].cs <= f.cols
    <3>1. all[k].col + all[k].cs <= t.cols
      BY <1>4, <2>1, StockedInColumns
    <3>2. f.cells[k].rs = 1
      BY <1>5, <2>1 DEF Simple
    <3> DEFINE r == f.cells[k].row
               h == f.rows
    <3>3. r \in 0..(h - 1) /\ h \in Nat
      BY <1>4, <2>1
    <3> HIDE DEF r, h
    <3>4. r + 1 <= h
      BY <3>3
    <3>5. QED BY <1>4, <2>1, <3>1, <3>2, <3>4 DEF r, h
  <2>2. Fits(f)
    BY <2>1 DEF Fits, ToSet
  <2>3. ASSUME NEW k \in DOMAIN f.cells, NEW l \in DOMAIN f.cells, k < l
        PROVE  Slots(f.cells[k]) \cap Slots(f.cells[l]) = {}
    <3>1. k \in DOMAIN all /\ l \in DOMAIN all /\ Len(all) \in Nat /\ DOMAIN all = 1..Len(all)
      BY <1>2, <1>4, SeqHas
    <3>2. k # l
      BY <2>3, <3>1
    <3>3. QED BY <1>5, <3>1, <3>2, StockedApart
  <2>4. QED BY <2>2, <2>3 DEF Disjoint
<1>6. QED BY <1>3, <1>4, <1>5 DEF Firm

\* What filling a recognised table makes of it is sound.
LEMMA FilledIsFirm ==
    ASSUME NEW tok \in Tokens, NEW t, NEW rows, NEW cols, Gridded(t, rows, cols)
    PROVE  Firm(FillTable(tok, t))
<1> DEFINE f == FillTable(tok, t)
           cells == GridCells(tok, t)
           all == AllCells(tok, t)
<1>1. Bare(t) /\ t = [x \in Tabular |-> t[x]]
  BY DEF Gridded
<1>2. CASE Stock(f, cells, tok, t) /\ f = [t EXCEPT !.cells = cells]
  <2>1. f.rows = t.rows /\ f.cols = t.cols /\ f.cells = cells
    BY <1>1, <1>2 DEF Tabular
  <2>2. Len(cells) = Len(t.cells) /\ \A k \in DOMAIN t.cells : GridCell(cells[k], tok, t, k)
    BY <1>1, GridCellsAre
  <2>3. DOMAIN cells = DOMAIN t.cells
    <3>1. cells \in Seq(Boxed) /\ t.cells \in Seq(Boxed)
      BY <1>1, GridCellsAre DEF Bare
    <3> HIDE DEF cells
    <3>2. QED BY <2>2, <3>1, SeqHas
  <2>4. \A k \in DOMAIN t.cells :
           /\ f.cells[k].row = t.cells[k].row /\ f.cells[k].col = t.cells[k].col
           /\ f.cells[k].rs = t.cells[k].rs /\ f.cells[k].cs = t.cells[k].cs
           /\ f.cells[k].box = t.cells[k].box
    BY <2>1, <2>2 DEF GridCell
  <2>5. f.rows = t.rows /\ f.cols = t.cols /\ DOMAIN f.cells = DOMAIN t.cells
    BY <2>1, <2>3
  <2> HIDE DEF f, cells
  <2>6. Firm(f)
    BY <2>4, <2>5, FilledInPlace
  <2>7. QED BY <2>6 DEF f
<1>3. CASE Stock(f, all, tok, t) /\ Reranked(f, [t EXCEPT !.cells = all, !.doubt = "medium"])
  <2>1. Stocked(all, tok, t)
    BY <1>3 DEF Stock
  <2>2. Reranked(f, [t EXCEPT !.cells = all, !.doubt = "medium"])
    BY <1>3
  <2> HIDE DEF f, all
  <2>3. Firm(f)
    BY <2>1, <2>2, FilledWithRows
  <2>4. QED BY <2>3 DEF f
<1>4. QED BY <1>1, <1>2, <1>3, FilledIs

-----------------------------------------------------------------------------
(***************************************************************************)
(* The tables of every route are sound.                                    *)
(***************************************************************************)
Sound(t) ==
    /\ t.doubt = "none" \/ (\A c \in ToSet(t.cells) : c.rs = 1) => Fits(t) /\ Disjoint(t.cells)
    /\ \A a, b \in ToSet(t.cells) :
         a.box # NoBox /\ b.box # NoBox /\ a.box.y1 <= b.box.y0 => a.row < b.row

LEMMA FirmIsSound == ASSUME NEW t, Firm(t) PROVE Sound(t)
<1>1. t.doubt = "none" \/ (\A c \in ToSet(t.cells) : c.rs = 1) => Fits(t) /\ Disjoint(t.cells)
  BY DEF Firm, Simple, ToSet
<1>2. \A a, b \in ToSet(t.cells) : a.box.y1 <= b.box.y0 => a.row < b.row
  BY DEF Firm, Falling, ToSet
<1>3. QED BY <1>1, <1>2 DEF Sound

LEMMA VisualIsSound ==
    ASSUME NEW d \in Docs, NEW i \in DOMAIN d.units, NEW how,
           NEW tables \in {<<>>, PageTables(d.units[i])},
           NEW t \in ToSet(VisualPage(d.units[i], how, tables).tables)
    PROVE  Sound(t)
<1> DEFINE u == d.units[i]
<1>1. /\ Answered(u) /\ Tables0(u, PageTables(u))
      /\ \A m \in DOMAIN PageTables(u) : \E rows, cols : Gridded(PageTables(u)[m], rows, cols)
  BY AnswersAre, PageTablesBare
<1>2. OfLength(tables) /\ \A m \in DOMAIN tables : \E rows, cols : Gridded(tables[m], rows, cols)
  <2>1. DOMAIN <<>> = 1..0 /\ 0 \in Nat /\ DOMAIN <<>> = {}
    OBVIOUS
  <2>2. QED BY <1>1, <2>1 DEF OfLength, Tables0
<1>3. t \in ToSet(VisualPage(u, how, tables).tables)
  OBVIOUS
<1> HIDE DEF u
<1>4. t \in ToSet(Filled(u, tables))
  BY <1>1, <1>2, <1>3, VisualFormIs
<1>5. PICK m \in DOMAIN tables : t = FillTable(u.tokens, tables[m])
  BY <1>4 DEF Filled, ToSet
<1>6. PICK rows, cols : Gridded(tables[m], rows, cols)
  BY <1>2, <1>5
<1>7. u.tokens \in Tokens
  BY <1>1 DEF Answered
<1>8. Firm(t)
  BY <1>5, <1>6, <1>7, FilledIsFirm
<1>9. QED BY <1>8, FirmIsSound

\* PyMuPDF's grids.
Levelled(g) ==
    /\ \A r \in DOMAIN g.rows : Len(g.rows[r]) <= g.cols
    /\ \A p, q \in Places(g) :
          /\ CellBox(g, p).y0 < CellBox(g, p).y1
          /\ p[1] <= q[1] => CellBox(g, p).y0 <= CellBox(g, q).y0

LEMMA SpanRightIs ==
    ASSUME NEW row \in Seq(Bounding), NEW c \in DOMAIN row
    PROVE  /\ SpanRight(row, c) \in Nat1 /\ c + SpanRight(row, c) - 1 <= Len(row)
           /\ \A m \in DOMAIN row : c < m /\ row[m] # NoBox => c + SpanRight(row, c) <= m
<1> DEFINE N == Len(row)
           S == {k \in 1..N : c + k > N \/ row[c + k] # NoBox}
           x == SpanRight(row, c)
<1>1. N \in Nat /\ DOMAIN row = 1..N /\ c \in 1..N
  BY SeqHas
<1>2. x = Min(S)
  BY DEF SpanRight
<1> HIDE DEF x, N
<1>3. N \in S
  BY <1>1
<1>4. S \in SUBSET Int /\ IsFiniteSet(S) /\ S \in SUBSET (1..N)
  <2>1. IsFiniteSet(1..N)
    BY <1>1, FS_Interval
  <2>2. S \in SUBSET (1..N)
    OBVIOUS
  <2>3. QED BY <1>1, <2>1, <2>2, FS_Subset
<1>5. x \in S /\ \A k \in S : x <= k
  BY <1>2, <1>3, <1>4, MinIs
<1>6. x \in 1..N
  BY <1>4, <1>5
<1>7. N - c + 1 \in S
  BY <1>1
<1>8. x <= N - c + 1
  BY <1>5, <1>7
<1>9. ASSUME NEW m \in DOMAIN row, c < m, row[m] # NoBox PROVE c + x <= m
  <2> DEFINE k == m - c
  <2>1. k \in 1..N /\ c + k = m
    BY <1>1, <1>9
  <2> HIDE DEF k
  <2>2. k \in S
    BY <1>9, <2>1
  <2>3. x <= k
    BY <1>5, <2>2
  <2>4. QED BY <1>1, <1>6, <2>1, <2>3
<1>10. x \in Nat1 /\ c + x - 1 <= N
  BY <1>1, <1>6, <1>8 DEF Nat1
<1>11. QED BY <1>9, <1>10 DEF x, N

\* Where the cell at a place is.
LEMMA NativeCellIs ==
    ASSUME NEW g \in Grids, Levelled(g), NEW runs \in Seq(Runs), NEW p \in Places(g)
    PROVE  LET c == NativeCell(g, runs, p)
           IN  /\ c.row = p[1] - 1 /\ c.col = p[2] - 1 /\ c.rs = 1 /\ c.cs \in Nat1 /\ c.box = CellBox(g, p)
               /\ p[1] \in 1..Len(g.rows) /\ p[2] \in Nat /\ Len(g.rows) \in Nat
               /\ c.row + c.rs <= Len(g.rows) /\ c.col + c.cs <= g.cols
               /\ \A q \in Places(g) : q[1] = p[1] /\ p[2] < q[2] => p[2] + c.cs <= q[2]
<1> DEFINE c == NativeCell(g, runs, p)
           row == g.rows[p[1]]
           N == Len(g.rows)
           cs == SpanRight(row, p[2])
           M == Len(row)
           w == g.cols
           a == p[1]
           b == p[2]
<1>1. g.rows \in Seq(Seq(Bounding)) /\ w \in Nat
  BY DEF Grids
<1>2. /\ a \in DOMAIN g.rows /\ b \in DOMAIN g.rows[a]
      /\ \A q \in Places(g) : q[1] \in DOMAIN g.rows /\ q[2] \in DOMAIN g.rows[q[1]] /\ g.rows[q[1]][q[2]] # NoBox
  BY DEF Places
<1>3. N \in Nat /\ DOMAIN g.rows = 1..N /\ row \in Seq(Bounding)
  BY <1>1, <1>2, SeqHas
<1>4. M \in Nat /\ DOMAIN row = 1..M
  BY <1>3, SeqHas
<1>5. M <= w
  BY <1>2 DEF Levelled
<1>6. c.row = a - 1 /\ c.col = b - 1 /\ c.rs = 1 /\ c.cs = cs /\ c.box = CellBox(g, p)
  BY DEF NativeCell, Cell
<1> HIDE DEF c, cs, row, w
<1>7. /\ cs \in Nat1 /\ b + cs - 1 <= M
      /\ \A m \in DOMAIN row : b < m /\ row[m] # NoBox => b + cs <= m
  BY <1>2, <1>3, SpanRightIs DEF cs, row
<1>8. \A q \in Places(g) : q[1] = a /\ b < q[2] => b + cs <= q[2]
  BY <1>2, <1>7 DEF row
<1>9. a \in 1..N /\ b \in 1..M
  BY <1>2, <1>3, <1>4 DEF row
<1> HIDE DEF N, M, a, b
<1>10. a - 1 + 1 <= N /\ b - 1 + cs <= w
  BY <1>1, <1>3, <1>4, <1>5, <1>7, <1>9 DEF Nat1
<1>11. b \in Nat
  BY <1>4, <1>9
<1>12. /\ c.row = a - 1 /\ c.col = b - 1 /\ c.rs = 1 /\ c.cs \in Nat1 /\ c.box = CellBox(g, p)
       /\ a \in 1..N /\ b \in Nat /\ N \in Nat
       /\ c.row + c.rs <= N /\ c.col + c.cs <= w
       /\ \A q \in Places(g) : q[1] = a /\ b < q[2] => b + c.cs <= q[2]
  BY <1>3, <1>6, <1>7, <1>8, <1>9, <1>10, <1>11
<1>13. QED BY <1>12 DEF c, N, a, b, w

LEMMA NativeApart ==
    ASSUME NEW g \in Grids, Levelled(g), NEW runs \in Seq(Runs),
           NEW p \in Places(g), NEW q \in Places(g), p # q
    PROVE  Slots(NativeCell(g, runs, p)) \cap Slots(NativeCell(g, runs, q)) = {}
<1> DEFINE c == NativeCell(g, runs, p)
           d == NativeCell(g, runs, q)
           N == Len(g.rows)
<1>1. /\ c.row = p[1] - 1 /\ c.col = p[2] - 1 /\ c.rs = 1 /\ c.cs \in Nat1
      /\ p[1] \in 1..N /\ p[2] \in Nat /\ N \in Nat
      /\ q[1] = p[1] /\ p[2] < q[2] => p[2] + c.cs <= q[2]
  BY NativeCellIs
<1>2. /\ d.row = q[1] - 1 /\ d.col = q[2] - 1 /\ d.rs = 1 /\ d.cs \in Nat1
      /\ q[1] \in 1..N /\ q[2] \in Nat
      /\ p[1] = q[1] /\ q[2] < p[2] => q[2] + d.cs <= p[2]
  BY NativeCellIs
<1>3. p[1] # q[1] \/ p[2] # q[2]
  <2>1. p \in Int \X Int /\ q \in Int \X Int
    BY PlacesAre
  <2>2. QED BY <2>1
<1> HIDE DEF c, d, N
<1>4. CASE p[1] # q[1]
  <2>1. c.row \in Int /\ d.row \in Int /\ c.row # d.row
    BY <1>1, <1>2, <1>4
  <2>2. Slots(c) \cap Slots(d) = {}
    BY <1>1, <1>2, <2>1, RowsApart
  <2>3. QED BY <2>2 DEF c, d
<1>5. CASE p[1] = q[1] /\ p[2] # q[2]
  <2> DEFINE x == c.col
             y == d.col
             v == c.cs
             w == d.cs
  <2>1. /\ x \in Int /\ y \in Int /\ v \in Nat1 /\ w \in Nat1
        /\ x + v <= y \/ y + w <= x
    <3> DEFINE e == p[2]
               f == q[2]
    <3>1. /\ x = e - 1 /\ y = f - 1 /\ e \in Nat /\ f \in Nat /\ v \in Nat1 /\ w \in Nat1 /\ e # f
          /\ (e < f => e + v <= f) /\ (f < e => f + w <= e)
      BY <1>1, <1>2, <1>5
    <3> HIDE DEF e, f, x, y, v, w
    <3>2. QED BY <3>1 DEF Nat1
  <2>2. Slots(c) = (c.row .. c.row + c.rs - 1) \X (x .. x + v - 1)
        /\ Slots(d) = (d.row .. d.row + d.rs - 1) \X (y .. y + w - 1)
    BY DEF Slots
  <2> HIDE DEF x, y, v, w
  <2>3. (x .. x + v - 1) \cap (y .. y + w - 1) = {}
    BY <2>1 DEF Nat1
  <2> DEFINE X == x .. x + v - 1
             Y == y .. y + w - 1
  <2>4. X \cap Y = {}
    BY <2>3
  <2>5. Slots(c) = (c.row .. c.row + c.rs - 1) \X X /\ Slots(d) = (d.row .. d.row + d.rs - 1) \X Y
    BY <2>2
  <2> HIDE DEF X, Y
  <2>6. Slots(c) \cap Slots(d) = {}
    BY <2>4, <2>5
  <2>7. QED BY <2>6 DEF c, d
<1>6. QED BY <1>3, <1>4, <1>5

\* A native table is sound.
LEMMA NativeTableIsSound ==
    ASSUME NEW g \in Grids, Levelled(g), NEW runs \in Seq(Runs)
    PROVE  Sound(NativeTable(g, runs))
<1> DEFINE T == NativeTable(g, runs)
           S == Places(g)
           order == ByPlace(S)
<1>1. /\ T.rows = Len(g.rows) /\ T.cols = g.cols
      /\ T.cells = [k \in DOMAIN order |-> NativeCell(g, runs, order[k])]
  <2>1. T = [Table(Len(g.rows), g.cols, [k \in DOMAIN order |-> NativeCell(g, runs, order[k])], g.box)
               EXCEPT !.doubt = Doubt(g, runs)]
    BY DEF NativeTable, Ordered, ByPlace, PlaceAt
  <2> HIDE DEF T, order
  <2>2. QED BY <2>1 DEF Table
<1> HIDE DEF T
<1>2. Lists(order, S)
  BY PlacesAre, ByPlaceIs
<1> HIDE DEF order
<1>3. DOMAIN T.cells = DOMAIN order
      /\ \A k \in DOMAIN order : order[k] \in S /\ T.cells[k] = NativeCell(g, runs, order[k])
  BY <1>1, <1>2, ListHolds
<1>4. ASSUME NEW k \in DOMAIN T.cells
      PROVE  T.cells[k].row + T.cells[k].rs <= T.rows /\ T.cells[k].col + T.cells[k].cs <= T.cols
  BY <1>1, <1>3, NativeCellIs
<1>5. Fits(T)
  BY <1>4 DEF Fits, ToSet
<1>6. ASSUME NEW k \in DOMAIN T.cells, NEW l \in DOMAIN T.cells, k < l
      PROVE  Slots(T.cells[k]) \cap Slots(T.cells[l]) = {}
  <2>1. k # l
    <3>1. DOMAIN order = 1..Len(order) /\ Len(order) \in Nat
      BY <1>2, ListHolds
    <3>2. QED BY <1>3, <1>6, <3>1
  <2>2. order[k] # order[l]
    BY <1>2, <1>3, <2>1 DEF Lists
  <2>3. QED BY <1>3, <2>2, NativeApart
<1>7. Disjoint(T.cells)
  BY <1>6 DEF Disjoint
<1>8. ASSUME NEW k \in DOMAIN T.cells, NEW l \in DOMAIN T.cells, T.cells[k].box.y1 <= T.cells[l].box.y0
      PROVE  T.cells[k].row < T.cells[l].row
  <2> DEFINE p == order[k]
             q == order[l]
  <2>1. p \in S /\ q \in S /\ T.cells[k] = NativeCell(g, runs, p) /\ T.cells[l] = NativeCell(g, runs, q)
    BY <1>3
  <2> HIDE DEF p, q
  <2>2. /\ T.cells[k].box = CellBox(g, p) /\ T.cells[k].row = p[1] - 1 /\ p[1] \in Int
        /\ T.cells[l].box = CellBox(g, q) /\ T.cells[l].row = q[1] - 1 /\ q[1] \in Int
    <3>1. Len(g.rows) \in Nat
      BY <2>1, NativeCellIs
    <3>2. p[1] \in 1..Len(g.rows) /\ q[1] \in 1..Len(g.rows)
      BY <2>1, NativeCellIs
    <3>3. p[1] \in Int /\ q[1] \in Int
      BY <3>2
    <3>4. QED BY <2>1, <3>3, NativeCellIs
  <2>3. /\ CellBox(g, p).y0 < CellBox(g, p).y1
        /\ q[1] <= p[1] => CellBox(g, q).y0 <= CellBox(g, p).y0
    BY <2>1 DEF Levelled
  <2>4. CellBox(g, p) \in Bounding /\ CellBox(g, q) \in Bounding
    BY <2>1, PlacesAre
  <2> DEFINE a0 == CellBox(g, p).y0
             a1 == CellBox(g, p).y1
             b0 == CellBox(g, q).y0
             x == p[1]
             y == q[1]
  <2>5. /\ a0 \in Int /\ a1 \in Int /\ b0 \in Int /\ x \in Int /\ y \in Int
        /\ a0 < a1 /\ (y <= x => b0 <= a0) /\ a1 <= b0
    BY <1>8, <2>2, <2>3, <2>4 DEF Bounding
  <2> HIDE DEF a0, a1, b0, x, y
  <2>6. x - 1 < y - 1
    BY <2>5
  <2>7. QED BY <2>2, <2>6 DEF x, y
<1>9. \A c, e \in ToSet(T.cells) : c.box.y1 <= e.box.y0 => c.row < e.row
  BY <1>8 DEF ToSet
<1>10. Sound(T)
  BY <1>5, <1>7, <1>9 DEF Sound
<1>11. QED BY <1>10 DEF T

LEMMA FoundIsSound ==
    ASSUME NEW d \in Docs, NEW i \in DOMAIN d.units, NEW t \in ToSet(NativePage(d.units[i]).tables)
    PROVE  Sound(t)
<1> DEFINE u == d.units[i]
           S == {k \in DOMAIN u.native : Usable(u.native[k])}
           usable == Picked(u.native, S)
<1>1. Given(u) /\ \A k \in DOMAIN u.native : Levelled(u.native[k])
  BY UnitsAssumption, NativeAssumption DEF Given, Runs, Grids, Levelled
<1>2. t \in ToSet(NativePage(u).tables)
  OBVIOUS
<1> HIDE DEF u
<1>3. NativePage(u).tables = [k \in DOMAIN usable |-> NativeTable(usable[k], u.runs)]
  BY DEF NativePage, Page, FoundTables
<1>4. u.native \in Seq(Grids) /\ S \in SUBSET DOMAIN u.native /\ u.runs \in Seq(Runs)
  BY <1>1 DEF Given
<1> HIDE DEF S
<1>5. PICK at : /\ usable \in Seq(Grids) /\ DOMAIN usable = DOMAIN at
                /\ \A k \in DOMAIN at : at[k] \in S /\ usable[k] = u.native[at[k]]
  BY <1>4, PickedIs
<1> HIDE DEF usable
<1>6. PICK k \in DOMAIN usable : t = NativeTable(usable[k], u.runs)
  BY <1>2, <1>3 DEF ToSet
<1>7. usable[k] \in Grids /\ Levelled(usable[k])
  BY <1>1, <1>4, <1>5, <1>6, SeqHas
<1>8. QED BY <1>4, <1>6, <1>7, NativeTableIsSound

-----------------------------------------------------------------------------
\* Office units.

HeldIn(rows, cols, M, filled) ==
    {p \in (0..rows - 1) \X (0..cols - 1) :
       /\ \A s \in M : p \in Slots(s) => p = <<s.row, s.col>>
       /\ p \in filled \/ \E s \in Origin(M, p) : s.rs > 1 \/ s.cs > 1}
PlainCell(M, p, box) ==
    IF Origin(M, p) = {} THEN Cell(p[1], p[2], 1, 1, box)
    ELSE LET s == CHOOSE s \in Origin(M, p) : TRUE IN Cell(p[1], p[2], s.rs, s.cs, box)

LEMMA GridForm ==
    ASSUME NEW rows, NEW cols, NEW M, NEW filled, NEW box
    PROVE  LET order == ByPlace(HeldIn(rows, cols, M, filled))
           IN  GridTable(rows, cols, M, filled, box)
                 = Table(rows, cols, [i \in DOMAIN order |-> PlainCell(M, order[i], box)], NoBox)
BY DEF GridTable, Ordered, ByPlace, PlaceAt, HeldIn, PlainCell, Origin

LEMMA PlainCellIs ==
    ASSUME NEW M, NEW p, NEW box
    PROVE  BegunAt(M, p, PlainCell(M, p, box)) /\ PlainCell(M, p, box).box = box
<1>1. CASE Origin(M, p) = {}
  BY <1>1 DEF BegunAt, PlainCell, Cell
<1>2. CASE Origin(M, p) # {}
  <2> DEFINE s == CHOOSE s \in Origin(M, p) : TRUE
  <2>1. s \in Origin(M, p)
    BY <1>2
  <2>2. PlainCell(M, p, box) = Cell(p[1], p[2], s.rs, s.cs, box)
    BY <1>2 DEF PlainCell
  <2> HIDE DEF s
  <2>3. s \in M /\ s.row = p[1] /\ s.col = p[2]
    BY <2>1 DEF Origin
  <2>4. QED BY <2>2, <2>3 DEF BegunAt, Cell
<1>3. QED BY <1>1, <1>2

LEMMA GridTableIsSound ==
    ASSUME NEW rows \in Int, NEW cols \in Int, NEW M, \A s, v \in M : s # v => Slots(s) \cap Slots(v) = {},
           NEW filled, Fits(GridTable(rows, cols, M, filled, NoBox))
    PROVE  Sound(GridTable(rows, cols, M, filled, NoBox))
<1> DEFINE T == GridTable(rows, cols, M, filled, NoBox)
           S == HeldIn(rows, cols, M, filled)
           order == ByPlace(S)
<1>1. T.cells = [i \in DOMAIN order |-> PlainCell(M, order[i], NoBox)]
  <2>1. T = Table(rows, cols, [i \in DOMAIN order |-> PlainCell(M, order[i], NoBox)], NoBox)
    BY GridForm
  <2> HIDE DEF T, order
  <2>2. QED BY <2>1 DEF Table
<1>2. S \in SUBSET (Int \X Int) /\ IsFiniteSet(S)
  <2> DEFINE G == (0..rows - 1) \X (0..cols - 1)
  <2>1. IsFiniteSet(0..rows - 1) /\ IsFiniteSet(0..cols - 1)
    BY FS_Interval
  <2>2. IsFiniteSet(G)
    BY <2>1, FS_Product
  <2>3. S \in SUBSET G
    BY DEF HeldIn
  <2>4. G \in SUBSET (Int \X Int)
    OBVIOUS
  <2> HIDE DEF G, S
  <2>5. QED BY <2>2, <2>3, <2>4, FS_Subset
<1>3. \A p \in S : Starts(M, p)
  <2> SUFFICES ASSUME NEW p \in S, p \in Covered(M) PROVE Origin(M, p) # {}
    BY <1>2 DEF Starts
  <2>1. PICK s \in M : p \in Slots(s)
    BY DEF Covered
  <2>2. p = <<s.row, s.col>>
    BY <2>1 DEF HeldIn
  <2>3. s \in Origin(M, p)
    BY <2>2 DEF Origin
  <2>4. QED BY <2>3
<1> HIDE DEF S
<1>4. Lists(order, S)
  BY <1>2, ByPlaceIs
<1> HIDE DEF order, T
<1>5. /\ DOMAIN T.cells = DOMAIN order /\ DOMAIN order = 1..Len(order) /\ Len(order) \in Nat
      /\ \A k \in DOMAIN order : /\ order[k] \in S /\ T.cells[k].box = NoBox
                                 /\ BegunAt(M, order[k], T.cells[k])
  BY <1>1, <1>4, ListHolds, PlainCellIs
<1>6. ASSUME NEW k \in DOMAIN T.cells, NEW l \in DOMAIN T.cells, k < l
      PROVE  Slots(T.cells[k]) \cap Slots(T.cells[l]) = {}
  <2>1. k # l
    BY <1>5, <1>6
  <2> DEFINE p == order[k]
             q == order[l]
             c == T.cells[k]
             e == T.cells[l]
  <2>2. p # q /\ p \in S /\ q \in S /\ BegunAt(M, p, c) /\ BegunAt(M, q, e)
    BY <1>4, <1>5, <1>6, <2>1 DEF Lists
  <2> HIDE DEF p, q, c, e
  <2>3. Starts(M, p) /\ Starts(M, q)
    BY <1>3, <2>2
  <2>4. Slots(c) \cap Slots(e) = {}
    BY <2>2, <2>3, BegunApart
  <2>5. QED BY <2>4 DEF c, e
<1>7. Disjoint(T.cells)
  BY <1>6 DEF Disjoint
<1>8. \A c \in ToSet(T.cells) : c.box = NoBox
  BY <1>5 DEF ToSet
<1>9. Fits(T)
  BY DEF T
<1>10. Sound(T)
  BY <1>7, <1>8, <1>9 DEF Sound
<1>11. QED BY <1>10 DEF T

LEMMA CutIs == ASSUME NEW a \in Nat, NEW b \in Nat, NEW cap PROVE Cut(a, b, cap) \in Int
<1> DEFINE S == {1} \cup {k \in 1..a : k * k * b <= a * cap}
<1>1. Cut(a, b, cap) = IF a * b <= cap THEN a ELSE Max(S)
  BY DEF Cut
<1>2. S \in SUBSET Int /\ IsFiniteSet(S) /\ S # {}
  <2> DEFINE D == 1..a
             R == {k \in D : k * k * b <= a * cap}
  <2>1. IsFiniteSet(D) /\ D \in SUBSET Int
    BY FS_Interval
  <2>2. IsFiniteSet({1}) /\ {1} \in SUBSET Int
    BY FS_Singleton
  <2>3. S = {1} \cup R
    OBVIOUS
  <2>4. R \in SUBSET D
    OBVIOUS
  <2> HIDE DEF D, R, S
  <2>5. IsFiniteSet(R)
    BY <2>1, <2>4, FS_Subset
  <2>6. IsFiniteSet({1} \cup R)
    BY <2>2, <2>5, FS_Union
  <2>7. QED BY <2>1, <2>2, <2>3, <2>4, <2>6
<1> HIDE DEF S
<1>3. Max(S) \in Int
  BY <1>2, MaxIs
<1>4. QED BY <1>1, <1>3

LEMMA RangedIsSound ==
    ASSUME NEW s, Ranged(s)
    PROVE  /\ \A cap : Fits(SheetTable(s, cap)) => Sound(SheetTable(s, cap))
           /\ Fits(PptxTable(s)) => Sound(PptxTable(s))
<1>1. /\ s.rows \in Nat /\ s.cols \in Nat /\ \A a, b \in s.merged : a # b => Slots(a) \cap Slots(b) = {}
  BY DEF Ranged
<1>2. ASSUME NEW cap, Fits(SheetTable(s, cap)) PROVE Sound(SheetTable(s, cap))
  <2> DEFINE R == Cut(s.rows, s.cols, cap)
             C == Cut(s.cols, s.rows, cap)
  <2>1. R \in Int /\ C \in Int
    BY <1>1, CutIs
  <2>2. SheetTable(s, cap) = GridTable(R, C, s.merged, s.filled, NoBox)
    BY DEF SheetTable
  <2> HIDE DEF R, C
  <2>3. QED BY <1>1, <1>2, <2>1, <2>2, GridTableIsSound
<1>3. ASSUME Fits(PptxTable(s)) PROVE Sound(PptxTable(s))
  <2> DEFINE F == (0..s.rows - 1) \X (0..s.cols - 1)
  <2>1. PptxTable(s) = GridTable(s.rows, s.cols, s.merged, F, NoBox)
    BY DEF PptxTable
  <2>2. s.rows \in Int /\ s.cols \in Int
    BY <1>1
  <2> HIDE DEF F
  <2>3. QED BY <1>1, <1>3, <2>1, <2>2, GridTableIsSound
<1>4. QED BY <1>2, <1>3

-----------------------------------------------------------------------------
\* The tables of the whole-document model.

PlaceAll(x, q) == FoldLeft(PlaceCell, x, q)
Indexed(q, N) == N \in Nat /\ DOMAIN q = 1..N
RowPlaced(st, tr) == CloseRow(PlaceAll(st, tr))
RowsPlaced(x, q) == FoldLeft(LAMBDA st, tr : CloseRow(FoldLeft(PlaceCell, st, tr)), x, q)

LEMMA PlaceAllRuns ==
    ASSUME NEW x, NEW q, NEW N, Indexed(q, N)
    PROVE  \E f : /\ f[0] = x /\ PlaceAll(x, q) = f[N]
                  /\ \A k \in 1..N : f[k] = PlaceCell(f[k - 1], q[k])
<1> N \in Nat /\ DOMAIN q = 1..N
  BY DEF Indexed
<1> DEFINE Good(h, m) == h = [T \in SUBSET (1..m) |-> IF T = {} THEN x ELSE PlaceCell(h[T \ {Max(T)}], q[Max(T)])]
           Bad == {m \in 0..N : ~ \E h : Good(h, m)}
           iter[T \in SUBSET DOMAIN q] ==
               IF T = {} THEN x ELSE LET m == Max(T) IN PlaceCell(iter[T \ {m}], q[m])
<1>1. PlaceAll(x, q) = iter[DOMAIN q]
  BY DEF PlaceAll, FoldLeft, MapThenFoldSet
<1>2. \E h : Good(h, 0)
  <2> DEFINE h == [T \in SUBSET (1..0) |-> x]
  <2>1. 1..0 = {} /\ \A T \in SUBSET (1..0) : T = {}
    OBVIOUS
  <2>2. Good(h, 0)
    BY <2>1
  <2>3. QED BY <2>2
<1>3. ASSUME NEW m \in 0..(N - 1), NEW h, Good(h, m) PROVE \E g : Good(g, m + 1)
  <2> DEFINE z == m + 1
             D == 1..z
             g == [T \in SUBSET D |-> IF z \in T THEN PlaceCell(h[T \ {z}], q[z]) ELSE h[T]]
             of(T) == IF T = {} THEN x ELSE PlaceCell(g[T \ {Max(T)}], q[Max(T)])
  <2>1. z \in Nat /\ IsFiniteSet(D) /\ D \in SUBSET Int /\ z \in D
        /\ \A k \in D : k <= z /\ (k # z => k \in 1..m)
    BY FS_Interval
  <2>2. \A T \in SUBSET D : z \notin T => T \in SUBSET (1..m)
    BY <2>1
  <2>3. \A T \in SUBSET (1..m) : T \in SUBSET D /\ z \notin T
    OBVIOUS
  <2>4. \A T \in SUBSET (1..m) : h[T] = IF T = {} THEN x ELSE PlaceCell(h[T \ {Max(T)}], q[Max(T)])
    BY <1>3
  <2>5. \A T \in SUBSET D : T # {} => Max(T) \in T /\ \A k \in T : k <= Max(T)
    <3> SUFFICES ASSUME NEW T \in SUBSET D, T # {} PROVE Max(T) \in T /\ \A k \in T : k <= Max(T)
      OBVIOUS
    <3>1. T \in SUBSET Int /\ IsFiniteSet(T)
      BY <2>1, FS_Subset
    <3>2. QED BY <3>1, MaxIs
  <2> HIDE DEF Good, D
  <2>6. \A T \in SUBSET D : g[T] = IF z \in T THEN PlaceCell(h[T \ {z}], q[z]) ELSE h[T]
    OBVIOUS
  <2> HIDE DEF g, z
  <2>7. ASSUME NEW T \in SUBSET D PROVE g[T] = of(T)
    <3>1. CASE z \in T
      <4>1. Max(T) = z
        <5>1. Max(T) \in T /\ z <= Max(T)
          BY <2>5, <3>1
        <5>2. Max(T) <= z /\ Max(T) \in Int
          BY <2>1, <5>1
        <5>3. QED BY <2>1, <5>1, <5>2
      <4>2. T \ {z} \in SUBSET D /\ z \notin T \ {z}
        OBVIOUS
      <4>3. g[T \ {z}] = h[T \ {z}]
        BY <2>6, <4>2
      <4>4. g[T] = PlaceCell(h[T \ {z}], q[z])
        BY <2>6, <3>1
      <4>5. QED BY <3>1, <4>1, <4>3, <4>4
    <3>2. CASE z \notin T
      <4>1. g[T] = h[T] /\ T \in SUBSET (1..m)
        BY <2>2, <2>6, <3>2
      <4>2. CASE T = {}
        BY <2>4, <4>1, <4>2
      <4>3. CASE T # {}
        <5> DEFINE t == Max(T)
        <5>1. T \ {t} \in SUBSET D /\ z \notin T \ {t}
          BY <3>2
        <5>2. g[T \ {t}] = h[T \ {t}]
          BY <2>6, <5>1
        <5>3. h[T] = PlaceCell(h[T \ {t}], q[t])
          BY <2>4, <4>1, <4>3
        <5>4. QED BY <4>1, <4>3, <5>2, <5>3
      <4>4. QED BY <4>2, <4>3
    <3>3. QED BY <3>1, <3>2
  <2>8. g = [T \in SUBSET D |-> g[T]]
    BY DEF g
  <2>9. g = [T \in SUBSET D |-> of(T)]
    BY <2>7, <2>8
  <2>10. Good(g, z)
    BY <2>9 DEF Good, D
  <2>11. QED BY <2>10 DEF z
<1> HIDE DEF Good
<1>4. Bad = {}
  <2> SUFFICES ASSUME Bad # {} PROVE FALSE
    OBVIOUS
  <2>1. Bad \in SUBSET (0..N) /\ IsFiniteSet(0..N)
    BY FS_Interval
  <2>2. Bad \in SUBSET Int /\ IsFiniteSet(Bad)
    BY <2>1, FS_Subset
  <2> DEFINE b == Min(Bad)
  <2>3. b \in Bad /\ \A k \in Bad : b <= k
    BY <2>2, MinIs
  <2> HIDE DEF b
  <2>4. b \in 0..N /\ ~ \E h : Good(h, b)
    BY <2>3
  <2>5. b # 0
    BY <1>2, <2>4
  <2> DEFINE a == b - 1
  <2>6. a \in 0..(N - 1) /\ a + 1 = b /\ a \in 0..N /\ ~ (b <= a)
    BY <2>4, <2>5
  <2> HIDE DEF a
  <2>7. a \notin Bad
    BY <2>3, <2>6
  <2>8. \E h : Good(h, a)
    BY <2>6, <2>7
  <2>9. \E h : Good(h, a + 1)
    BY <1>3, <2>6, <2>8
  <2>10. QED BY <2>4, <2>6, <2>9
<1>5. PICK h : Good(h, N)
  BY <1>4
<1>6. h = [T \in SUBSET DOMAIN q |-> IF T = {} THEN x ELSE LET m == Max(T) IN PlaceCell(h[T \ {m}], q[m])]
  BY <1>5 DEF Good
<1>7. iter = [T \in SUBSET DOMAIN q |-> IF T = {} THEN x ELSE LET m == Max(T) IN PlaceCell(iter[T \ {m}], q[m])]
  BY <1>6
<1> HIDE DEF iter
<1> DEFINE f == [k \in 0..N |-> iter[1..k]]
<1>8. f[0] = x /\ f[N] = iter[DOMAIN q]
  <2>1. 1..0 = {} /\ 0 \in 0..N /\ N \in 0..N
    OBVIOUS
  <2>2. QED BY <1>7, <2>1
<1>9. \A k \in 1..N : f[k] = PlaceCell(f[k - 1], q[k])
  <2> SUFFICES ASSUME NEW k \in 1..N PROVE f[k] = PlaceCell(f[k - 1], q[k])
    OBVIOUS
  <2> DEFINE D == 1..k
  <2>1. k \in 0..N /\ k - 1 \in 0..N /\ D \in SUBSET (1..N) /\ D # {} /\ Max(D) = k /\ D \ {Max(D)} = 1..(k - 1)
    BY Within1N
  <2> HIDE DEF D
  <2>2. iter[D] = PlaceCell(iter[1..(k - 1)], q[k])
    BY <1>7, <2>1
  <2>3. QED BY <2>1, <2>2 DEF D
<1> HIDE DEF f
<1>10. QED BY <1>1, <1>8, <1>9

LEMMA RowsPlacedRuns ==
    ASSUME NEW x, NEW q, NEW N, Indexed(q, N)
    PROVE  \E f : /\ f[0] = x /\ RowsPlaced(x, q) = f[N]
                  /\ \A k \in 1..N : f[k] = RowPlaced(f[k - 1], q[k])
<1> N \in Nat /\ DOMAIN q = 1..N
  BY DEF Indexed
<1> DEFINE Good(h, m) == h = [T \in SUBSET (1..m) |-> IF T = {} THEN x ELSE RowPlaced(h[T \ {Max(T)}], q[Max(T)])]
           Bad == {m \in 0..N : ~ \E h : Good(h, m)}
           iter[T \in SUBSET DOMAIN q] ==
               IF T = {} THEN x ELSE LET m == Max(T) IN RowPlaced(iter[T \ {m}], q[m])
<1>1. RowsPlaced(x, q) = iter[DOMAIN q]
  BY DEF RowsPlaced, RowPlaced, PlaceAll, FoldLeft, MapThenFoldSet
<1>2. \E h : Good(h, 0)
  <2> DEFINE h == [T \in SUBSET (1..0) |-> x]
  <2>1. 1..0 = {} /\ \A T \in SUBSET (1..0) : T = {}
    OBVIOUS
  <2>2. Good(h, 0)
    BY <2>1
  <2>3. QED BY <2>2
<1>3. ASSUME NEW m \in 0..(N - 1), NEW h, Good(h, m) PROVE \E g : Good(g, m + 1)
  <2> DEFINE z == m + 1
             D == 1..z
             g == [T \in SUBSET D |-> IF z \in T THEN RowPlaced(h[T \ {z}], q[z]) ELSE h[T]]
             of(T) == IF T = {} THEN x ELSE RowPlaced(g[T \ {Max(T)}], q[Max(T)])
  <2>1. z \in Nat /\ IsFiniteSet(D) /\ D \in SUBSET Int /\ z \in D
        /\ \A k \in D : k <= z /\ (k # z => k \in 1..m)
    BY FS_Interval
  <2>2. \A T \in SUBSET D : z \notin T => T \in SUBSET (1..m)
    BY <2>1
  <2>3. \A T \in SUBSET (1..m) : T \in SUBSET D /\ z \notin T
    OBVIOUS
  <2>4. \A T \in SUBSET (1..m) : h[T] = IF T = {} THEN x ELSE RowPlaced(h[T \ {Max(T)}], q[Max(T)])
    BY <1>3
  <2>5. \A T \in SUBSET D : T # {} => Max(T) \in T /\ \A k \in T : k <= Max(T)
    <3> SUFFICES ASSUME NEW T \in SUBSET D, T # {} PROVE Max(T) \in T /\ \A k \in T : k <= Max(T)
      OBVIOUS
    <3>1. T \in SUBSET Int /\ IsFiniteSet(T)
      BY <2>1, FS_Subset
    <3>2. QED BY <3>1, MaxIs
  <2> HIDE DEF Good, D
  <2>6. \A T \in SUBSET D : g[T] = IF z \in T THEN RowPlaced(h[T \ {z}], q[z]) ELSE h[T]
    OBVIOUS
  <2> HIDE DEF g, z
  <2>7. ASSUME NEW T \in SUBSET D PROVE g[T] = of(T)
    <3>1. CASE z \in T
      <4>1. Max(T) = z
        <5>1. Max(T) \in T /\ z <= Max(T)
          BY <2>5, <3>1
        <5>2. Max(T) <= z /\ Max(T) \in Int
          BY <2>1, <5>1
        <5>3. QED BY <2>1, <5>1, <5>2
      <4>2. T \ {z} \in SUBSET D /\ z \notin T \ {z}
        OBVIOUS
      <4>3. g[T \ {z}] = h[T \ {z}]
        BY <2>6, <4>2
      <4>4. g[T] = RowPlaced(h[T \ {z}], q[z])
        BY <2>6, <3>1
      <4>5. QED BY <3>1, <4>1, <4>3, <4>4
    <3>2. CASE z \notin T
      <4>1. g[T] = h[T] /\ T \in SUBSET (1..m)
        BY <2>2, <2>6, <3>2
      <4>2. CASE T = {}
        BY <2>4, <4>1, <4>2
      <4>3. CASE T # {}
        <5> DEFINE t == Max(T)
        <5>1. T \ {t} \in SUBSET D /\ z \notin T \ {t}
          BY <3>2
        <5>2. g[T \ {t}] = h[T \ {t}]
          BY <2>6, <5>1
        <5>3. h[T] = RowPlaced(h[T \ {t}], q[t])
          BY <2>4, <4>1, <4>3
        <5>4. QED BY <4>1, <4>3, <5>2, <5>3
      <4>4. QED BY <4>2, <4>3
    <3>3. QED BY <3>1, <3>2
  <2>8. g = [T \in SUBSET D |-> g[T]]
    BY DEF g
  <2>9. g = [T \in SUBSET D |-> of(T)]
    BY <2>7, <2>8
  <2>10. Good(g, z)
    BY <2>9 DEF Good, D
  <2>11. QED BY <2>10 DEF z
<1> HIDE DEF Good
<1>4. Bad = {}
  <2> SUFFICES ASSUME Bad # {} PROVE FALSE
    OBVIOUS
  <2>1. Bad \in SUBSET (0..N) /\ IsFiniteSet(0..N)
    BY FS_Interval
  <2>2. Bad \in SUBSET Int /\ IsFiniteSet(Bad)
    BY <2>1, FS_Subset
  <2> DEFINE b == Min(Bad)
  <2>3. b \in Bad /\ \A k \in Bad : b <= k
    BY <2>2, MinIs
  <2> HIDE DEF b
  <2>4. b \in 0..N /\ ~ \E h : Good(h, b)
    BY <2>3
  <2>5. b # 0
    BY <1>2, <2>4
  <2> DEFINE a == b - 1
  <2>6. a \in 0..(N - 1) /\ a + 1 = b /\ a \in 0..N /\ ~ (b <= a)
    BY <2>4, <2>5
  <2> HIDE DEF a
  <2>7. a \notin Bad
    BY <2>3, <2>6
  <2>8. \E h : Good(h, a)
    BY <2>6, <2>7
  <2>9. \E h : Good(h, a + 1)
    BY <1>3, <2>6, <2>8
  <2>10. QED BY <2>4, <2>6, <2>9
<1>5. PICK h : Good(h, N)
  BY <1>4
<1>6. h = [T \in SUBSET DOMAIN q |-> IF T = {} THEN x ELSE LET m == Max(T) IN RowPlaced(h[T \ {m}], q[m])]
  BY <1>5 DEF Good
<1>7. iter = [T \in SUBSET DOMAIN q |-> IF T = {} THEN x ELSE LET m == Max(T) IN RowPlaced(iter[T \ {m}], q[m])]
  BY <1>6
<1> HIDE DEF iter
<1> DEFINE f == [k \in 0..N |-> iter[1..k]]
<1>8. f[0] = x /\ f[N] = iter[DOMAIN q]
  <2>1. 1..0 = {} /\ 0 \in 0..N /\ N \in 0..N
    OBVIOUS
  <2>2. QED BY <1>7, <2>1
<1>9. \A k \in 1..N : f[k] = RowPlaced(f[k - 1], q[k])
  <2> SUFFICES ASSUME NEW k \in 1..N PROVE f[k] = RowPlaced(f[k - 1], q[k])
    OBVIOUS
  <2> DEFINE D == 1..k
  <2>1. k \in 0..N /\ k - 1 \in 0..N /\ D \in SUBSET (1..N) /\ D # {} /\ Max(D) = k /\ D \ {Max(D)} = 1..(k - 1)
    BY Within1N
  <2> HIDE DEF D
  <2>2. iter[D] = RowPlaced(iter[1..(k - 1)], q[k])
    BY <1>7, <2>1
  <2>3. QED BY <2>1, <2>2 DEF D
<1> HIDE DEF f
<1>10. QED BY <1>1, <1>8, <1>9

\* A cell of an HTML table has no box.
Unboxed(st) == "cells" \in DOMAIN st /\ \E S : st.cells \in Seq(S) /\ \A c \in S : c.box = NoBox

LEMMA PlaceCellUnboxed == ASSUME NEW st, Unboxed(st), NEW size PROVE Unboxed(PlaceCell(st, size))
<1> DEFINE free == {c \in st.col..Cardinality(DOMAIN st.spans) :
                      \A k \in c..(c + size[2] - 1) \cap DOMAIN st.spans : st.spans[k] = 0}
           cell == Cell(st.row, Min(free), size[1], size[2], NoBox)
           st2 == PlaceCell(st, size)
           z == st.cells
<1>1. "cells" \in DOMAIN st2 /\ st2.cells = Append(st.cells, cell)
  BY DEF Unboxed, PlaceCell
<1>2. cell.box = NoBox
  BY DEF Cell
<1>3. PICK S : z \in Seq(S) /\ \A c \in S : c.box = NoBox
  BY DEF Unboxed
<1> HIDE DEF st2, cell
<1> DEFINE V == S \cup {cell}
<1>4. \A c \in V : c.box = NoBox
  BY <1>2, <1>3
<1>5. st2.cells \in Seq(V)
  <2>1. z \in Seq(V)
    <3> DEFINE l == Len(z)
    <3>1. l \in Nat /\ DOMAIN z = 1..l /\ z = [k \in DOMAIN z |-> z[k]] /\ \A k \in DOMAIN z : z[k] \in S
      BY <1>3, SeqHas
    <3>2. z = [k \in 1..l |-> z[k]] /\ \A k \in 1..l : z[k] \in V
      BY <3>1
    <3> HIDE DEF l, z, V
    <3>3. QED BY <3>1, <3>2, SeqMade
  <2>2. cell \in V
    OBVIOUS
  <2> HIDE DEF z, V
  <2>3. Append(z, cell) \in Seq(V)
    BY <2>1, <2>2
  <2>4. QED BY <1>1, <2>3 DEF z
<1> HIDE DEF V
<1>6. QED BY <1>1, <1>4, <1>5 DEF Unboxed, st2

LEMMA PlaceAllUnboxed ==
    ASSUME NEW x, Unboxed(x), NEW q, NEW N, Indexed(q, N)
    PROVE  Unboxed(PlaceAll(x, q))
<1>1. PICK f : /\ f[0] = x /\ PlaceAll(x, q) = f[N]
               /\ \A k \in 1..N : f[k] = PlaceCell(f[k - 1], q[k])
  <2>1. Indexed(q, N)
    OBVIOUS
  <2>2. \E f : /\ f[0] = x /\ PlaceAll(x, q) = f[N]
               /\ \A k \in 1..N : f[k] = PlaceCell(f[k - 1], q[k])
    BY <2>1, PlaceAllRuns
  <2>3. QED BY <2>2
<1>0. N \in Nat
  BY DEF Indexed
<1> DEFINE Bad == {k \in 0..N : ~ Unboxed(f[k])}
<1>2. Bad = {}
  <2> SUFFICES ASSUME Bad # {} PROVE FALSE
    OBVIOUS
  <2> DEFINE D == 0..N
  <2>0. IsFiniteSet(D) /\ Bad \in SUBSET D /\ D \in SUBSET Int
    BY <1>0, FS_Interval
  <2>1. Bad \in SUBSET Int /\ IsFiniteSet(Bad)
    BY <2>0, FS_Subset
  <2>2. PICK k \in Bad : \A j \in Bad : k <= j
    BY <2>1, MinIs
  <2>3. k # 0
    BY <1>1
  <2>4. k \in 1..N /\ k - 1 \in 0..N /\ ~(k <= k - 1)
    BY <1>0, <2>3
  <2>5. Unboxed(f[k - 1])
    BY <2>2, <2>4
  <2>6. QED BY <1>1, <2>4, <2>5, PlaceCellUnboxed
<1>3. N \in 0..N
  BY <1>0
<1>4. QED BY <1>1, <1>2, <1>3

LEMMA RowsPlacedUnboxed ==
    ASSUME NEW T, NEW q \in Seq(Seq(T)), NEW x, Unboxed(x)
    PROVE  Unboxed(RowsPlaced(x, q))
<1> DEFINE N == Len(q)
<1>0. N \in Nat /\ DOMAIN q = 1..N /\ \A k \in 1..N : q[k] \in Seq(T)
  BY SeqHas
<1> HIDE DEF N
<1>1. PICK f : /\ f[0] = x /\ RowsPlaced(x, q) = f[N]
               /\ \A k \in 1..N : f[k] = RowPlaced(f[k - 1], q[k])
  <2>1. Indexed(q, N)
    BY <1>0 DEF Indexed
  <2>2. \E f : /\ f[0] = x /\ RowsPlaced(x, q) = f[N]
               /\ \A k \in 1..N : f[k] = RowPlaced(f[k - 1], q[k])
    BY <2>1, RowsPlacedRuns
  <2>3. QED BY <2>2
<1> DEFINE Bad == {k \in 0..N : ~ Unboxed(f[k])}
<1>2. Bad = {}
  <2> SUFFICES ASSUME Bad # {} PROVE FALSE
    OBVIOUS
  <2> DEFINE D == 0..N
  <2>0. IsFiniteSet(D) /\ Bad \in SUBSET D /\ D \in SUBSET Int
    BY <1>0, FS_Interval
  <2>1. Bad \in SUBSET Int /\ IsFiniteSet(Bad)
    BY <2>0, FS_Subset
  <2>2. PICK k \in Bad : \A j \in Bad : k <= j
    BY <2>1, MinIs
  <2>3. k # 0
    BY <1>1
  <2>4. k \in 1..N /\ k - 1 \in 0..N /\ ~(k <= k - 1)
    BY <1>0, <2>3
  <2>5. Unboxed(f[k - 1])
    BY <2>2, <2>4
  <2>6. Indexed(q[k], Len(q[k]))
    BY <1>0, <2>4, SeqHas DEF Indexed
  <2> DEFINE y == PlaceAll(f[k - 1], q[k])
  <2>7. Unboxed(y)
    BY <2>5, <2>6, PlaceAllUnboxed
  <2>8. f[k] = CloseRow(y)
    BY <1>1, <2>4 DEF RowPlaced
  <2> HIDE DEF y
  <2>9. "cells" \in DOMAIN CloseRow(y) /\ CloseRow(y).cells = y.cells
    BY <2>7 DEF Unboxed, CloseRow
  <2>10. Unboxed(CloseRow(y))
    BY <2>7, <2>9 DEF Unboxed
  <2>11. QED BY <2>4, <2>8, <2>10
<1>3. N \in 0..N
  BY <1>0
<1>4. QED BY <1>1, <1>2, <1>3

LEMMA HtmlCellsUnboxed ==
    ASSUME NEW T, NEW html \in Seq(Seq(T)), NEW box, NEW c \in ToSet(HtmlTable(html, box).cells)
    PROVE  c.box = NoBox
<1> DEFINE sizes == FlattenSeq(html)
           reach == FoldLeft(LAMBDA m, s : m + s[2], 0, sizes)
           start == [row |-> 0, col |-> 0, cells |-> <<>>, spans |-> [k \in 0..reach |-> 0]]
           last == RowsPlaced(start, html)
<1>1. HtmlTable(html, box).cells = last.cells
  BY DEF HtmlTable, Table, RowsPlaced
<1>2. Unboxed(start)
  <2>1. "cells" \in DOMAIN start /\ start.cells = <<>>
    OBVIOUS
  <2> HIDE DEF start
  <2> DEFINE S == {e \in {start} : FALSE}
  <2>2. \A e \in S : e.box = NoBox
    OBVIOUS
  <2> HIDE DEF S
  <2>3. start.cells \in Seq(S)
    BY <2>1
  <2>4. QED BY <2>1, <2>2, <2>3 DEF Unboxed
<1> HIDE DEF start
<1>3. Unboxed(last)
  BY <1>2, RowsPlacedUnboxed
<1> HIDE DEF last
<1>4. PICK S : last.cells \in Seq(S) /\ \A e \in S : e.box = NoBox
  BY <1>3 DEF Unboxed
<1>5. c \in S
  BY <1>1, <1>4, SeqHas DEF ToSet
<1>6. QED BY <1>4, <1>5

LEMMA BlocksAreSound ==
    ASSUME NEW d \in Docs, NEW i \in DOMAIN d.units, Accepted(d.units[i]),
           NEW t \in ToSet(E2ePage(d.units[i]).tables)
    PROVE  Sound(t)
<1> DEFINE u == d.units[i]
           S == {k \in DOMAIN u.html : HtmlTableOf(u, k).rows > 0 /\ HtmlTableOf(u, k).cols > 0}
           T == (Nat \ {0}) \X (Nat \ {0})
           H == [rows : Seq(Seq(T)), box : Bounding]
           at == WithCells(u)
<1>1. u.html \in Seq(H) /\ Fits(t) /\ Disjoint(t.cells)
  BY AnswersAssumption DEF Accepted
<1>2. t \in ToSet(E2ePage(u).tables)
  OBVIOUS
<1>3. \A h \in H : h.rows \in Seq(Seq(T))
  OBVIOUS
<1> HIDE DEF u, H, T
<1>4. DOMAIN u.html = 1..Len(u.html) /\ Len(u.html) \in Nat
      /\ \A k \in DOMAIN u.html : u.html[k].rows \in Seq(Seq(T))
  BY <1>1, <1>3, SeqHas
<1>5. S \in SUBSET Int /\ IsFiniteSet(S)
  <2> DEFINE D == DOMAIN u.html
  <2>1. IsFiniteSet(D) /\ S \in SUBSET D /\ D \in SUBSET Int
    BY <1>4, FS_Interval
  <2>2. QED BY <2>1, FS_Subset
<1>6. at = ByNumber(S)
  BY DEF WithCells, Ordered, ByNumber, NumberAt
<1> HIDE DEF S
<1>7. Enumerates(at, S, Up(S))
  BY <1>5, <1>6, ByNumberIs
<1> HIDE DEF at
<1>8. E2ePage(u).tables = [m \in DOMAIN at |-> HtmlTableOf(u, at[m])]
  BY DEF E2ePage, Page, at
<1>9. PICK m \in DOMAIN at : t = HtmlTableOf(u, at[m])
  BY <1>2, <1>8 DEF ToSet
<1>10. at[m] \in S
  BY <1>7, <1>9, SeqHas DEF Enumerates
<1>11. t = HtmlTable(u.html[at[m]].rows, u.html[at[m]].box) /\ u.html[at[m]].rows \in Seq(Seq(T))
  BY <1>4, <1>9, <1>10 DEF HtmlTableOf, S
<1>12. \A c \in ToSet(t.cells) : c.box = NoBox
  BY <1>11, HtmlCellsUnboxed
<1>13. QED BY <1>1, <1>12 DEF Sound

-----------------------------------------------------------------------------
\* A DOCX table.

KeyAt(grid, r, c) == IF c \in DOMAIN grid[r] THEN grid[r][c] ELSE "none"
RightOf(grid, r, c) == Min({k \in 1..Len(grid[r]) : KeyAt(grid, r, c + k) # KeyAt(grid, r, c)})
DownOf(grid, r, c) == Min({k \in 1..Len(grid) :
                             r + k > Len(grid) \/ KeyAt(grid, r + k, c) # KeyAt(grid, r, c)})
DocxCell(grid, p) == Cell(p[1] - 1, p[2] - 1, DownOf(grid, p[1], p[2]), RightOf(grid, p[1], p[2]), NoBox)
Scanned(grid, acc, p) ==
    IF \/ <<p[1] - 1, p[2] - 1>> \in Covered(ToSet(acc))
       \/ \E d \in ToSet(acc) : d.row = p[1] - 1 /\ grid[p[1]][d.col + 1] = grid[p[1]][p[2]]
    THEN acc ELSE Append(acc, DocxCell(grid, p))
ScanAll(grid, x, q) == FoldLeft(LAMBDA acc, p : Scanned(grid, acc, p), x, q)
Looked(grid) == {p \in (DOMAIN grid) \X (1..Len(grid[1])) : p[2] \in DOMAIN grid[p[1]]}

LEMMA DocxForm ==
    ASSUME NEW grid
    PROVE  DocxTable(grid) = Table(Len(grid), Len(grid[1]), ScanAll(grid, <<>>, ByPlace(Looked(grid))), NoBox)
BY DEF DocxTable, ScanAll, Scanned, DocxCell, DownOf, RightOf, KeyAt, Looked, Ordered, ByPlace, PlaceAt

LEMMA ScanRuns ==
    ASSUME NEW grid, NEW x, NEW q, NEW N, Indexed(q, N)
    PROVE  \E f : /\ f[0] = x /\ ScanAll(grid, x, q) = f[N]
                  /\ \A k \in 1..N : f[k] = Scanned(grid, f[k - 1], q[k])
<1> N \in Nat /\ DOMAIN q = 1..N
  BY DEF Indexed
<1> DEFINE Good(h, m) == h = [T \in SUBSET (1..m) |-> IF T = {} THEN x ELSE Scanned(grid, h[T \ {Max(T)}], q[Max(T)])]
           Bad == {m \in 0..N : ~ \E h : Good(h, m)}
           iter[T \in SUBSET DOMAIN q] ==
               IF T = {} THEN x ELSE LET m == Max(T) IN Scanned(grid, iter[T \ {m}], q[m])
<1>1. ScanAll(grid, x, q) = iter[DOMAIN q]
  BY DEF ScanAll, FoldLeft, MapThenFoldSet
<1>2. \E h : Good(h, 0)
  <2> DEFINE h == [T \in SUBSET (1..0) |-> x]
  <2>1. 1..0 = {} /\ \A T \in SUBSET (1..0) : T = {}
    OBVIOUS
  <2>2. Good(h, 0)
    BY <2>1
  <2>3. QED BY <2>2
<1>3. ASSUME NEW m \in 0..(N - 1), NEW h, Good(h, m) PROVE \E g : Good(g, m + 1)
  <2> DEFINE z == m + 1
             D == 1..z
             g == [T \in SUBSET D |-> IF z \in T THEN Scanned(grid, h[T \ {z}], q[z]) ELSE h[T]]
             of(T) == IF T = {} THEN x ELSE Scanned(grid, g[T \ {Max(T)}], q[Max(T)])
  <2>1. z \in Nat /\ IsFiniteSet(D) /\ D \in SUBSET Int /\ z \in D
        /\ \A k \in D : k <= z /\ (k # z => k \in 1..m)
    BY FS_Interval
  <2>2. \A T \in SUBSET D : z \notin T => T \in SUBSET (1..m)
    BY <2>1
  <2>3. \A T \in SUBSET (1..m) : T \in SUBSET D /\ z \notin T
    OBVIOUS
  <2>4. \A T \in SUBSET (1..m) : h[T] = IF T = {} THEN x ELSE Scanned(grid, h[T \ {Max(T)}], q[Max(T)])
    BY <1>3
  <2>5. \A T \in SUBSET D : T # {} => Max(T) \in T /\ \A k \in T : k <= Max(T)
    <3> SUFFICES ASSUME NEW T \in SUBSET D, T # {} PROVE Max(T) \in T /\ \A k \in T : k <= Max(T)
      OBVIOUS
    <3>1. T \in SUBSET Int /\ IsFiniteSet(T)
      BY <2>1, FS_Subset
    <3>2. QED BY <3>1, MaxIs
  <2> HIDE DEF Good, D
  <2>6. \A T \in SUBSET D : g[T] = IF z \in T THEN Scanned(grid, h[T \ {z}], q[z]) ELSE h[T]
    OBVIOUS
  <2> HIDE DEF g, z
  <2>7. ASSUME NEW T \in SUBSET D PROVE g[T] = of(T)
    <3>1. CASE z \in T
      <4>1. Max(T) = z
        <5>1. Max(T) \in T /\ z <= Max(T)
          BY <2>5, <3>1
        <5>2. Max(T) <= z /\ Max(T) \in Int
          BY <2>1, <5>1
        <5>3. QED BY <2>1, <5>1, <5>2
      <4>2. T \ {z} \in SUBSET D /\ z \notin T \ {z}
        OBVIOUS
      <4>3. g[T \ {z}] = h[T \ {z}]
        BY <2>6, <4>2
      <4>4. g[T] = Scanned(grid, h[T \ {z}], q[z])
        BY <2>6, <3>1
      <4>5. QED BY <3>1, <4>1, <4>3, <4>4
    <3>2. CASE z \notin T
      <4>1. g[T] = h[T] /\ T \in SUBSET (1..m)
        BY <2>2, <2>6, <3>2
      <4>2. CASE T = {}
        BY <2>4, <4>1, <4>2
      <4>3. CASE T # {}
        <5> DEFINE t == Max(T)
        <5>1. T \ {t} \in SUBSET D /\ z \notin T \ {t}
          BY <3>2
        <5>2. g[T \ {t}] = h[T \ {t}]
          BY <2>6, <5>1
        <5>3. h[T] = Scanned(grid, h[T \ {t}], q[t])
          BY <2>4, <4>1, <4>3
        <5>4. QED BY <4>1, <4>3, <5>2, <5>3
      <4>4. QED BY <4>2, <4>3
    <3>3. QED BY <3>1, <3>2
  <2>8. g = [T \in SUBSET D |-> g[T]]
    BY DEF g
  <2>9. g = [T \in SUBSET D |-> of(T)]
    BY <2>7, <2>8
  <2>10. Good(g, z)
    BY <2>9 DEF Good, D
  <2>11. QED BY <2>10 DEF z
<1> HIDE DEF Good
<1>4. Bad = {}
  <2> SUFFICES ASSUME Bad # {} PROVE FALSE
    OBVIOUS
  <2>1. Bad \in SUBSET (0..N) /\ IsFiniteSet(0..N)
    BY FS_Interval
  <2>2. Bad \in SUBSET Int /\ IsFiniteSet(Bad)
    BY <2>1, FS_Subset
  <2> DEFINE b == Min(Bad)
  <2>3. b \in Bad /\ \A k \in Bad : b <= k
    BY <2>2, MinIs
  <2> HIDE DEF b
  <2>4. b \in 0..N /\ ~ \E h : Good(h, b)
    BY <2>3
  <2>5. b # 0
    BY <1>2, <2>4
  <2> DEFINE a == b - 1
  <2>6. a \in 0..(N - 1) /\ a + 1 = b /\ a \in 0..N /\ ~ (b <= a)
    BY <2>4, <2>5
  <2> HIDE DEF a
  <2>7. a \notin Bad
    BY <2>3, <2>6
  <2>8. \E h : Good(h, a)
    BY <2>6, <2>7
  <2>9. \E h : Good(h, a + 1)
    BY <1>3, <2>6, <2>8
  <2>10. QED BY <2>4, <2>6, <2>9
<1>5. PICK h : Good(h, N)
  BY <1>4
<1>6. h = [T \in SUBSET DOMAIN q |-> IF T = {} THEN x ELSE LET m == Max(T) IN Scanned(grid, h[T \ {m}], q[m])]
  BY <1>5 DEF Good
<1>7. iter = [T \in SUBSET DOMAIN q |-> IF T = {} THEN x ELSE LET m == Max(T) IN Scanned(grid, iter[T \ {m}], q[m])]
  BY <1>6
<1> HIDE DEF iter
<1> DEFINE f == [k \in 0..N |-> iter[1..k]]
<1>8. f[0] = x /\ f[N] = iter[DOMAIN q]
  <2>1. 1..0 = {} /\ 0 \in 0..N /\ N \in 0..N
    OBVIOUS
  <2>2. QED BY <1>7, <2>1
<1>9. \A k \in 1..N : f[k] = Scanned(grid, f[k - 1], q[k])
  <2> SUFFICES ASSUME NEW k \in 1..N PROVE f[k] = Scanned(grid, f[k - 1], q[k])
    OBVIOUS
  <2> DEFINE D == 1..k
  <2>1. k \in 0..N /\ k - 1 \in 0..N /\ D \in SUBSET (1..N) /\ D # {} /\ Max(D) = k /\ D \ {Max(D)} = 1..(k - 1)
    BY Within1N
  <2> HIDE DEF D
  <2>2. iter[D] = Scanned(grid, iter[1..(k - 1)], q[k])
    BY <1>7, <2>1
  <2>3. QED BY <2>1, <2>2 DEF D
<1> HIDE DEF f
<1>10. QED BY <1>1, <1>8, <1>9

\* Where a name fills the rectangle from a to b.
Fills(grid, a, b, key) ==
    /\ a \in GridPlaces(grid) /\ b \in GridPlaces(grid) /\ key # "none"
    /\ \A p : p \in GridPlaces(grid) /\ grid[p[1]][p[2]] = key <=> p \in (a[1]..b[1]) \X (a[2]..b[2])

LEMMA GridPlacesAre ==
    ASSUME NEW grid, Regular(grid)
    PROVE  /\ Len(grid) \in Nat /\ DOMAIN grid = 1..Len(grid)
           /\ \A r \in DOMAIN grid : Len(grid[r]) \in Nat /\ DOMAIN grid[r] = 1..Len(grid[r])
           /\ \A p : p \in GridPlaces(grid)
                       <=> p \in Int \X Int /\ p[1] \in DOMAIN grid /\ p[2] \in DOMAIN grid[p[1]]
           /\ \A p \in GridPlaces(grid) : \E a, b : Fills(grid, a, b, grid[p[1]][p[2]])
<1>1. grid \in Seq(Seq(STRING))
  BY DEF Regular
<1>2. Len(grid) \in Nat /\ DOMAIN grid = 1..Len(grid) /\ \A r \in DOMAIN grid : grid[r] \in Seq(STRING)
  BY <1>1, SeqHas
<1>3. \A r \in DOMAIN grid : Len(grid[r]) \in Nat /\ DOMAIN grid[r] = 1..Len(grid[r])
  BY <1>2, SeqHas
<1>4. ASSUME NEW p
      PROVE  p \in GridPlaces(grid) <=> p \in Int \X Int /\ p[1] \in DOMAIN grid /\ p[2] \in DOMAIN grid[p[1]]
  <2>1. p \in GridPlaces(grid) <=> \E r \in DOMAIN grid : p \in {r} \X DOMAIN grid[r]
    BY DEF GridPlaces
  <2>2. ASSUME NEW r \in DOMAIN grid, p \in {r} \X DOMAIN grid[r]
        PROVE  p \in Int \X Int /\ p[1] \in DOMAIN grid /\ p[2] \in DOMAIN grid[p[1]]
    <3>1. r \in Int /\ \A c \in DOMAIN grid[r] : c \in Int
      BY <1>2, <1>3
    <3>2. QED BY <2>2, <3>1
  <2>3. ASSUME p \in Int \X Int, p[1] \in DOMAIN grid, p[2] \in DOMAIN grid[p[1]]
        PROVE  \E r \in DOMAIN grid : p \in {r} \X DOMAIN grid[r]
    BY <2>3
  <2>4. QED BY <2>1, <2>2, <2>3
<1>5. ASSUME NEW p \in GridPlaces(grid) PROVE \E a, b : Fills(grid, a, b, grid[p[1]][p[2]])
  <2> DEFINE key == grid[p[1]][p[2]]
  <2>1. key # "none" /\ \E a, b \in GridPlaces(grid) : Filling(grid, key) = (a[1]..b[1]) \X (a[2]..b[2])
    BY DEF Regular
  <2> HIDE DEF key
  <2>2. PICK a \in GridPlaces(grid), b \in GridPlaces(grid) : Filling(grid, key) = (a[1]..b[1]) \X (a[2]..b[2])
    BY <2>1
  <2>3. \A q : q \in GridPlaces(grid) /\ grid[q[1]][q[2]] = key <=> q \in Filling(grid, key)
    BY DEF Filling
  <2>4. Fills(grid, a, b, key)
    BY <2>1, <2>2, <2>3 DEF Fills
  <2>5. QED BY <2>4 DEF key
<1>6. QED BY <1>2, <1>3, <1>4, <1>5

\* The cell begun at the first place of a rectangle covers it.
LEMMA RectangleIs ==
    ASSUME NEW grid, Regular(grid), NEW a, NEW b, NEW key, Fills(grid, a, b, key),
           NEW p \in GridPlaces(grid), grid[p[1]][p[2]] = key
    PROVE  /\ a[1] \in Int /\ a[2] \in Int /\ b[1] \in Int /\ b[2] \in Int
           /\ a[1] <= p[1] /\ p[1] <= b[1] /\ a[2] <= p[2] /\ p[2] <= b[2]
           /\ a \in GridPlaces(grid) /\ grid[a[1]][a[2]] = key
           /\ DownOf(grid, a[1], a[2]) = b[1] - a[1] + 1 /\ RightOf(grid, a[1], a[2]) = b[2] - a[2] + 1
<1> DEFINE a1 == a[1]
           a2 == a[2]
           b1 == b[1]
           b2 == b[2]
           H == Len(grid)
           W == Len(grid[a1])
<1>1. /\ H \in Nat /\ DOMAIN grid = 1..H
      /\ \A r \in DOMAIN grid : Len(grid[r]) \in Nat /\ DOMAIN grid[r] = 1..Len(grid[r])
      /\ \A q : q \in GridPlaces(grid)
                       <=> q \in Int \X Int /\ q[1] \in DOMAIN grid /\ q[2] \in DOMAIN grid[q[1]]
  BY GridPlacesAre
<1>2. /\ a \in GridPlaces(grid) /\ b \in GridPlaces(grid) /\ key # "none"
      /\ \A q : q \in GridPlaces(grid) /\ grid[q[1]][q[2]] = key <=> q \in (a1..b1) \X (a2..b2)
  BY DEF Fills
<1>3. a1 \in 1..H /\ b1 \in 1..H /\ a2 \in Int /\ b2 \in Int /\ a = <<a1, a2>>
  BY <1>1, <1>2
<1>4. p[1] \in a1..b1 /\ p[2] \in a2..b2
  BY <1>2
<1> HIDE DEF a1, a2, b1, b2, H
<1>5. a1 <= p[1] /\ p[1] <= b1 /\ a2 <= p[2] /\ p[2] <= b2 /\ a1 <= b1 /\ a2 <= b2
  BY <1>3, <1>4
<1>6. \A r, c : r \in a1..b1 /\ c \in a2..b2
                  <=> r \in Int /\ c \in Int /\ r \in DOMAIN grid /\ c \in DOMAIN grid[r] /\ grid[r][c] = key
  <2> SUFFICES ASSUME NEW r, NEW c
               PROVE  r \in a1..b1 /\ c \in a2..b2
                  <=> r \in Int /\ c \in Int /\ r \in DOMAIN grid /\ c \in DOMAIN grid[r] /\ grid[r][c] = key
    OBVIOUS
  <2> DEFINE q == <<r, c>>
  <2>1. q[1] = r /\ q[2] = c /\ (q \in Int \X Int <=> r \in Int /\ c \in Int)
        /\ (q \in (a1..b1) \X (a2..b2) <=> r \in a1..b1 /\ c \in a2..b2)
    OBVIOUS
  <2> HIDE DEF q
  <2>2. q \in GridPlaces(grid) /\ grid[q[1]][q[2]] = key <=> q \in (a1..b1) \X (a2..b2)
    BY <1>2
  <2>3. q \in GridPlaces(grid) <=> q \in Int \X Int /\ q[1] \in DOMAIN grid /\ q[2] \in DOMAIN grid[q[1]]
    BY <1>1
  <2>4. QED BY <2>1, <2>2, <2>3
<1>7. a1 \in a1..b1 /\ a2 \in a2..b2 /\ b2 \in a2..b2
  BY <1>3, <1>5
<1>8. a1 \in DOMAIN grid /\ a2 \in DOMAIN grid[a1] /\ b2 \in DOMAIN grid[a1] /\ grid[a1][a2] = key
  BY <1>6, <1>7
<1>9. W \in Nat /\ DOMAIN grid[a1] = 1..W /\ a2 \in 1..W /\ b2 \in 1..W
  BY <1>1, <1>8
<1> HIDE DEF W
<1>10. KeyAt(grid, a1, a2) = key
  BY <1>8 DEF KeyAt
<1>11. RightOf(grid, a1, a2) = b2 - a2 + 1
  <2> DEFINE S == {k \in 1..W : KeyAt(grid, a1, a2 + k) # key}
             z == b2 - a2 + 1
  <2>1. RightOf(grid, a1, a2) = Min(S)
    BY <1>10 DEF RightOf, W
  <2>2. z \in 1..W
    BY <1>3, <1>5, <1>9
  <2>3. a2 + z \notin a2..b2 /\ a2 + z \in Int
    BY <1>3
  <2>4. KeyAt(grid, a1, a2 + z) # key
    <3> DEFINE c == a2 + z
    <3>1. c \notin a2..b2 /\ c \in Int
      BY <2>3
    <3> HIDE DEF c
    <3>2. ~(c \in DOMAIN grid[a1] /\ grid[a1][c] = key)
      BY <1>3, <1>6, <1>7, <1>8, <3>1
    <3>3. KeyAt(grid, a1, c) # key
      BY <1>2, <3>2 DEF KeyAt
    <3>4. QED BY <3>3 DEF c
  <2>5. ASSUME NEW k \in 1..W, k < z PROVE KeyAt(grid, a1, a2 + k) = key
    <3> DEFINE c == a2 + k
    <3>1. c \in a2..b2
      BY <1>3, <2>5
    <3> HIDE DEF c
    <3>2. c \in DOMAIN grid[a1] /\ grid[a1][c] = key
      BY <1>6, <1>7, <3>1
    <3>3. KeyAt(grid, a1, c) = key
      BY <3>2 DEF KeyAt
    <3>4. QED BY <3>3 DEF c
  <2>6. S \in SUBSET Int /\ IsFiniteSet(S)
    <3> DEFINE D == 1..W
    <3>1. IsFiniteSet(D) /\ S \in SUBSET D /\ D \in SUBSET Int
      BY <1>9, FS_Interval
    <3>2. QED BY <3>1, FS_Subset
  <2>7. z \in S /\ \A k \in S : k \in Int /\ ~(k < z)
    BY <2>2, <2>4, <2>5
  <2>8. z \in Int
    BY <1>3
  <2> HIDE DEF S, z
  <2>9. Min(S) \in S /\ Min(S) <= z
    BY <2>6, <2>7, MinIs
  <2>10. Min(S) = z
    <3> DEFINE least == Min(S)
    <3>1. least \in Int /\ least <= z /\ ~(least < z)
      BY <2>7, <2>9
    <3> HIDE DEF least
    <3>2. least = z
      BY <2>8, <3>1
    <3>3. QED BY <3>2 DEF least
  <2>11. QED BY <2>1, <2>10 DEF z
<1>12. DownOf(grid, a1, a2) = b1 - a1 + 1
  <2> DEFINE S == {k \in 1..H : a1 + k > H \/ KeyAt(grid, a1 + k, a2) # key}
             z == b1 - a1 + 1
  <2>1. DownOf(grid, a1, a2) = Min(S)
    BY <1>10 DEF DownOf, H
  <2>2. z \in 1..H
    BY <1>1, <1>3, <1>5
  <2>3. a1 + z \notin a1..b1 /\ a1 + z \in Int /\ 1 <= a1 + z
    BY <1>3, <1>5
  <2>4. a1 + z > H \/ KeyAt(grid, a1 + z, a2) # key
    <3> DEFINE r == a1 + z
    <3>1. r \notin a1..b1 /\ r \in Int /\ 1 <= r
      BY <2>3
    <3> HIDE DEF r
    <3>2. CASE r \in DOMAIN grid
      <4>1. ~(a2 \in DOMAIN grid[r] /\ grid[r][a2] = key)
        BY <1>3, <1>6, <1>7, <3>1, <3>2
      <4>2. KeyAt(grid, r, a2) # key
        BY <1>2, <4>1 DEF KeyAt
      <4>3. QED BY <4>2 DEF r
    <3>3. CASE r \notin DOMAIN grid
      <4>1. r > H
        BY <1>1, <3>1, <3>3
      <4>2. QED BY <4>1 DEF r
    <3>4. QED BY <3>2, <3>3
  <2>5. ASSUME NEW k \in 1..H, k < z PROVE ~(a1 + k > H) /\ KeyAt(grid, a1 + k, a2) = key
    <3> DEFINE r == a1 + k
    <3>1. r \in a1..b1 /\ ~(r > H)
      BY <1>1, <1>3, <2>5
    <3> HIDE DEF r
    <3>2. a2 \in DOMAIN grid[r] /\ grid[r][a2] = key
      BY <1>6, <1>7, <3>1
    <3>3. KeyAt(grid, r, a2) = key
      BY <3>2 DEF KeyAt
    <3>4. QED BY <3>1, <3>3 DEF r
  <2>6. S \in SUBSET Int /\ IsFiniteSet(S)
    <3> DEFINE D == 1..H
    <3>1. IsFiniteSet(D) /\ S \in SUBSET D /\ D \in SUBSET Int
      BY <1>1, FS_Interval
    <3>2. QED BY <3>1, FS_Subset
  <2>7. z \in S /\ \A k \in S : k \in Int /\ ~(k < z)
    BY <2>2, <2>4, <2>5
  <2>8. z \in Int
    BY <1>3
  <2> HIDE DEF S, z
  <2>9. Min(S) \in S /\ Min(S) <= z
    BY <2>6, <2>7, MinIs
  <2>10. Min(S) = z
    <3> DEFINE least == Min(S)
    <3>1. least \in Int /\ least <= z /\ ~(least < z)
      BY <2>7, <2>9
    <3> HIDE DEF least
    <3>2. least = z
      BY <2>8, <3>1
    <3>3. QED BY <3>2 DEF least
  <2>11. QED BY <2>1, <2>10 DEF z
<1>13. /\ a1 \in Int /\ a2 \in Int /\ b1 \in Int /\ b2 \in Int
       /\ a1 <= p[1] /\ p[1] <= b1 /\ a2 <= p[2] /\ p[2] <= b2
       /\ a \in GridPlaces(grid) /\ grid[a1][a2] = key
       /\ DownOf(grid, a1, a2) = b1 - a1 + 1 /\ RightOf(grid, a1, a2) = b2 - a2 + 1
  BY <1>2, <1>3, <1>5, <1>8, <1>11, <1>12
<1>14. QED BY <1>13 DEF a1, a2, b1, b2

KeyOf(grid, e) == grid[e.row + 1][e.col + 1]
\* A cell begun at the first place of a rectangle.
Rectangular(grid, e) ==
    \E a, b : /\ a \in GridPlaces(grid) /\ Fills(grid, a, b, grid[a[1]][a[2]]) /\ a[1] <= b[1] /\ a[2] <= b[2]
              /\ e = DocxCell(grid, a)

\* The cell takes the places of its own name.
Occupies(grid, e) ==
    \A x, y : <<x, y>> \in Slots(e)
        <=> x \in Int /\ y \in Int /\ <<x + 1, y + 1>> \in GridPlaces(grid) /\ grid[x + 1][y + 1] = KeyOf(grid, e)

LEMMA RectangularIs ==
    ASSUME NEW grid, Regular(grid), NEW e, Rectangular(grid, e)
    PROVE  e.box = NoBox /\ Occupies(grid, e) /\ Slots(e) \in SUBSET (Int \X Int)
<1>1. PICK a, b : /\ a \in GridPlaces(grid) /\ Fills(grid, a, b, grid[a[1]][a[2]]) /\ a[1] <= b[1] /\ a[2] <= b[2]
                  /\ e = DocxCell(grid, a)
  BY DEF Rectangular
<1> DEFINE a1 == a[1]
           a2 == a[2]
           b1 == b[1]
           b2 == b[2]
           key == grid[a1][a2]
<1>2. /\ a1 \in Int /\ a2 \in Int /\ b1 \in Int /\ b2 \in Int
      /\ DownOf(grid, a1, a2) = b1 - a1 + 1 /\ RightOf(grid, a1, a2) = b2 - a2 + 1
  BY <1>1, RectangleIs
<1>3. \A p : p \in GridPlaces(grid) /\ grid[p[1]][p[2]] = key <=> p \in (a1..b1) \X (a2..b2)
  BY <1>1 DEF Fills
<1>4. /\ e.row = a1 - 1 /\ e.col = a2 - 1 /\ e.box = NoBox
      /\ e.rs = DownOf(grid, a1, a2) /\ e.cs = RightOf(grid, a1, a2)
  BY <1>1 DEF DocxCell, Cell
<1>5. a1 - 1 + 1 = a1 /\ a2 - 1 + 1 = a2
  BY <1>2
<1>6. KeyOf(grid, e) = key
  BY <1>4, <1>5 DEF KeyOf
<1> HIDE DEF a1, a2, b1, b2, key
<1>7. a1 - 1 + (b1 - a1 + 1) - 1 = b1 - 1 /\ a2 - 1 + (b2 - a2 + 1) - 1 = b2 - 1
  BY <1>2
<1>8. Slots(e) = (a1 - 1 .. b1 - 1) \X (a2 - 1 .. b2 - 1)
  BY <1>2, <1>4, <1>7 DEF Slots
<1>9. ASSUME NEW x, NEW y
      PROVE  <<x, y>> \in Slots(e)
                <=> x \in Int /\ y \in Int /\ <<x + 1, y + 1>> \in GridPlaces(grid) /\ grid[x + 1][y + 1] = key
  <2>1. <<x, y>> \in Slots(e) <=> x \in a1 - 1 .. b1 - 1 /\ y \in a2 - 1 .. b2 - 1
    BY <1>8
  <2> DEFINE p == <<x + 1, y + 1>>
  <2>2. p[1] = x + 1 /\ p[2] = y + 1
        /\ (p \in (a1..b1) \X (a2..b2) <=> x + 1 \in a1..b1 /\ y + 1 \in a2..b2)
    OBVIOUS
  <2> HIDE DEF p
  <2>3. p \in GridPlaces(grid) /\ grid[x + 1][y + 1] = key <=> x + 1 \in a1..b1 /\ y + 1 \in a2..b2
    BY <1>3, <2>2
  <2>4. x \in Int /\ y \in Int => (x \in a1 - 1 .. b1 - 1 /\ y \in a2 - 1 .. b2 - 1
                                      <=> x + 1 \in a1..b1 /\ y + 1 \in a2..b2)
    BY <1>2
  <2>5. x \in a1 - 1 .. b1 - 1 /\ y \in a2 - 1 .. b2 - 1 => x \in Int /\ y \in Int
    BY <1>2
  <2>6. QED BY <2>1, <2>3, <2>4, <2>5 DEF p
<1>10. Slots(e) \in SUBSET (Int \X Int)
  BY <1>2, <1>8
<1>11. Occupies(grid, e)
  BY <1>6, <1>9 DEF Occupies
<1>12. QED BY <1>4, <1>10, <1>11

LEMMA RectanglesApart ==
    ASSUME NEW grid, Regular(grid), NEW c, NEW e, Rectangular(grid, c), Rectangular(grid, e), KeyOf(grid, c) # KeyOf(grid, e)
    PROVE  Slots(c) \cap Slots(e) = {}
<1> SUFFICES ASSUME NEW s \in Slots(c), s \in Slots(e) PROVE FALSE
  OBVIOUS
<1>1. s \in Int \X Int
  <2>1. Slots(c) \in SUBSET (Int \X Int)
    BY RectangularIs
  <2>2. QED BY <2>1
<1>2. PICK x, y : s = <<x, y>>
  BY <1>1
<1>3. <<x, y>> \in Slots(c) /\ <<x, y>> \in Slots(e)
  BY <1>2
<1>4. grid[x + 1][y + 1] = KeyOf(grid, c) /\ grid[x + 1][y + 1] = KeyOf(grid, e)
  <2>1. Occupies(grid, c) /\ Occupies(grid, e)
    BY RectangularIs
  <2>2. QED BY <1>3, <2>1 DEF Occupies
<1>5. QED BY <1>4

LEMMA AppendGrows ==
    ASSUME NEW S, NEW z \in Seq(S), NEW e
    PROVE  /\ Append(z, e) \in Seq(S \cup {e}) /\ Len(z) \in Nat /\ DOMAIN z = 1..Len(z)
           /\ DOMAIN Append(z, e) = 1..(Len(z) + 1)
           /\ \A i \in 1..Len(z) : Append(z, e)[i] = z[i]
           /\ Append(z, e)[Len(z) + 1] = e
<1> DEFINE V == S \cup {e}
           l == Len(z)
<1>1. l \in Nat /\ DOMAIN z = 1..l /\ z = [k \in DOMAIN z |-> z[k]] /\ \A k \in DOMAIN z : z[k] \in S
  BY SeqHas
<1>2. z = [k \in 1..l |-> z[k]] /\ (\A k \in 1..l : z[k] \in V) /\ e \in V
  BY <1>1
<1> HIDE DEF V
<1>3. z \in Seq(V)
  <2> HIDE DEF l
  <2> QED BY <1>1, <1>2, SeqMade
<1>4. Append(z, e) \in Seq(V) /\ Len(Append(z, e)) = l + 1
      /\ (\A i \in 1..l : Append(z, e)[i] = z[i]) /\ Append(z, e)[l + 1] = e
  BY <1>2, <1>3
<1> DEFINE w == Append(z, e)
<1>5. DOMAIN w = 1..Len(w)
  <2> HIDE DEF w
  <2>1. w \in Seq(V)
    BY <1>4 DEF w
  <2>2. QED BY <2>1, SeqHas
<1>6. QED BY <1>1, <1>4, <1>5 DEF V

\* What the scan has laid after the first k places of q.
Laying(grid, q, acc, k) ==
    /\ \E S : acc \in Seq(S) /\ \A e \in S : Rectangular(grid, e)
    /\ \A i, j \in DOMAIN acc : i < j => KeyOf(grid, acc[i]) # KeyOf(grid, acc[j])
    /\ \A j \in 1..k : \E i \in DOMAIN acc : KeyOf(grid, acc[i]) = grid[q[j][1]][q[j][2]]
Sequenced(q, S) ==
    Lists(q, S) /\ \A i, j \in DOMAIN q : i < j => Sooner(q[i], q[j])

LEMMA ScanStep ==
    ASSUME NEW grid, Regular(grid), NEW q, Sequenced(q, Looked(grid)),
           NEW k \in DOMAIN q, NEW acc, Laying(grid, q, acc, k - 1)
    PROVE  Laying(grid, q, Scanned(grid, acc, q[k]), k)
<1> DEFINE p == q[k]
           key == grid[p[1]][p[2]]
           p1 == p[1]
           p2 == p[2]
           at == <<p1 - 1, p2 - 1>>
           same == \E d \in ToSet(acc) : d.row = p1 - 1 /\ grid[p1][d.col + 1] = key
           cell == DocxCell(grid, p)
           acc2 == Scanned(grid, acc, p)
<1>1. /\ q \in Seq(Looked(grid)) /\ DOMAIN q = 1..Len(q) /\ Len(q) \in Nat
      /\ \A e : e \in Looked(grid) <=> \E j \in DOMAIN q : q[j] = e
      /\ \A i, j \in DOMAIN q : i < j => Sooner(q[i], q[j])
  BY ListHolds DEF Sequenced
<1>2. p \in Looked(grid) /\ k \in Nat /\ 1 <= k
  BY <1>1
<1>3. PICK S : acc \in Seq(S) /\ \A e \in S : Rectangular(grid, e)
  BY DEF Laying
<1>4. /\ Len(acc) \in Nat /\ DOMAIN acc = 1..Len(acc) /\ \A e \in ToSet(acc) : Rectangular(grid, e)
      /\ \A i \in DOMAIN acc : Rectangular(grid, acc[i]) /\ acc[i] \in ToSet(acc)
  BY <1>3, SeqHas DEF ToSet
<1>5. /\ Len(grid) \in Nat /\ DOMAIN grid = 1..Len(grid)
      /\ \A r \in DOMAIN grid : Len(grid[r]) \in Nat /\ DOMAIN grid[r] = 1..Len(grid[r])
      /\ \A w : w \in GridPlaces(grid) <=> w \in Int \X Int /\ w[1] \in DOMAIN grid /\ w[2] \in DOMAIN grid[w[1]]
      /\ \A w \in GridPlaces(grid) : \E a, b : Fills(grid, a, b, grid[w[1]][w[2]])
  BY GridPlacesAre
<1>6. /\ p1 \in DOMAIN grid /\ p2 \in 1..Len(grid[1]) /\ p2 \in DOMAIN grid[p1] /\ p = <<p1, p2>>
  BY <1>2 DEF Looked
<1>7. p1 \in Int /\ p2 \in Int /\ p \in GridPlaces(grid)
  <2>1. p1 \in Int /\ p2 \in Int
    BY <1>5, <1>6
  <2>2. QED BY <1>5, <1>6, <2>1
<1>8. p1 - 1 + 1 = p1 /\ p2 - 1 + 1 = p2 /\ p1 - 1 \in Int /\ p2 - 1 \in Int
  BY <1>7
<1>9. acc2 = IF at \in Covered(ToSet(acc)) \/ same THEN acc ELSE Append(acc, cell)
  BY DEF Scanned
<1>10. \A e : Rectangular(grid, e) => (at \in Slots(e) <=> key = KeyOf(grid, e))
  <2> SUFFICES ASSUME NEW e, Rectangular(grid, e) PROVE at \in Slots(e) <=> key = KeyOf(grid, e)
    OBVIOUS
  <2> DEFINE x == p1 - 1
             y == p2 - 1
  <2>1. <<x, y>> \in Slots(e)
                <=> x \in Int /\ y \in Int /\ <<x + 1, y + 1>> \in GridPlaces(grid) /\ grid[x + 1][y + 1] = KeyOf(grid, e)
    <3> HIDE DEF x, y
    <3>1. Occupies(grid, e)
      BY RectangularIs
    <3>2. QED BY <3>1 DEF Occupies
  <2>2. <<x + 1, y + 1>> = p /\ x \in Int /\ y \in Int /\ grid[x + 1][y + 1] = key
    BY <1>6, <1>8
  <2>3. QED BY <1>7, <2>1, <2>2
<1>11. /\ \A i, j \in DOMAIN acc : i < j => KeyOf(grid, acc[i]) # KeyOf(grid, acc[j])
       /\ \A j \in 1..(k - 1) : \E i \in DOMAIN acc : KeyOf(grid, acc[i]) = grid[q[j][1]][q[j][2]]
  BY DEF Laying
<1>12. \A j \in 1..k : j = k \/ j \in 1..(k - 1)
  BY <1>2
<1>13. CASE at \in Covered(ToSet(acc)) \/ same
  <2>1. acc2 = acc
    BY <1>9, <1>13
  <2>2. \E e \in ToSet(acc) : KeyOf(grid, e) = key
    <3>1. CASE at \in Covered(ToSet(acc))
      <4>1. PICK e \in ToSet(acc) : at \in Slots(e)
        BY <3>1 DEF Covered
      <4>2. QED BY <1>4, <1>10, <4>1
    <3>2. CASE same
      <4>1. PICK d \in ToSet(acc) : d.row = p1 - 1 /\ grid[p1][d.col + 1] = key
        BY <3>2
      <4>2. KeyOf(grid, d) = grid[p1][d.col + 1]
        BY <1>8, <4>1 DEF KeyOf
      <4>3. QED BY <4>1, <4>2
    <3>3. QED BY <1>13, <3>1, <3>2
  <2>3. PICK m \in DOMAIN acc : KeyOf(grid, acc[m]) = key
    BY <2>2 DEF ToSet
  <2> HIDE DEF acc2, p1, p2, at, same, cell
  <2>4. \A j \in 1..k : \E i \in DOMAIN acc : KeyOf(grid, acc[i]) = grid[q[j][1]][q[j][2]]
    BY <1>11, <1>12, <2>3
  <2>5. Laying(grid, q, acc, k)
    BY <1>3, <1>11, <2>4 DEF Laying
  <2>6. QED BY <2>1, <2>5 DEF acc2
<1>14. CASE ~(at \in Covered(ToSet(acc)) \/ same)
  <2>1. acc2 = Append(acc, cell)
    BY <1>9, <1>14
  <2>2. \A i \in DOMAIN acc : KeyOf(grid, acc[i]) # key
    <3> SUFFICES ASSUME NEW i \in DOMAIN acc, KeyOf(grid, acc[i]) = key PROVE FALSE
      OBVIOUS
    <3>1. at \in Slots(acc[i]) /\ acc[i] \in ToSet(acc)
      BY <1>4, <1>10
    <3>2. at \in Covered(ToSet(acc))
      BY <3>1 DEF Covered
    <3>3. QED BY <1>14, <3>2
  <2>3. PICK a, b : Fills(grid, a, b, key)
    BY <1>5, <1>7
  <2>4. /\ a[1] \in Int /\ a[2] \in Int /\ b[1] \in Int /\ b[2] \in Int
        /\ a[1] <= p1 /\ p1 <= b[1] /\ a[2] <= p2 /\ p2 <= b[2]
        /\ a \in GridPlaces(grid) /\ grid[a[1]][a[2]] = key
    BY <1>7, <2>3, RectangleIs
  <2>5. a = p
    <3> SUFFICES ASSUME a # p PROVE FALSE
      OBVIOUS
    <3>1. a = <<a[1], a[2]>> /\ a[1] \in DOMAIN grid /\ a[2] \in DOMAIN grid[a[1]]
      BY <1>5, <2>4
    <3>2. 1 <= a[2]
      BY <1>5, <3>1
    <3>3. a[2] \in 1..Len(grid[1])
      BY <1>6, <2>4, <3>2
    <3>4. a \in Looked(grid)
      BY <3>1, <3>3 DEF Looked
    <3>5. PICK j \in DOMAIN q : q[j] = a
      BY <1>1, <3>4
    <3>6. a[1] # p1 \/ a[2] # p2
      BY <1>6, <3>1
    <3>7. ~ Sooner(p, a)
      BY <2>4, <1>7 DEF Sooner
    <3>8. j # k /\ ~(k < j)
      BY <1>1, <3>5, <3>7
    <3>9. j \in 1..(k - 1)
      BY <1>1, <1>2, <3>8
    <3>10. PICK i \in DOMAIN acc : KeyOf(grid, acc[i]) = grid[q[j][1]][q[j][2]]
      BY <1>11, <3>9
    <3>11. QED BY <2>2, <2>4, <3>5, <3>10
  <2>6. Rectangular(grid, cell) /\ KeyOf(grid, cell) = key
    <3>1. cell.row = p1 - 1 /\ cell.col = p2 - 1
      BY DEF DocxCell, Cell
    <3>2. KeyOf(grid, cell) = key
      BY <1>8, <3>1 DEF KeyOf
    <3>3. p \in GridPlaces(grid) /\ Fills(grid, p, b, key) /\ p1 <= b[1] /\ p2 <= b[2]
      BY <1>7, <2>3, <2>4, <2>5
    <3>4. Rectangular(grid, cell)
      BY <3>3 DEF Rectangular
    <3>5. QED BY <3>2, <3>4
  <2> DEFINE l == Len(acc)
             V == S \cup {cell}
             new == Append(acc, cell)
  <2>7. /\ new \in Seq(V) /\ l \in Nat /\ DOMAIN acc = 1..l /\ DOMAIN new = 1..(l + 1)
        /\ (\A i \in 1..l : new[i] = acc[i]) /\ new[l + 1] = cell
    BY <1>3, AppendGrows
  <2>8. \A e \in V : Rectangular(grid, e)
    BY <1>3, <2>6
  <2> HIDE DEF acc2, p1, p2, at, same, cell, l, V, new
  <2>9. \A i \in 1..(l + 1) : i \in 1..l \/ i = l + 1
    BY <2>7
  <2>10. \A i \in 1..l : i \in 1..(l + 1) /\ i < l + 1
    BY <2>7
  <2>11. l + 1 \in 1..(l + 1) /\ ~(l + 1 < l + 1)
    BY <2>7
  <2>12. ASSUME NEW i \in DOMAIN new, NEW j \in DOMAIN new, i < j
         PROVE  KeyOf(grid, new[i]) # KeyOf(grid, new[j])
    <3>1. i \in 1..l
      BY <2>7, <2>9, <2>12
    <3>2. CASE j \in 1..l
      BY <1>11, <2>7, <2>12, <3>1, <3>2
    <3>3. CASE j = l + 1
      BY <2>2, <2>6, <2>7, <3>1, <3>3
    <3>4. QED BY <2>7, <2>9, <3>2, <3>3
  <2>13. ASSUME NEW j \in 1..k PROVE \E i \in DOMAIN new : KeyOf(grid, new[i]) = grid[q[j][1]][q[j][2]]
    <3>1. CASE j = k
      BY <2>6, <2>7, <2>11, <3>1
    <3>2. CASE j \in 1..(k - 1)
      <4>1. PICK i \in DOMAIN acc : KeyOf(grid, acc[i]) = grid[q[j][1]][q[j][2]]
        BY <1>11, <3>2
      <4>2. i \in DOMAIN new /\ new[i] = acc[i]
        BY <2>7, <2>10, <4>1
      <4>3. QED BY <4>1, <4>2
    <3>3. QED BY <1>12, <3>1, <3>2
  <2>14. Laying(grid, q, new, k)
    BY <2>7, <2>8, <2>12, <2>13 DEF Laying
  <2>15. QED BY <2>1, <2>14 DEF acc2, new
<1>15. QED BY <1>13, <1>14

LEMMA DocxTableIsSound ==
    ASSUME NEW grid, Regular(grid), Fits(DocxTable(grid))
    PROVE  Sound(DocxTable(grid))
<1> DEFINE P == Looked(grid)
           q == ByPlace(P)
           N == Len(q)
           cells == ScanAll(grid, <<>>, q)
           t == DocxTable(grid)
<1>1. P \in SUBSET (Int \X Int) /\ IsFiniteSet(P)
  <2> DEFINE A == 1..Len(grid)
             B == 1..Len(grid[1])
  <2>1. /\ Len(grid) \in Nat /\ DOMAIN grid = 1..Len(grid)
        /\ \A r \in DOMAIN grid : Len(grid[r]) \in Nat /\ DOMAIN grid[r] = 1..Len(grid[r])
    BY GridPlacesAre
  <2>2. 1 \in DOMAIN grid
    <3>1. grid \in Seq(Seq(STRING)) /\ grid # <<>>
      BY DEF Regular
    <3>2. Len(grid) # 0
      BY <3>1
    <3>3. QED BY <2>1, <3>2
  <2>3. Len(grid[1]) \in Nat
    BY <2>1, <2>2
  <2>4. IsFiniteSet(A) /\ IsFiniteSet(B) /\ A \in SUBSET Int /\ B \in SUBSET Int
    BY SMTT(30), <2>1, <2>3, FS_Interval
  <2>5. P \in SUBSET (A \X B)
    BY <2>1 DEF Looked
  <2> HIDE DEF A, B, P
  <2>6. IsFiniteSet(A \X B)
    BY <2>4, FS_Product
  <2>7. QED BY <2>4, <2>5, <2>6, FS_Subset
<1>2. t.cells = cells /\ t.doubt = "none"
  BY DocxForm DEF Table
<1> HIDE DEF P, cells, t
<1>3. Sequenced(q, P)
  BY <1>1, ByPlaceRuns DEF Sequenced
<1> HIDE DEF q
<1>4. N \in Nat /\ DOMAIN q = 1..N
  BY <1>3, ListHolds DEF Sequenced
<1> HIDE DEF N
<1>5. PICK f : /\ f[0] = <<>> /\ ScanAll(grid, <<>>, q) = f[N]
               /\ \A k \in 1..N : f[k] = Scanned(grid, f[k - 1], q[k])
  <2>1. Indexed(q, N)
    BY <1>4 DEF Indexed
  <2>2. \E f : /\ f[0] = <<>> /\ ScanAll(grid, <<>>, q) = f[N]
               /\ \A k \in 1..N : f[k] = Scanned(grid, f[k - 1], q[k])
    BY <2>1, ScanRuns
  <2>3. QED BY <2>2
<1> DEFINE Bad == {k \in 0..N : ~ Laying(grid, q, f[k], k)}
<1>6. Bad = {}
  <2> SUFFICES ASSUME Bad # {} PROVE FALSE
    OBVIOUS
  <2> DEFINE D == 0..N
  <2>0. IsFiniteSet(D) /\ Bad \in SUBSET D /\ D \in SUBSET Int
    BY <1>4, FS_Interval
  <2>1. Bad \in SUBSET Int /\ IsFiniteSet(Bad)
    BY <2>0, FS_Subset
  <2>2. PICK k \in Bad : \A j \in Bad : k <= j
    BY <2>1, MinIs
  <2>3. k # 0
    <3> DEFINE e == f[0]
               S == {x \in {0} : FALSE}
    <3>1. e = <<>>
      BY <1>5
    <3>2. e \in Seq(S) /\ DOMAIN e = {} /\ \A x \in S : Rectangular(grid, x)
      BY <3>1
    <3> HIDE DEF e, S
    <3>3. \E Z : e \in Seq(Z) /\ \A x \in Z : Rectangular(grid, x)
      BY <3>2
    <3>4. Laying(grid, q, e, 0)
      BY <3>2, <3>3 DEF Laying
    <3>5. QED BY <3>4 DEF e
  <2>4. k \in 1..N /\ k - 1 \in 0..N /\ ~(k <= k - 1)
    BY <1>4, <2>3
  <2>5. Laying(grid, q, f[k - 1], k - 1)
    BY <2>2, <2>4
  <2>6. Laying(grid, q, Scanned(grid, f[k - 1], q[k]), k)
    BY <1>3, <1>4, <2>4, <2>5, ScanStep DEF P
  <2>7. QED BY <1>5, <2>4, <2>6
<1>7. Laying(grid, q, f[N], N)
  <2>1. N \in 0..N
    BY <1>4
  <2>2. QED BY <1>6, <2>1
<1>8. Laying(grid, q, t.cells, N)
  BY <1>2, <1>5, <1>7 DEF cells
<1>9. PICK S : t.cells \in Seq(S) /\ \A e \in S : Rectangular(grid, e)
  BY <1>8 DEF Laying
<1>10. \A i \in DOMAIN t.cells : Rectangular(grid, t.cells[i])
  BY <1>9, SeqHas
<1>11. \A i, j \in DOMAIN t.cells : i < j => Slots(t.cells[i]) \cap Slots(t.cells[j]) = {}
  <2> SUFFICES ASSUME NEW i \in DOMAIN t.cells, NEW j \in DOMAIN t.cells, i < j
               PROVE  Slots(t.cells[i]) \cap Slots(t.cells[j]) = {}
    OBVIOUS
  <2>1. KeyOf(grid, t.cells[i]) # KeyOf(grid, t.cells[j])
    BY <1>8 DEF Laying
  <2>2. QED BY <1>10, <2>1, RectanglesApart
<1>12. Disjoint(t.cells)
  BY <1>11 DEF Disjoint
<1>13. \A e \in ToSet(t.cells) : e.box = NoBox
  <2>1. \A i \in DOMAIN t.cells : t.cells[i].box = NoBox
    BY <1>10, RectangularIs
  <2>2. QED BY <2>1 DEF ToSet
<1>14. Fits(t)
  BY DEF t
<1>15. Sound(t)
  BY <1>12, <1>13, <1>14 DEF Sound
<1>16. QED BY <1>15 DEF t

\* The table of an office unit.
LEMMA OfficeTableIsSound ==
    ASSUME NEW d \in Docs, NEW i \in DOMAIN d.units, Fitting(d.units[i]),
           NEW t \in ToSet(OfficePage(d.units[i]).tables)
    PROVE  Sound(t)
<1> DEFINE u == d.units[i]
           s == u.source
           b == s.body
<1>1. /\ s.form = "docx" => Regular(b)
      /\ s.form \in {"xlsx", "pptx"} => Ranged(b)
  BY SourcesAssumption
<1>2. Fitting(u) /\ t \in ToSet(OfficePage(u).tables)
  OBVIOUS
<1> HIDE DEF u
<1>3. s.form \in {"docx", "xlsx", "pptx"} /\ Fits(OfficeTable(s))
  BY <1>2 DEF Fitting, Forms
<1>4. t = OfficeTable(s)
  <2>1. OfficePage(u).tables = <<OfficeTable(s)>>
    BY DEF OfficePage, Page
  <2> DEFINE T == OfficeTable(s)
  <2> HIDE DEF T
  <2>2. ToSet(<<T>>) = {T}
    BY DEF ToSet
  <2>3. QED BY <1>2, <2>1, <2>2 DEF T
<1> HIDE DEF s, b
<1>5. CASE s.form = "docx"
  <2>1. OfficeTable(s) = DocxTable(b)
    BY <1>5 DEF OfficeTable, b
  <2>2. Regular(b) /\ Fits(DocxTable(b))
    BY <1>1, <1>3, <1>5, <2>1
  <2>3. Sound(DocxTable(b))
    BY <2>2, DocxTableIsSound
  <2>4. QED BY <1>4, <2>1, <2>3
<1>6. CASE s.form = "xlsx"
  <2>1. OfficeTable(s) = SheetTable(b, MaxCells)
    BY <1>6 DEF OfficeTable, b
  <2>2. Ranged(b) /\ Fits(SheetTable(b, MaxCells)) /\ MaxCells \in Nat \ {0}
    BY <1>1, <1>3, <1>6, <2>1, BudgetsAssumption
  <2>3. Sound(SheetTable(b, MaxCells))
    BY <2>2, RangedIsSound
  <2>4. QED BY <1>4, <2>1, <2>3
<1>7. CASE s.form = "pptx"
  <2>1. OfficeTable(s) = PptxTable(b)
    BY <1>7 DEF OfficeTable, b
  <2>2. Ranged(b) /\ Fits(PptxTable(b))
    BY <1>1, <1>3, <1>7, <2>1
  <2>3. Sound(PptxTable(b))
    BY <2>2, RangedIsSound
  <2>4. QED BY <1>4, <2>1, <2>3
<1>8. QED BY <1>3, <1>5, <1>6, <1>7

LEMMA DrawnIsSound ==
    ASSUME NEW d \in Docs, NEW k \in DOMAIN d.units, NEW p, NEW reread, From(p, d.units[k], reread),
           NEW t \in ToSet(p.tables)
    PROVE  Sound(t)
<1>1. PICK q \in Made(d.units[k]) : Keeps(p, q, reread)
  BY DEF From
<1>2. t \in ToSet(q.tables)
  BY <1>1 DEF Keeps
<1>3. \/ q = OfficePage(d.units[k]) /\ Fitting(d.units[k])
      \/ q = E2ePage(d.units[k]) /\ Accepted(d.units[k])
      \/ q = NativePage(d.units[k])
      \/ \E how \in Visually, tables \in {<<>>, PageTables(d.units[k])} : q = VisualPage(d.units[k], how, tables)
  BY <1>1 DEF Made
<1>4. CASE q = OfficePage(d.units[k]) /\ Fitting(d.units[k])
  BY <1>2, <1>4, OfficeTableIsSound
<1>5. CASE q = E2ePage(d.units[k]) /\ Accepted(d.units[k])
  BY <1>2, <1>5, BlocksAreSound
<1>6. CASE q = NativePage(d.units[k])
  BY <1>2, <1>6, FoundIsSound
<1>7. CASE \E how \in Visually, tables \in {<<>>, PageTables(d.units[k])} : q = VisualPage(d.units[k], how, tables)
  <2>1. PICK how \in Visually, tables \in {<<>>, PageTables(d.units[k])} : q = VisualPage(d.units[k], how, tables)
    BY <1>7
  <2>2. t \in ToSet(VisualPage(d.units[k], how, tables).tables)
    BY <1>2, <2>1
  <2>3. QED BY <2>2, VisualIsSound
<1>8. QED BY <1>3, <1>4, <1>5, <1>6, <1>7

LEMMA PagesAreSound == BudgetInv /\ MarkInv /\ PageInv => GridsAreSound
<1> SUFFICES ASSUME BudgetInv, MarkInv, PageInv, NEW p \in ToSet(pages), NEW t \in ToSet(p.tables)
             PROVE  Sound(t)
  BY DEF GridsAreSound, Sound
<1>1. doc \in Docs
  BY DEF BudgetInv, Bounds
<1>2. PICK k \in DOMAIN pages : p = pages[k]
  BY DEF ToSet
<1>3. From(p, doc.units[k], Renewed)
  BY <1>2 DEF PageInv, Drawn
<1>4. k \in DOMAIN doc.units
  <2>1. Len(pages) <= Len(doc.units) /\ DOMAIN pages = 1..Len(pages) /\ Len(pages) \in Nat
    BY DEF PageInv, Counting, MarkInv, Built
  <2>2. Len(doc.units) \in Nat /\ DOMAIN doc.units = 1..Len(doc.units)
    BY <1>1, Documents
  <2>3. QED BY <2>1, <2>2
<1>5. QED BY <1>1, <1>3, <1>4, DrawnIsSound

(***************************************************************************)
(* Whatever route built it, a table of a page keeps its cells inside its   *)
(* dimensions and off each other, unless a row was inferred into one with  *)
(* a cell over several rows; and of two cells whose boxes are known, one   *)
(* that lies wholly above the other is in an earlier row.                  *)
(* (_structure_cells, _renumber_rows_by_position, _TableHTMLParser,        *)
(* find_tables, the office converters.)                                    *)
(***************************************************************************)
THEOREM TableGridsAreSound == Spec => []GridsAreSound
BY PagesHold, PagesAreSound, PTL

-----------------------------------------------------------------------------
(***************************************************************************)
(* Reading order: the rows of elements, each from its left, as _band_sort  *)
(* makes them.                                                             *)
(***************************************************************************)
\* What the boxes of S are.
Standing(boxes, S) ==
    /\ S \in SUBSET Int /\ IsFiniteSet(S)
    /\ \A i \in S : boxes[i] \in Bounding /\ Upright(boxes[i])

LEMMA StandingIs ==
    ASSUME NEW boxes, NEW S, Standing(boxes, S)
    PROVE  /\ S \in SUBSET Int /\ IsFiniteSet(S) /\ \A i \in S : boxes[i] \in Bounding
           /\ \A i \in S : /\ boxes[i].x0 \in Int /\ boxes[i].y0 \in Int /\ boxes[i].x1 \in Int /\ boxes[i].y1 \in Int
                           /\ boxes[i].x0 <= boxes[i].x1 /\ boxes[i].y0 <= boxes[i].y1
           /\ \A T \in SUBSET S : Standing(boxes, T)
<1>1. \A T \in SUBSET S : IsFiniteSet(T)
  BY FS_Subset DEF Standing
<1>2. QED BY <1>1 DEF Standing, Bounding, Upright

\* From the top, and from the left.
DownBoxKey(boxes, i) == <<boxes[i].y0, boxes[i].x0, i>>
DownBoxAt(boxes, S, m) ==
    CHOOSE v \in S : Cardinality({d \in S : Less(DownBoxKey(boxes, d), DownBoxKey(boxes, v))}) = m - 1
DownBox(boxes, S) == [m \in 1..Cardinality(S) |-> DownBoxAt(boxes, S, m)]

LEMMA DownBoxIs ==
    ASSUME NEW boxes, NEW S \in SUBSET Int, IsFiniteSet(S), \A e \in S : boxes[e] \in Bounding
    PROVE  Lists(DownBox(boxes, S), S) /\ Enumerates(DownBox(boxes, S), S, Keyed(S, [i \in S |-> <<boxes[i].y0, boxes[i].x0, i>>]))
<1> DEFINE q == DownBox(boxes, S)
           K == [i \in S |-> <<boxes[i].y0, boxes[i].x0, i>>]
<1>1. \A i \in S : boxes[i].y0 \in Int /\ boxes[i].x0 \in Int /\ i \in Int
  BY DEF Bounding
<1>2. Keys(S, K)
  <2>1. K \in [S -> Int \X Int \X Int]
    BY <1>1
  <2>2. \A i \in S : K[i][3] = i
    OBVIOUS
  <2> HIDE DEF K
  <2>3. QED BY <2>1, <2>2 DEF Keys
<1>3. ASSUME NEW d \in S, NEW v \in S PROVE Less(DownBoxKey(boxes, d), DownBoxKey(boxes, v)) <=> Less(K[d], K[v])
  BY DEF DownBoxKey
<1> HIDE DEF K
<1>4. ASSUME NEW v \in S PROVE Cardinality({d \in S : Less(DownBoxKey(boxes, d), DownBoxKey(boxes, v))}) = Below(S, K, v)
  <2>1. {d \in S : Less(DownBoxKey(boxes, d), DownBoxKey(boxes, v))} = {d \in S : Less(K[d], K[v])}
    BY <1>3
  <2>2. QED BY <2>1 DEF Below
<1>5. ASSUME NEW m \in 1..Cardinality(S), \E v \in S : Below(S, K, v) = m - 1
      PROVE  q[m] \in S /\ Below(S, K, q[m]) = m - 1
  <2>1. q[m] = CHOOSE v \in S : Cardinality({d \in S : Less(DownBoxKey(boxes, d), DownBoxKey(boxes, v))}) = m - 1
    BY DEF DownBox, DownBoxAt
  <2>2. \E v \in S : Cardinality({d \in S : Less(DownBoxKey(boxes, d), DownBoxKey(boxes, v))}) = m - 1
    BY <1>4, <1>5
  <2> HIDE DEF q
  <2>3. q[m] \in S /\ Cardinality({d \in S : Less(DownBoxKey(boxes, d), DownBoxKey(boxes, q[m]))}) = m - 1
    BY <2>1, <2>2
  <2>4. QED BY <1>4, <2>3
<1>6. q = [m \in 1..Cardinality(S) |-> q[m]]
  BY DEF DownBox
<1> HIDE DEF q
<1>7. Sorting(q, S, K)
  BY <1>5, <1>6 DEF Sorting
<1>8. Lists(q, S) /\ Enumerates(q, S, Keyed(S, K))
  BY <1>2, <1>7, SortedIs
<1>9. QED BY <1>8 DEF q, K

\* From the left, and from the top.
AcrossBoxKey(boxes, i) == <<boxes[i].x0, boxes[i].y0, i>>
AcrossBoxAt(boxes, S, m) ==
    CHOOSE v \in S : Cardinality({d \in S : Less(AcrossBoxKey(boxes, d), AcrossBoxKey(boxes, v))}) = m - 1
AcrossBox(boxes, S) == [m \in 1..Cardinality(S) |-> AcrossBoxAt(boxes, S, m)]

LEMMA AcrossBoxIs ==
    ASSUME NEW boxes, NEW S \in SUBSET Int, IsFiniteSet(S), \A e \in S : boxes[e] \in Bounding
    PROVE  Lists(AcrossBox(boxes, S), S)
<1> DEFINE q == AcrossBox(boxes, S)
           K == [i \in S |-> <<boxes[i].x0, boxes[i].y0, i>>]
<1>1. \A i \in S : boxes[i].x0 \in Int /\ boxes[i].y0 \in Int /\ i \in Int
  BY DEF Bounding
<1>2. Keys(S, K)
  <2>1. K \in [S -> Int \X Int \X Int]
    BY <1>1
  <2>2. \A i \in S : K[i][3] = i
    OBVIOUS
  <2> HIDE DEF K
  <2>3. QED BY <2>1, <2>2 DEF Keys
<1>3. ASSUME NEW d \in S, NEW v \in S PROVE Less(AcrossBoxKey(boxes, d), AcrossBoxKey(boxes, v)) <=> Less(K[d], K[v])
  BY DEF AcrossBoxKey
<1> HIDE DEF K
<1>4. ASSUME NEW v \in S PROVE Cardinality({d \in S : Less(AcrossBoxKey(boxes, d), AcrossBoxKey(boxes, v))}) = Below(S, K, v)
  <2>1. {d \in S : Less(AcrossBoxKey(boxes, d), AcrossBoxKey(boxes, v))} = {d \in S : Less(K[d], K[v])}
    BY <1>3
  <2>2. QED BY <2>1 DEF Below
<1>5. ASSUME NEW m \in 1..Cardinality(S), \E v \in S : Below(S, K, v) = m - 1
      PROVE  q[m] \in S /\ Below(S, K, q[m]) = m - 1
  <2>1. q[m] = CHOOSE v \in S : Cardinality({d \in S : Less(AcrossBoxKey(boxes, d), AcrossBoxKey(boxes, v))}) = m - 1
    BY DEF AcrossBox, AcrossBoxAt
  <2>2. \E v \in S : Cardinality({d \in S : Less(AcrossBoxKey(boxes, d), AcrossBoxKey(boxes, v))}) = m - 1
    BY <1>4, <1>5
  <2> HIDE DEF q
  <2>3. q[m] \in S /\ Cardinality({d \in S : Less(AcrossBoxKey(boxes, d), AcrossBoxKey(boxes, q[m]))}) = m - 1
    BY <2>1, <2>2
  <2>4. QED BY <1>4, <2>3
<1>6. q = [m \in 1..Cardinality(S) |-> q[m]]
  BY DEF AcrossBox
<1> HIDE DEF q
<1>7. Sorting(q, S, K)
  BY <1>5, <1>6 DEF Sorting
<1>8. Lists(q, S) /\ Enumerates(q, S, Keyed(S, K))
  BY <1>2, <1>7, SortedIs
<1>9. QED BY <1>8 DEF q


LEMMA DownBoxRuns ==
    ASSUME NEW boxes, NEW S, Standing(boxes, S)
    PROVE  /\ Lists(DownBox(boxes, S), S)
           /\ \A k, m \in DOMAIN DownBox(boxes, S) :
                 k < m => boxes[DownBox(boxes, S)[k]].y0 <= boxes[DownBox(boxes, S)[m]].y0
<1> DEFINE q == DownBox(boxes, S)
           K == [i \in S |-> <<boxes[i].y0, boxes[i].x0, i>>]
<1>1. /\ S \in SUBSET Int /\ IsFiniteSet(S) /\ \A i \in S : boxes[i] \in Bounding
      /\ \A i \in S : boxes[i].y0 \in Int /\ boxes[i].x0 \in Int /\ i \in Int
  BY StandingIs
<1>2. Lists(q, S) /\ Enumerates(q, S, Keyed(S, K))
  BY <1>1, DownBoxIs
<1>3. ASSUME NEW a \in S, NEW b \in S, <<a, b>> \in Keyed(S, K) PROVE boxes[a].y0 <= boxes[b].y0
  <2> DEFINE a1 == boxes[a].y0  a2 == boxes[a].x0
             b1 == boxes[b].y0  b2 == boxes[b].x0
  <2>1. a1 \in Int /\ a2 \in Int /\ b1 \in Int /\ b2 \in Int /\ a \in Int /\ b \in Int
    BY <1>1
  <2>2. Less(<<a1, a2, a>>, <<b1, b2, b>>)
    BY <1>3 DEF Keyed
  <2> HIDE DEF a1, a2, b1, b2
  <2>3. a1 <= b1
    BY <2>1, <2>2, LessIs
  <2>4. QED BY <2>3 DEF a1, b1
<1> HIDE DEF q, K
<1>4. \A k, m \in DOMAIN q : k < m => boxes[q[k]].y0 <= boxes[q[m]].y0
  <2> SUFFICES ASSUME NEW k \in DOMAIN q, NEW m \in DOMAIN q, k < m PROVE boxes[q[k]].y0 <= boxes[q[m]].y0
    OBVIOUS
  <2>1. q[k] \in S /\ q[m] \in S /\ <<q[k], q[m]>> \in Keyed(S, K)
    BY <1>2 DEF Enumerates
  <2>2. QED BY <1>3, <2>1
<1>5. QED BY <1>2, <1>4 DEF q

LEMMA RunOnBack == \A a, b \in Bounding : RunOn(a, b) <=> RunOn(b, a)
BY DEF RunOn, Bounding, Tolerance

\* C has, with an element, those that run on with it.
Shut(boxes, S, C) ==
    /\ C \in SUBSET S
    /\ \A a \in C, b \in S : RunOn(boxes[a], boxes[b]) => b \in C

LEMMA TiedIs ==
    ASSUME NEW boxes, NEW S, NEW i, NEW j
    PROVE  Tied(boxes, S, i, j) <=> \A C : Shut(boxes, S, C) /\ i \in C => j \in C
BY DEF Tied, Shut

\* What an element does to the rows.
Fits1(boxes, B, i) ==
    \/ boxes[i].y0 < Hull({boxes[j] : j \in B}).y1 /\ boxes[i].y1 > Hull({boxes[j] : j \in B}).y0
    \/ boxes[i].y0 - Hull({boxes[j] : j \in B}).y0 <= Tolerance
JoinRow(boxes, bands, i) ==
    IF bands # <<>> /\ Fits1(boxes, Last(bands), i)
    THEN [bands EXCEPT ![Len(bands)] = @ \cup {i}]
    ELSE Append(bands, {i})
Joined1(boxes, x, q) ==
    LET join(bands, i) ==
            LET b == boxes[i]
                hull == Hull({boxes[j] : j \in Last(bands)})
            IN  IF /\ bands # <<>>
                   /\ \/ b.y0 < hull.y1 /\ b.y1 > hull.y0
                      \/ b.y0 - hull.y0 <= Tolerance
                THEN [bands EXCEPT ![Len(bands)] = @ \cup {i}]
                ELSE Append(bands, {i})
    IN  FoldLeft(join, x, q)

LEMMA RowsRun ==
    ASSUME NEW boxes, NEW x, NEW q, NEW N, Indexed(q, N)
    PROVE  \E f : /\ f[0] = x /\ Joined1(boxes, x, q) = f[N]
                  /\ \A k \in 1..N : f[k] = JoinRow(boxes, f[k - 1], q[k])
<1> N \in Nat /\ DOMAIN q = 1..N
  BY DEF Indexed
<1> DEFINE Good(h, m) == h = [T \in SUBSET (1..m) |-> IF T = {} THEN x ELSE JoinRow(boxes, h[T \ {Max(T)}], q[Max(T)])]
           Bad == {m \in 0..N : ~ \E h : Good(h, m)}
           iter[T \in SUBSET DOMAIN q] ==
               IF T = {} THEN x ELSE LET m == Max(T) IN JoinRow(boxes, iter[T \ {m}], q[m])
<1>1. Joined1(boxes, x, q) = iter[DOMAIN q]
  BY DEF Joined1, JoinRow, Fits1, FoldLeft, MapThenFoldSet
<1>2. \E h : Good(h, 0)
  <2> DEFINE h == [T \in SUBSET (1..0) |-> x]
  <2>1. 1..0 = {} /\ \A T \in SUBSET (1..0) : T = {}
    OBVIOUS
  <2>2. Good(h, 0)
    BY <2>1
  <2>3. QED BY <2>2
<1>3. ASSUME NEW m \in 0..(N - 1), NEW h, Good(h, m) PROVE \E g : Good(g, m + 1)
  <2> DEFINE z == m + 1
             D == 1..z
             g == [T \in SUBSET D |-> IF z \in T THEN JoinRow(boxes, h[T \ {z}], q[z]) ELSE h[T]]
             of(T) == IF T = {} THEN x ELSE JoinRow(boxes, g[T \ {Max(T)}], q[Max(T)])
  <2>1. z \in Nat /\ IsFiniteSet(D) /\ D \in SUBSET Int /\ z \in D
        /\ \A k \in D : k <= z /\ (k # z => k \in 1..m)
    BY FS_Interval
  <2>2. \A T \in SUBSET D : z \notin T => T \in SUBSET (1..m)
    BY <2>1
  <2>3. \A T \in SUBSET (1..m) : T \in SUBSET D /\ z \notin T
    OBVIOUS
  <2>4. \A T \in SUBSET (1..m) : h[T] = IF T = {} THEN x ELSE JoinRow(boxes, h[T \ {Max(T)}], q[Max(T)])
    BY <1>3
  <2>5. \A T \in SUBSET D : T # {} => Max(T) \in T /\ \A k \in T : k <= Max(T)
    <3> SUFFICES ASSUME NEW T \in SUBSET D, T # {} PROVE Max(T) \in T /\ \A k \in T : k <= Max(T)
      OBVIOUS
    <3>1. T \in SUBSET Int /\ IsFiniteSet(T)
      BY <2>1, FS_Subset
    <3>2. QED BY <3>1, MaxIs
  <2> HIDE DEF Good, D
  <2>6. \A T \in SUBSET D : g[T] = IF z \in T THEN JoinRow(boxes, h[T \ {z}], q[z]) ELSE h[T]
    OBVIOUS
  <2> HIDE DEF g, z
  <2>7. ASSUME NEW T \in SUBSET D PROVE g[T] = of(T)
    <3>1. CASE z \in T
      <4>1. Max(T) = z
        <5>1. Max(T) \in T /\ z <= Max(T)
          BY <2>5, <3>1
        <5>2. Max(T) <= z /\ Max(T) \in Int
          BY <2>1, <5>1
        <5>3. QED BY <2>1, <5>1, <5>2
      <4>2. T \ {z} \in SUBSET D /\ z \notin T \ {z}
        OBVIOUS
      <4>3. g[T \ {z}] = h[T \ {z}]
        BY <2>6, <4>2
      <4>4. g[T] = JoinRow(boxes, h[T \ {z}], q[z])
        BY <2>6, <3>1
      <4>5. QED BY <3>1, <4>1, <4>3, <4>4
    <3>2. CASE z \notin T
      <4>1. g[T] = h[T] /\ T \in SUBSET (1..m)
        BY <2>2, <2>6, <3>2
      <4>2. CASE T = {}
        BY <2>4, <4>1, <4>2
      <4>3. CASE T # {}
        <5> DEFINE t == Max(T)
        <5>1. T \ {t} \in SUBSET D /\ z \notin T \ {t}
          BY <3>2
        <5>2. g[T \ {t}] = h[T \ {t}]
          BY <2>6, <5>1
        <5>3. h[T] = JoinRow(boxes, h[T \ {t}], q[t])
          BY <2>4, <4>1, <4>3
        <5>4. QED BY <4>1, <4>3, <5>2, <5>3
      <4>4. QED BY <4>2, <4>3
    <3>3. QED BY <3>1, <3>2
  <2>8. g = [T \in SUBSET D |-> g[T]]
    BY DEF g
  <2>9. g = [T \in SUBSET D |-> of(T)]
    BY <2>7, <2>8
  <2>10. Good(g, z)
    BY <2>9 DEF Good, D
  <2>11. QED BY <2>10 DEF z
<1> HIDE DEF Good
<1>4. Bad = {}
  <2> SUFFICES ASSUME Bad # {} PROVE FALSE
    OBVIOUS
  <2>1. Bad \in SUBSET (0..N) /\ IsFiniteSet(0..N)
    BY FS_Interval
  <2>2. Bad \in SUBSET Int /\ IsFiniteSet(Bad)
    BY <2>1, FS_Subset
  <2> DEFINE b == Min(Bad)
  <2>3. b \in Bad /\ \A k \in Bad : b <= k
    BY <2>2, MinIs
  <2> HIDE DEF b
  <2>4. b \in 0..N /\ ~ \E h : Good(h, b)
    BY <2>3
  <2>5. b # 0
    BY <1>2, <2>4
  <2> DEFINE a == b - 1
  <2>6. a \in 0..(N - 1) /\ a + 1 = b /\ a \in 0..N /\ ~ (b <= a)
    BY <2>4, <2>5
  <2> HIDE DEF a
  <2>7. a \notin Bad
    BY <2>3, <2>6
  <2>8. \E h : Good(h, a)
    BY <2>6, <2>7
  <2>9. \E h : Good(h, a + 1)
    BY <1>3, <2>6, <2>8
  <2>10. QED BY <2>4, <2>6, <2>9
<1>5. PICK h : Good(h, N)
  <2>1. N \in 0..N /\ N \notin Bad
    BY <1>4
  <2>2. QED BY <2>1
<1>6. h = [T \in SUBSET DOMAIN q |-> IF T = {} THEN x ELSE LET m == Max(T) IN JoinRow(boxes, h[T \ {m}], q[m])]
  BY <1>5 DEF Good
<1>7. iter = [T \in SUBSET DOMAIN q |-> IF T = {} THEN x ELSE LET m == Max(T) IN JoinRow(boxes, iter[T \ {m}], q[m])]
  BY <1>6
<1> HIDE DEF iter
<1> DEFINE f == [k \in 0..N |-> iter[1..k]]
<1>8. f[0] = x /\ f[N] = iter[DOMAIN q]
  <2>1. 1..0 = {} /\ 0 \in 0..N /\ N \in 0..N
    OBVIOUS
  <2>2. QED BY <1>7, <2>1
<1>9. \A k \in 1..N : f[k] = JoinRow(boxes, f[k - 1], q[k])
  <2> SUFFICES ASSUME NEW k \in 1..N PROVE f[k] = JoinRow(boxes, f[k - 1], q[k])
    OBVIOUS
  <2> DEFINE D == 1..k
  <2>1. k \in 0..N /\ k - 1 \in 0..N /\ D \in SUBSET (1..N) /\ D # {} /\ Max(D) = k /\ D \ {Max(D)} = 1..(k - 1)
    BY Within1N
  <2> HIDE DEF D
  <2>2. iter[D] = JoinRow(boxes, iter[1..(k - 1)], q[k])
    BY <1>7, <2>1
  <2>3. QED BY <2>1, <2>2 DEF D
<1> HIDE DEF f
<1>10. QED BY <1>1, <1>8, <1>9

\* The rows of the elements D: each in one, none before a row that starts
\* higher, and each row held together by elements that run on.
RowInv(boxes, S, bands, D) ==
    /\ bands \in Seq(SUBSET S) /\ D \in SUBSET S
    /\ \A k \in DOMAIN bands : bands[k] \subseteq D /\ bands[k] # {}
    /\ \A i \in D : \E k \in DOMAIN bands : i \in bands[k]
    /\ \A k, m \in DOMAIN bands : \A i : i \in bands[k] /\ i \in bands[m] => k = m
    /\ \A k, m \in DOMAIN bands : k < m => \A i \in bands[k], j \in bands[m] : boxes[i].y0 <= boxes[j].y0
    /\ \A k \in DOMAIN bands : \A C : Shut(boxes, S, C) /\ C \cap bands[k] # {} => bands[k] \subseteq C

RowAdded(bands, r, i) ==
    /\ Len(r) = Len(bands) + 1 /\ \A k \in DOMAIN bands : r[k] = bands[k]
    /\ r[Len(bands) + 1] = {i}
RowGrew(boxes, bands, r, i) ==
    /\ Len(r) = Len(bands) /\ Len(bands) \in DOMAIN bands /\ Fits1(boxes, bands[Len(bands)], i)
    /\ \A k \in DOMAIN bands : k # Len(bands) => r[k] = bands[k]
    /\ r[Len(bands)] = bands[Len(bands)] \cup {i}

LEMMA JoinRowIs ==
    ASSUME NEW boxes, NEW S, NEW bands \in Seq(SUBSET S), NEW i \in S
    PROVE  /\ JoinRow(boxes, bands, i) \in Seq(SUBSET S)
           /\ RowAdded(bands, JoinRow(boxes, bands, i), i) \/ RowGrew(boxes, bands, JoinRow(boxes, bands, i), i)
<1> DEFINE N == Len(bands)
           r == JoinRow(boxes, bands, i)
<1>1. N \in Nat /\ DOMAIN bands = 1..N /\ \A k \in 1..N : bands[k] \in SUBSET S
  BY SeqHas
<1>2. bands # <<>> => N \in 1..N
  BY <1>1
<1>3. CASE bands # <<>> /\ Fits1(boxes, Last(bands), i)
  <2>1. r = [bands EXCEPT ![N] = bands[N] \cup {i}] /\ Fits1(boxes, bands[N], i)
    BY <1>3 DEF JoinRow, Last
  <2> HIDE DEF r
  <2> DEFINE new == bands[N] \cup {i}
  <2>2. new \in SUBSET S /\ N \in 1..N
    BY <1>1, <1>2, <1>3
  <2> HIDE DEF new
  <2>3. r = [k \in 1..N |-> IF k = N THEN new ELSE bands[k]]
    BY <1>1, <2>1 DEF new
  <2>4. r = [k \in 1..N |-> r[k]] /\ \A k \in 1..N : r[k] \in SUBSET S
    BY <1>1, <2>2, <2>3
  <2>5. r \in Seq(SUBSET S) /\ Len(r) = N
    BY <1>1, <2>4, SeqMade
  <2>6. r[N] = new /\ \A k \in 1..N : k # N => r[k] = bands[k]
    BY <2>2, <2>3
  <2>7. RowGrew(boxes, bands, r, i)
    BY <1>1, <2>1, <2>2, <2>5, <2>6 DEF RowGrew, new
  <2>8. QED BY <2>5, <2>7 DEF r
<1>4. CASE ~ (bands # <<>> /\ Fits1(boxes, Last(bands), i))
  <2>1. r = Append(bands, {i})
    BY <1>4 DEF JoinRow
  <2> HIDE DEF r
  <2> DEFINE new == {i}
  <2>2. new \in SUBSET S
    OBVIOUS
  <2> HIDE DEF new
  <2>3. r \in Seq(SUBSET S) /\ Len(r) = N + 1 /\ (\A k \in 1..N : r[k] = bands[k]) /\ r[N + 1] = new
    BY <1>1, <2>1, <2>2 DEF new
  <2>4. RowAdded(bands, r, i)
    BY <1>1, <2>3 DEF RowAdded, new
  <2>5. QED BY <2>3, <2>4 DEF r
<1>5. QED BY <1>3, <1>4

\* An element fits a row only if it runs on from one of it.
LEMMA FitsRunsOn ==
    ASSUME NEW boxes, NEW S, Standing(boxes, S), NEW B \in SUBSET S, B # {}, NEW i \in S,
           \A j \in B : boxes[j].y0 <= boxes[i].y0, Fits1(boxes, B, i)
    PROVE  \E e \in B : RunOn(boxes[e], boxes[i])
<1> DEFINE H == {boxes[j] : j \in B}
<1>1. /\ IsFiniteSet(B) /\ boxes[i] \in Bounding /\ \A j \in B : boxes[j] \in Bounding
      /\ \A j \in S : /\ boxes[j].y0 \in Int /\ boxes[j].y1 \in Int /\ boxes[j].y0 <= boxes[j].y1
  BY StandingIs, FS_Subset
<1>2. IsFiniteSet(H) /\ H \in SUBSET Bounding /\ H # {}
  <2>1. H \in SUBSET Bounding /\ H # {}
    BY <1>1
  <2> DEFINE g == [j \in B |-> boxes[j]]
  <2>2. H = {g[j] : j \in B}
    OBVIOUS
  <2> HIDE DEF g, H
  <2>3. QED BY <1>1, <2>1, <2>2, ImageIsFinite
<1> DEFINE h == Hull(H)
<1>3. /\ \A b \in H : h.y0 <= b.y0 /\ b.y1 <= h.y1
      /\ (\E b \in H : h.y0 = b.y0) /\ (\E b \in H : h.y1 = b.y1)
  BY <1>2, HullIs
<1>4. \/ boxes[i].y0 < h.y1 /\ boxes[i].y1 > h.y0
      \/ boxes[i].y0 - h.y0 <= Tolerance
  BY DEF Fits1
<1> HIDE DEF h
<1>5. PICK p \in B, t \in B : h.y0 = boxes[p].y0 /\ h.y1 = boxes[t].y1
  BY <1>3
<1> HIDE DEF H
<1> DEFINE py == boxes[p].y0  ty == boxes[t].y0  tz == boxes[t].y1
           iy == boxes[i].y0  iz == boxes[i].y1  pz == boxes[p].y1
<1>6. /\ py \in Int /\ ty \in Int /\ tz \in Int /\ iy \in Int /\ iz \in Int /\ pz \in Int
      /\ ty <= tz /\ iy <= iz /\ py <= iy /\ ty <= iy
  BY <1>1, <1>5
<1>7. (iy < tz /\ iz > py) \/ iy - py <= Tolerance
  BY <1>4, <1>5
<1> HIDE DEF py, ty, tz, iy, iz, pz
<1>8. CASE iy - py <= Tolerance
  <2>1. iy - py \in -Tolerance..Tolerance
    BY <1>6, <1>8 DEF Tolerance
  <2>2. RunOn(boxes[p], boxes[i])
    BY <2>1 DEF RunOn, iy, py
  <2>3. QED BY <2>2
<1>9. CASE iy < tz /\ ty < iz
  <2>1. RunOn(boxes[t], boxes[i])
    BY <1>9 DEF RunOn, iy, tz, ty, iz
  <2>2. QED BY <2>1
<1>10. CASE iy < tz /\ ~(ty < iz)
  <2>1. iy - ty \in -Tolerance..Tolerance
    BY <1>6, <1>10 DEF Tolerance
  <2>2. RunOn(boxes[t], boxes[i])
    BY <2>1 DEF RunOn, iy, ty
  <2>3. QED BY <2>2
<1>11. QED BY <1>7, <1>8, <1>9, <1>10

LEMMA RowKeeps ==
    ASSUME NEW boxes, NEW S, Standing(boxes, S), NEW bands, NEW D, RowInv(boxes, S, bands, D),
           NEW i \in S, i \notin D, \A j \in D : boxes[j].y0 <= boxes[i].y0
    PROVE  RowInv(boxes, S, JoinRow(boxes, bands, i), D \cup {i})
<1> DEFINE r == JoinRow(boxes, bands, i)
           N == Len(bands)
           M == Len(r)
<1>1. /\ bands \in Seq(SUBSET S) /\ D \in SUBSET S
      /\ \A k \in DOMAIN bands : bands[k] \subseteq D /\ bands[k] # {}
      /\ \A e \in D : \E k \in DOMAIN bands : e \in bands[k]
      /\ \A k, m \in DOMAIN bands : \A e : e \in bands[k] /\ e \in bands[m] => k = m
      /\ \A k, m \in DOMAIN bands : k < m => \A e \in bands[k], j \in bands[m] : boxes[e].y0 <= boxes[j].y0
      /\ \A k \in DOMAIN bands : \A C : Shut(boxes, S, C) /\ C \cap bands[k] # {} => bands[k] \subseteq C
  BY DEF RowInv
<1>2. r \in Seq(SUBSET S) /\ (RowAdded(bands, r, i) \/ RowGrew(boxes, bands, r, i))
  BY <1>1, JoinRowIs
<1>3. N \in Nat /\ DOMAIN bands = 1..N
  BY <1>1, SeqHas
<1> HIDE DEF r
<1>4. M \in Nat /\ DOMAIN r = 1..M
  BY <1>2, SeqHas
<1>5. D \cup {i} \in SUBSET S
  BY <1>1
<1>6. CASE RowAdded(bands, r, i)
  <2>1. M = N + 1 /\ (\A k \in 1..N : r[k] = bands[k]) /\ r[N + 1] = {i}
    BY <1>3, <1>6 DEF RowAdded
  <2> HIDE DEF N, M
  <2>2. /\ \A k \in 1..M : k \in 1..N \/ k = N + 1
        /\ N + 1 \in 1..M /\ \A k \in 1..N : k \in 1..M
    BY <1>3, <2>1
  <2>3. \A k \in 1..M : r[k] \subseteq D \cup {i} /\ r[k] # {}
    BY <1>1, <1>3, <2>1, <2>2
  <2>4. \A e \in D \cup {i} : \E k \in 1..M : e \in r[k]
    BY <1>1, <1>3, <2>1, <2>2
  <2>5. \A k, m \in 1..M : \A e : e \in r[k] /\ e \in r[m] => k = m
    BY <1>1, <1>3, <2>1, <2>2
  <2>6. \A k, m \in 1..M : k < m => \A e \in r[k], j \in r[m] : boxes[e].y0 <= boxes[j].y0
    <3> SUFFICES ASSUME NEW k \in 1..M, NEW m \in 1..M, k < m, NEW e \in r[k], NEW j \in r[m]
                 PROVE  boxes[e].y0 <= boxes[j].y0
      OBVIOUS
    <3>1. k \in 1..N
      BY <1>3, <2>1
    <3>2. CASE m \in 1..N
      BY <1>1, <1>3, <2>1, <3>1, <3>2
    <3>3. CASE m = N + 1
      BY <1>1, <1>3, <2>1, <3>1, <3>3
    <3>4. QED BY <2>2, <3>2, <3>3
  <2>7. \A k \in 1..M : \A C : Shut(boxes, S, C) /\ C \cap r[k] # {} => r[k] \subseteq C
    <3> SUFFICES ASSUME NEW k \in 1..M, NEW C, Shut(boxes, S, C), C \cap r[k] # {} PROVE r[k] \subseteq C
      OBVIOUS
    <3>1. CASE k \in 1..N
      BY <1>1, <1>3, <2>1, <3>1
    <3>2. CASE k = N + 1
      BY <2>1, <3>2
    <3>3. QED BY <2>2, <3>1, <3>2
  <2>8. RowInv(boxes, S, r, D \cup {i})
    BY <1>2, <1>4, <1>5, <2>3, <2>4, <2>5, <2>6, <2>7 DEF RowInv
  <2>9. QED BY <2>8 DEF r
<1>7. CASE RowGrew(boxes, bands, r, i)
  <2>1. /\ M = N /\ N \in 1..N /\ Fits1(boxes, bands[N], i)
        /\ (\A k \in 1..N : k # N => r[k] = bands[k]) /\ r[N] = bands[N] \cup {i}
    BY <1>3, <1>7 DEF RowGrew
  <2> HIDE DEF N, M
  <2>2. \A k \in 1..N : r[k] = bands[k] \/ (k = N /\ r[k] = bands[k] \cup {i})
    BY <2>1
  <2>3. \A k \in 1..N : bands[k] \subseteq r[k] /\ r[k] \subseteq bands[k] \cup {i}
    BY <2>2
  <2>4. \A k \in 1..N : i \notin bands[k]
    BY <1>1, <1>3
  <2>5. \A k \in 1..N : r[k] \subseteq D \cup {i} /\ r[k] # {}
    BY <1>1, <1>3, <2>3
  <2>6. \A e \in D \cup {i} : \E k \in 1..N : e \in r[k]
    BY <1>1, <1>3, <2>1, <2>3
  <2>7. \A k, m \in 1..N : \A e : e \in r[k] /\ e \in r[m] => k = m
    <3> SUFFICES ASSUME NEW k \in 1..N, NEW m \in 1..N, NEW e, e \in r[k], e \in r[m] PROVE k = m
      OBVIOUS
    <3>1. CASE e = i
      <4>1. \A l \in 1..N : i \in r[l] => l = N
        BY <2>2, <2>4
      <4>2. QED BY <3>1, <4>1
    <3>2. CASE e # i
      <4>1. e \in bands[k] /\ e \in bands[m]
        BY <2>3, <3>2
      <4>2. QED BY <1>1, <1>3, <4>1
    <3>3. QED BY <3>1, <3>2
  <2>8. \A k, m \in 1..N : k < m => \A e \in r[k], j \in r[m] : boxes[e].y0 <= boxes[j].y0
    <3> SUFFICES ASSUME NEW k \in 1..N, NEW m \in 1..N, k < m, NEW e \in r[k], NEW j \in r[m]
                 PROVE  boxes[e].y0 <= boxes[j].y0
      OBVIOUS
    <3>1. k # N
      BY <1>3
    <3>2. e \in bands[k] /\ e \in D
      BY <1>1, <1>3, <2>1, <3>1
    <3>3. CASE j \in bands[m]
      BY <1>1, <1>3, <3>2, <3>3
    <3>4. CASE j = i
      BY <3>2, <3>4
    <3>5. QED BY <2>3, <3>3, <3>4
  <2>9. PICK e \in bands[N] : RunOn(boxes[e], boxes[i])
    <3>1. bands[N] \in SUBSET S /\ bands[N] # {} /\ \A j \in bands[N] : boxes[j].y0 <= boxes[i].y0
      BY <1>1, <1>3, <2>1
    <3>2. QED BY <2>1, <3>1, FitsRunsOn
  <2>10. RunOn(boxes[i], boxes[e]) /\ e \in S
    <3>1. e \in S
      BY <1>1, <1>3, <2>1
    <3>2. boxes[i] \in Bounding /\ boxes[e] \in Bounding
      BY <3>1, StandingIs
    <3>3. QED BY <2>9, <3>1, <3>2, RunOnBack
  <2>11. \A k \in 1..N : \A C : Shut(boxes, S, C) /\ C \cap r[k] # {} => r[k] \subseteq C
    <3> SUFFICES ASSUME NEW k \in 1..N, NEW C, Shut(boxes, S, C), C \cap r[k] # {} PROVE r[k] \subseteq C
      OBVIOUS
    <3>1. CASE k # N
      BY <1>1, <1>3, <2>1, <3>1
    <3>2. CASE k = N
      <4>1. r[k] = bands[N] \cup {i}
        BY <2>1, <3>2
      <4>2. i \in C => e \in C
        BY <2>10 DEF Shut
      <4>3. e \in C => i \in C
        BY <2>9 DEF Shut
      <4>4. C \cap bands[N] # {}
        BY <2>9, <4>1, <4>2
      <4>5. bands[N] \subseteq C
        BY <1>1, <1>3, <2>1, <4>4
      <4>6. QED BY <2>9, <4>1, <4>3, <4>5
    <3>3. QED BY <3>1, <3>2
  <2>12. DOMAIN r = 1..N
    BY <1>4, <2>1
  <2>13. RowInv(boxes, S, r, D \cup {i})
    BY <1>2, <1>5, <2>5, <2>6, <2>7, <2>8, <2>11, <2>12 DEF RowInv
  <2>14. QED BY <2>13 DEF r
<1>8. QED BY <1>2, <1>6, <1>7

LEMMA RowsAre ==
    ASSUME NEW boxes, NEW S, Standing(boxes, S)
    PROVE  RowInv(boxes, S, Joined1(boxes, <<>>, DownBox(boxes, S)), S)
<1> DEFINE q == DownBox(boxes, S)
           N == Len(q)
<1>1. Lists(q, S) /\ \A k, m \in DOMAIN q : k < m => boxes[q[k]].y0 <= boxes[q[m]].y0
  BY DownBoxRuns
<1> HIDE DEF q
<1>2. /\ N \in Nat /\ DOMAIN q = 1..N /\ Passed(q, 0) = {} /\ Passed(q, N) = S
      /\ \A k \in 1..N : /\ Passed(q, k) = Passed(q, k - 1) \cup {q[k]}
                         /\ q[k] \notin Passed(q, k - 1) /\ q[k] \in S
  BY <1>1, PassedAre
<1> HIDE DEF N
<1>3. \E f : /\ f[0] = <<>> /\ Joined1(boxes, <<>>, q) = f[N]
             /\ \A k \in 1..N : f[k] = JoinRow(boxes, f[k - 1], q[k])
  <2>1. Indexed(q, N)
    BY <1>2 DEF Indexed
  <2>2. QED BY <2>1, RowsRun
<1>4. PICK f : /\ f[0] = <<>> /\ Joined1(boxes, <<>>, q) = f[N]
               /\ \A k \in 1..N : f[k] = JoinRow(boxes, f[k - 1], q[k])
  BY <1>3
<1> DEFINE T == {k \in 0..N : RowInv(boxes, S, f[k], Passed(q, k))}
<1>5. 0 \in T
  <2>1. RowInv(boxes, S, <<>>, {})
    BY DEF RowInv
  <2>2. QED BY <1>2, <1>4, <2>1
<1>6. ASSUME NEW k \in 1..N, k - 1 \in T PROVE k \in T
  <2>1. RowInv(boxes, S, f[k - 1], Passed(q, k - 1)) /\ k \in 0..N
    BY <1>2, <1>6
  <2>2. \A j \in Passed(q, k - 1) : boxes[j].y0 <= boxes[q[k]].y0
    <3> SUFFICES ASSUME NEW j \in Passed(q, k - 1) PROVE boxes[j].y0 <= boxes[q[k]].y0
      OBVIOUS
    <3>1. PICK m \in 1..(k - 1) : q[m] = j
      BY DEF Passed
    <3>2. m \in 1..N /\ m < k
      BY <1>2
    <3>3. QED BY <1>1, <1>2, <3>1, <3>2
  <2>3. RowInv(boxes, S, JoinRow(boxes, f[k - 1], q[k]), Passed(q, k - 1) \cup {q[k]})
    BY <1>2, <2>1, <2>2, RowKeeps
  <2>4. QED BY <1>2, <1>4, <2>1, <2>3
<1> HIDE DEF T
<1>7. \A k \in 0..N : k \in T
  BY <1>2, <1>5, <1>6, UpTo
<1>8. RowInv(boxes, S, f[N], Passed(q, N))
  BY <1>2, <1>7 DEF T
<1>9. QED BY <1>2, <1>4, <1>8 DEF q

\* Lists of sets that part S, laid end to end.
Parting(rows, N, S) ==
    /\ N \in Nat /\ \A k \in 1..N : rows[k] \in SUBSET S
    /\ \A i \in S : \E k \in 1..N : i \in rows[k]
    /\ \A k, m \in 1..N : \A i : i \in rows[k] /\ i \in rows[m] => k = m

LEMMA RowsLaid ==
    ASSUME NEW S, NEW N, NEW rows, Parting(rows, N, S),
           NEW ss, ss = [k \in 1..N |-> ss[k]], \A k \in 1..N : Lists(ss[k], rows[k])
    PROVE  /\ Lists(FlattenSeq(ss), S)
           /\ \A p, r \in DOMAIN FlattenSeq(ss) : \A k, m \in 1..N :
                 FlattenSeq(ss)[p] \in rows[k] /\ FlattenSeq(ss)[r] \in rows[m] /\ k < m => p < r
<1> DEFINE out == FlattenSeq(ss)
<1>1. /\ N \in Nat /\ \A k \in 1..N : rows[k] \in SUBSET S
      /\ \A i \in S : \E k \in 1..N : i \in rows[k]
      /\ \A k, m \in 1..N : \A i : i \in rows[k] /\ i \in rows[m] => k = m
  BY DEF Parting
<1>2. ASSUME NEW k \in 1..N
      PROVE  /\ ss[k] \in Seq(S) /\ Len(ss[k]) \in Nat /\ DOMAIN ss[k] = 1..Len(ss[k])
             /\ \A e : e \in rows[k] <=> \E i \in DOMAIN ss[k] : ss[k][i] = e
             /\ \A i, j \in DOMAIN ss[k] : ss[k][i] = ss[k][j] => i = j
  <2>1. Lists(ss[k], rows[k])
    OBVIOUS
  <2>2. /\ ss[k] \in Seq(rows[k]) /\ Len(ss[k]) \in Nat /\ DOMAIN ss[k] = 1..Len(ss[k])
        /\ \A e : e \in rows[k] <=> \E i \in DOMAIN ss[k] : ss[k][i] = e
    BY <2>1, ListHolds
  <2>3. ss[k] \in Seq(S)
    <3> DEFINE s == ss[k]  R == rows[k]
    <3>1. s \in Seq(R) /\ R \in SUBSET S
      BY <1>1, <2>2
    <3> HIDE DEF s, R
    <3>2. s \in Seq(S)
      BY <3>1
    <3>3. QED BY <3>2 DEF s
  <2>4. QED BY <2>1, <2>2, <2>3 DEF Lists
<1>3. ss \in Seq(Seq(S)) /\ Len(ss) = N /\ DOMAIN ss = 1..N
  BY <1>1, <1>2, SeqMade
<1>4. PICK start : Flat(out, ss, start) /\ out \in Seq(S)
  BY <1>3, FlattenIs
<1> HIDE DEF out
<1>5. /\ DOMAIN out = 1..Len(out) /\ Len(out) \in Nat
      /\ \A k \in 1..N : start[k] \in Nat
      /\ \A k \in 1..N : \A i \in DOMAIN ss[k] : start[k] + i \in DOMAIN out /\ out[start[k] + i] = ss[k][i]
      /\ \A k, m \in 1..N : k < m => start[k] + Len(ss[k]) <= start[m]
      /\ \A p \in DOMAIN out : \E k \in 1..N : \E i \in DOMAIN ss[k] : p = start[k] + i
  BY <1>3, <1>4 DEF Flat
<1>6. ASSUME NEW p \in DOMAIN out, NEW k \in 1..N, out[p] \in rows[k]
      PROVE  \E i \in DOMAIN ss[k] : p = start[k] + i
  <2>1. PICK l \in 1..N : \E i \in DOMAIN ss[l] : p = start[l] + i
    BY <1>5
  <2>2. PICK i \in DOMAIN ss[l] : p = start[l] + i
    BY <2>1
  <2>3. out[p] = ss[l][i] /\ ss[l][i] \in rows[l]
    BY <1>2, <1>5, <2>2
  <2>4. l = k
    BY <1>1, <1>6, <2>3
  <2>5. QED BY <2>2, <2>4
<1>7. ASSUME NEW p \in DOMAIN out PROVE \E k \in 1..N : out[p] \in rows[k]
  <2>1. PICK k \in 1..N : \E i \in DOMAIN ss[k] : p = start[k] + i
    BY <1>5
  <2>2. PICK i \in DOMAIN ss[k] : p = start[k] + i
    BY <2>1
  <2>3. out[p] = ss[k][i] /\ ss[k][i] \in rows[k]
    BY <1>2, <1>5, <2>2
  <2>4. QED BY <2>3
<1>8. ASSUME NEW p \in DOMAIN out, NEW r \in DOMAIN out, NEW k \in 1..N, NEW m \in 1..N,
             out[p] \in rows[k], out[r] \in rows[m], k < m
      PROVE  p < r
  <2>1. PICK i \in DOMAIN ss[k] : p = start[k] + i
    BY <1>6, <1>8
  <2>2. PICK j \in DOMAIN ss[m] : r = start[m] + j
    BY <1>6, <1>8
  <2> DEFINE l == Len(ss[k])
             h == Len(ss[m])
  <2>3. l \in Nat /\ DOMAIN ss[k] = 1..l /\ h \in Nat /\ DOMAIN ss[m] = 1..h
    BY <1>2
  <2>4. start[k] + l <= start[m] /\ start[k] \in Nat /\ start[m] \in Nat
    BY <1>5, <1>8
  <2> HIDE DEF l, h
  <2>5. i \in 1..l /\ j \in 1..h
    BY <2>1, <2>2, <2>3
  <2>6. QED BY <2>1, <2>2, <2>3, <2>4, <2>5
<1>9. ASSUME NEW p \in DOMAIN out, NEW r \in DOMAIN out, out[p] = out[r] PROVE p = r
  <2>1. PICK k \in 1..N : out[p] \in rows[k]
    BY <1>7
  <2>2. PICK i \in DOMAIN ss[k] : p = start[k] + i
    BY <1>6, <2>1
  <2>3. PICK j \in DOMAIN ss[k] : r = start[k] + j
    BY <1>6, <1>9, <2>1
  <2>4. ss[k][i] = ss[k][j]
    BY <1>5, <1>9, <2>2, <2>3
  <2>5. i = j
    BY <1>2, <2>4
  <2>6. QED BY <2>2, <2>3, <2>5
<1>10. ASSUME NEW e \in S PROVE \E p \in DOMAIN out : out[p] = e
  <2>1. PICK k \in 1..N : e \in rows[k]
    BY <1>1
  <2>2. PICK i \in DOMAIN ss[k] : ss[k][i] = e
    BY <1>2, <2>1
  <2>3. QED BY <1>5, <2>2
<1>11. Lists(out, S)
  BY <1>4, <1>5, <1>9, <1>10 DEF Lists
<1>12. QED BY <1>8, <1>11 DEF out

\* q puts the first of each pair of P before the second.
Heeds(q, P) == \A k, m \in DOMAIN q : <<q[k], q[m]>> \in P => k < m

\* One stands wholly above the other, and no chain of elements that run on
\* joins them.
Down0(boxes, S) == {w \in S \X S : boxes[w[1]].y1 <= boxes[w[2]].y0 /\ ~ Tied(boxes, S, w[1], w[2])}

LEMMA BandSortIs ==
    ASSUME NEW boxes, NEW S, Standing(boxes, S)
    PROVE  Lists(BandSort(boxes, S), S) /\ Heeds(BandSort(boxes, S), Down0(boxes, S))
<1> DEFINE rows == Joined1(boxes, <<>>, DownBox(boxes, S))
           N == Len(rows)
           ss == [k \in DOMAIN rows |-> AcrossBox(boxes, rows[k])]
           out == FlattenSeq(ss)
<1>1. BandSort(boxes, S) = out
  BY DEF BandSort, Joined1, DownBox, DownBoxAt, DownBoxKey, AcrossBox, AcrossBoxAt, AcrossBoxKey, Ordered
<1>2. RowInv(boxes, S, rows, S)
  BY RowsAre
<1> HIDE DEF rows, out
<1>3. /\ rows \in Seq(SUBSET S)
      /\ \A k \in DOMAIN rows : rows[k] \subseteq S /\ rows[k] # {}
      /\ \A i \in S : \E k \in DOMAIN rows : i \in rows[k]
      /\ \A k, m \in DOMAIN rows : \A i : i \in rows[k] /\ i \in rows[m] => k = m
      /\ \A k, m \in DOMAIN rows : k < m => \A i \in rows[k], j \in rows[m] : boxes[i].y0 <= boxes[j].y0
      /\ \A k \in DOMAIN rows : \A C : Shut(boxes, S, C) /\ C \cap rows[k] # {} => rows[k] \subseteq C
  BY <1>2 DEF RowInv
<1>4. N \in Nat /\ DOMAIN rows = 1..N
  BY <1>3, SeqHas
<1> HIDE DEF N
<1>5. Parting(rows, N, S)
  BY <1>3, <1>4 DEF Parting
<1>6. \A k \in 1..N : Lists(AcrossBox(boxes, rows[k]), rows[k])
  <2> SUFFICES ASSUME NEW k \in 1..N PROVE Lists(AcrossBox(boxes, rows[k]), rows[k])
    OBVIOUS
  <2>1. rows[k] \in SUBSET S
    BY <1>3, <1>4
  <2>2. Standing(boxes, rows[k])
    BY <2>1, StandingIs
  <2>3. rows[k] \in SUBSET Int /\ IsFiniteSet(rows[k]) /\ \A e \in rows[k] : boxes[e] \in Bounding
    BY <2>2, StandingIs
  <2>4. QED BY <2>3, AcrossBoxIs
<1>7. ss = [k \in 1..N |-> ss[k]] /\ \A k \in 1..N : Lists(ss[k], rows[k])
  BY <1>4, <1>6
<1> HIDE DEF ss
<1>8. /\ Lists(out, S)
      /\ \A p, r \in DOMAIN out : \A k, m \in 1..N :
            out[p] \in rows[k] /\ out[r] \in rows[m] /\ k < m => p < r
  <2>1. /\ Lists(FlattenSeq(ss), S)
        /\ \A p, r \in DOMAIN FlattenSeq(ss) : \A k, m \in 1..N :
              FlattenSeq(ss)[p] \in rows[k] /\ FlattenSeq(ss)[r] \in rows[m] /\ k < m => p < r
    BY <1>5, <1>7, RowsLaid
  <2>2. QED BY <2>1 DEF out
<1>9. ASSUME NEW p \in DOMAIN out, NEW r \in DOMAIN out, <<out[p], out[r]>> \in Down0(boxes, S)
      PROVE  p < r
  <2> DEFINE i == out[p]  j == out[r]
  <2>1. i \in S /\ j \in S /\ boxes[i].y1 <= boxes[j].y0 /\ ~ Tied(boxes, S, i, j)
    BY <1>9 DEF Down0
  <2>2. PICK C : Shut(boxes, S, C) /\ i \in C /\ j \notin C
    BY <2>1, TiedIs
  <2>3. PICK k \in 1..N : i \in rows[k]
    BY <1>3, <1>4, <2>1
  <2>4. PICK m \in 1..N : j \in rows[m]
    BY <1>3, <1>4, <2>1
  <2> HIDE DEF i, j
  <2>5. k # m
    <3> SUFFICES ASSUME k = m PROVE FALSE
      OBVIOUS
    <3>1. C \cap rows[k] # {}
      BY <2>2, <2>3
    <3>2. rows[k] \subseteq C
      BY <1>3, <1>4, <2>2, <3>1
    <3>3. QED BY <2>2, <2>4, <3>2
  <2>6. ~(m < k)
    <3> SUFFICES ASSUME m < k PROVE FALSE
      OBVIOUS
    <3>1. boxes[j].y0 <= boxes[i].y0
      BY <1>3, <1>4, <2>3, <2>4
    <3> DEFINE iy == boxes[i].y0  iz == boxes[i].y1  jy == boxes[j].y0
    <3>2. iy \in Int /\ iz \in Int /\ jy \in Int /\ iy <= iz /\ iz <= jy /\ jy <= iy
      BY <2>1, <3>1, StandingIs
    <3> HIDE DEF iy, iz, jy
    <3>3. jy - iy \in -Tolerance..Tolerance
      BY <3>2 DEF Tolerance
    <3>4. RunOn(boxes[i], boxes[j])
      BY <3>3 DEF RunOn, iy, jy
    <3>5. j \in C
      BY <2>1, <2>2, <3>4 DEF Shut
    <3>6. QED BY <2>2, <3>5
  <2>7. k < m
    BY <1>4, <2>5, <2>6
  <2>8. QED BY <1>8, <2>3, <2>4, <2>7 DEF i, j
<1>10. QED BY <1>1, <1>8, <1>9 DEF Heeds

(***************************************************************************)
(* The gutter: no narrow element crosses or touches it.                    *)
(***************************************************************************)

\* From the left, the shorter first.
SweepBoxKey(boxes, i) == <<boxes[i].x0, boxes[i].x1, i>>
SweepBoxAt(boxes, S, m) ==
    CHOOSE v \in S : Cardinality({d \in S : Less(SweepBoxKey(boxes, d), SweepBoxKey(boxes, v))}) = m - 1
SweepBox(boxes, S) == [m \in 1..Cardinality(S) |-> SweepBoxAt(boxes, S, m)]

LEMMA SweepBoxIs ==
    ASSUME NEW boxes, NEW S \in SUBSET Int, IsFiniteSet(S), \A e \in S : boxes[e] \in Bounding
    PROVE  Lists(SweepBox(boxes, S), S) /\ Enumerates(SweepBox(boxes, S), S, Keyed(S, [i \in S |-> <<boxes[i].x0, boxes[i].x1, i>>]))
<1> DEFINE q == SweepBox(boxes, S)
           K == [i \in S |-> <<boxes[i].x0, boxes[i].x1, i>>]
<1>1. \A i \in S : boxes[i].x0 \in Int /\ boxes[i].x1 \in Int /\ i \in Int
  BY DEF Bounding
<1>2. Keys(S, K)
  <2>1. K \in [S -> Int \X Int \X Int]
    BY <1>1
  <2>2. \A i \in S : K[i][3] = i
    OBVIOUS
  <2> HIDE DEF K
  <2>3. QED BY <2>1, <2>2 DEF Keys
<1>3. ASSUME NEW d \in S, NEW v \in S PROVE Less(SweepBoxKey(boxes, d), SweepBoxKey(boxes, v)) <=> Less(K[d], K[v])
  BY DEF SweepBoxKey
<1> HIDE DEF K
<1>4. ASSUME NEW v \in S PROVE Cardinality({d \in S : Less(SweepBoxKey(boxes, d), SweepBoxKey(boxes, v))}) = Below(S, K, v)
  <2>1. {d \in S : Less(SweepBoxKey(boxes, d), SweepBoxKey(boxes, v))} = {d \in S : Less(K[d], K[v])}
    BY <1>3
  <2>2. QED BY <2>1 DEF Below
<1>5. ASSUME NEW m \in 1..Cardinality(S), \E v \in S : Below(S, K, v) = m - 1
      PROVE  q[m] \in S /\ Below(S, K, q[m]) = m - 1
  <2>1. q[m] = CHOOSE v \in S : Cardinality({d \in S : Less(SweepBoxKey(boxes, d), SweepBoxKey(boxes, v))}) = m - 1
    BY DEF SweepBox, SweepBoxAt
  <2>2. \E v \in S : Cardinality({d \in S : Less(SweepBoxKey(boxes, d), SweepBoxKey(boxes, v))}) = m - 1
    BY <1>4, <1>5
  <2> HIDE DEF q
  <2>3. q[m] \in S /\ Cardinality({d \in S : Less(SweepBoxKey(boxes, d), SweepBoxKey(boxes, q[m]))}) = m - 1
    BY <2>1, <2>2
  <2>4. QED BY <1>4, <2>3
<1>6. q = [m \in 1..Cardinality(S) |-> q[m]]
  BY DEF SweepBox
<1> HIDE DEF q
<1>7. Sorting(q, S, K)
  BY <1>5, <1>6 DEF Sorting
<1>8. Lists(q, S) /\ Enumerates(q, S, Keyed(S, K))
  BY <1>2, <1>7, SortedIs
<1>9. QED BY <1>8 DEF q, K


LEMMA SweepBoxRuns ==
    ASSUME NEW boxes, NEW S, Standing(boxes, S)
    PROVE  /\ Lists(SweepBox(boxes, S), S)
           /\ \A k, m \in DOMAIN SweepBox(boxes, S) :
                 k < m => boxes[SweepBox(boxes, S)[k]].x0 <= boxes[SweepBox(boxes, S)[m]].x0
<1> DEFINE q == SweepBox(boxes, S)
           K == [i \in S |-> <<boxes[i].x0, boxes[i].x1, i>>]
<1>1. /\ S \in SUBSET Int /\ IsFiniteSet(S) /\ \A i \in S : boxes[i] \in Bounding
      /\ \A i \in S : boxes[i].x0 \in Int /\ boxes[i].x1 \in Int /\ i \in Int
  BY StandingIs
<1>2. Lists(q, S) /\ Enumerates(q, S, Keyed(S, K))
  BY <1>1, SweepBoxIs
<1>3. ASSUME NEW a \in S, NEW b \in S, <<a, b>> \in Keyed(S, K) PROVE boxes[a].x0 <= boxes[b].x0
  <2> DEFINE a1 == boxes[a].x0  a2 == boxes[a].x1
             b1 == boxes[b].x0  b2 == boxes[b].x1
  <2>1. a1 \in Int /\ a2 \in Int /\ b1 \in Int /\ b2 \in Int /\ a \in Int /\ b \in Int
    BY <1>1
  <2>2. Less(<<a1, a2, a>>, <<b1, b2, b>>)
    BY <1>3 DEF Keyed
  <2> HIDE DEF a1, a2, b1, b2
  <2>3. a1 <= b1
    BY <2>1, <2>2, LessIs
  <2>4. QED BY <2>3 DEF a1, b1
<1> HIDE DEF q, K
<1>4. \A k, m \in DOMAIN q : k < m => boxes[q[k]].x0 <= boxes[q[m]].x0
  <2> SUFFICES ASSUME NEW k \in DOMAIN q, NEW m \in DOMAIN q, k < m PROVE boxes[q[k]].x0 <= boxes[q[m]].x0
    OBVIOUS
  <2>1. q[k] \in S /\ q[m] \in S /\ <<q[k], q[m]>> \in Keyed(S, K)
    BY <1>2 DEF Enumerates
  <2>2. QED BY <1>3, <2>1
<1>5. QED BY <1>2, <1>4 DEF q

\* What an element does to the widest strip so far.
Swept(boxes, acc, i) ==
    LET gap == boxes[i].x0 - acc.reach
    IN  [reach |-> Max({acc.reach, boxes[i].x1}),
         gap |-> Max({acc.gap, gap}),
         twice |-> IF gap > acc.gap THEN 2 * acc.reach + gap ELSE acc.twice]
SweptAll(boxes, x, q) ==
    LET sweep(acc, i) ==
            LET gap == boxes[i].x0 - acc.reach
            IN  [reach |-> Max({acc.reach, boxes[i].x1}),
                 gap |-> Max({acc.gap, gap}),
                 twice |-> IF gap > acc.gap THEN 2 * acc.reach + gap ELSE acc.twice]
    IN  FoldLeft(sweep, x, q)

LEMMA SweepRuns ==
    ASSUME NEW boxes, NEW x, NEW q, NEW N, Indexed(q, N)
    PROVE  \E f : /\ f[0] = x /\ SweptAll(boxes, x, q) = f[N]
                  /\ \A k \in 1..N : f[k] = Swept(boxes, f[k - 1], q[k])
<1> N \in Nat /\ DOMAIN q = 1..N
  BY DEF Indexed
<1> DEFINE Good(h, m) == h = [T \in SUBSET (1..m) |-> IF T = {} THEN x ELSE Swept(boxes, h[T \ {Max(T)}], q[Max(T)])]
           Bad == {m \in 0..N : ~ \E h : Good(h, m)}
           iter[T \in SUBSET DOMAIN q] ==
               IF T = {} THEN x ELSE LET m == Max(T) IN Swept(boxes, iter[T \ {m}], q[m])
<1>1. SweptAll(boxes, x, q) = iter[DOMAIN q]
  BY DEF SweptAll, Swept, FoldLeft, MapThenFoldSet
<1>2. \E h : Good(h, 0)
  <2> DEFINE h == [T \in SUBSET (1..0) |-> x]
  <2>1. 1..0 = {} /\ \A T \in SUBSET (1..0) : T = {}
    OBVIOUS
  <2>2. Good(h, 0)
    BY <2>1
  <2>3. QED BY <2>2
<1>3. ASSUME NEW m \in 0..(N - 1), NEW h, Good(h, m) PROVE \E g : Good(g, m + 1)
  <2> DEFINE z == m + 1
             D == 1..z
             g == [T \in SUBSET D |-> IF z \in T THEN Swept(boxes, h[T \ {z}], q[z]) ELSE h[T]]
             of(T) == IF T = {} THEN x ELSE Swept(boxes, g[T \ {Max(T)}], q[Max(T)])
  <2>1. z \in Nat /\ IsFiniteSet(D) /\ D \in SUBSET Int /\ z \in D
        /\ \A k \in D : k <= z /\ (k # z => k \in 1..m)
    BY FS_Interval
  <2>2. \A T \in SUBSET D : z \notin T => T \in SUBSET (1..m)
    BY <2>1
  <2>3. \A T \in SUBSET (1..m) : T \in SUBSET D /\ z \notin T
    OBVIOUS
  <2>4. \A T \in SUBSET (1..m) : h[T] = IF T = {} THEN x ELSE Swept(boxes, h[T \ {Max(T)}], q[Max(T)])
    BY <1>3
  <2>5. \A T \in SUBSET D : T # {} => Max(T) \in T /\ \A k \in T : k <= Max(T)
    <3> SUFFICES ASSUME NEW T \in SUBSET D, T # {} PROVE Max(T) \in T /\ \A k \in T : k <= Max(T)
      OBVIOUS
    <3>1. T \in SUBSET Int /\ IsFiniteSet(T)
      BY <2>1, FS_Subset
    <3>2. QED BY <3>1, MaxIs
  <2> HIDE DEF Good, D
  <2>6. \A T \in SUBSET D : g[T] = IF z \in T THEN Swept(boxes, h[T \ {z}], q[z]) ELSE h[T]
    OBVIOUS
  <2> HIDE DEF g, z
  <2>7. ASSUME NEW T \in SUBSET D PROVE g[T] = of(T)
    <3>1. CASE z \in T
      <4>1. Max(T) = z
        <5>1. Max(T) \in T /\ z <= Max(T)
          BY <2>5, <3>1
        <5>2. Max(T) <= z /\ Max(T) \in Int
          BY <2>1, <5>1
        <5>3. QED BY <2>1, <5>1, <5>2
      <4>2. T \ {z} \in SUBSET D /\ z \notin T \ {z}
        OBVIOUS
      <4>3. g[T \ {z}] = h[T \ {z}]
        BY <2>6, <4>2
      <4>4. g[T] = Swept(boxes, h[T \ {z}], q[z])
        BY <2>6, <3>1
      <4>5. QED BY <3>1, <4>1, <4>3, <4>4
    <3>2. CASE z \notin T
      <4>1. g[T] = h[T] /\ T \in SUBSET (1..m)
        BY <2>2, <2>6, <3>2
      <4>2. CASE T = {}
        BY <2>4, <4>1, <4>2
      <4>3. CASE T # {}
        <5> DEFINE t == Max(T)
        <5>1. T \ {t} \in SUBSET D /\ z \notin T \ {t}
          BY <3>2
        <5>2. g[T \ {t}] = h[T \ {t}]
          BY <2>6, <5>1
        <5>3. h[T] = Swept(boxes, h[T \ {t}], q[t])
          BY <2>4, <4>1, <4>3
        <5>4. QED BY <4>1, <4>3, <5>2, <5>3
      <4>4. QED BY <4>2, <4>3
    <3>3. QED BY <3>1, <3>2
  <2>8. g = [T \in SUBSET D |-> g[T]]
    BY DEF g
  <2>9. g = [T \in SUBSET D |-> of(T)]
    BY <2>7, <2>8
  <2>10. Good(g, z)
    BY <2>9 DEF Good, D
  <2>11. QED BY <2>10 DEF z
<1> HIDE DEF Good
<1>4. Bad = {}
  <2> SUFFICES ASSUME Bad # {} PROVE FALSE
    OBVIOUS
  <2>1. Bad \in SUBSET (0..N) /\ IsFiniteSet(0..N)
    BY FS_Interval
  <2>2. Bad \in SUBSET Int /\ IsFiniteSet(Bad)
    BY <2>1, FS_Subset
  <2> DEFINE b == Min(Bad)
  <2>3. b \in Bad /\ \A k \in Bad : b <= k
    BY <2>2, MinIs
  <2> HIDE DEF b
  <2>4. b \in 0..N /\ ~ \E h : Good(h, b)
    BY <2>3
  <2>5. b # 0
    BY <1>2, <2>4
  <2> DEFINE a == b - 1
  <2>6. a \in 0..(N - 1) /\ a + 1 = b /\ a \in 0..N /\ ~ (b <= a)
    BY <2>4, <2>5
  <2> HIDE DEF a
  <2>7. a \notin Bad
    BY <2>3, <2>6
  <2>8. \E h : Good(h, a)
    BY <2>6, <2>7
  <2>9. \E h : Good(h, a + 1)
    BY <1>3, <2>6, <2>8
  <2>10. QED BY <2>4, <2>6, <2>9
<1>5. PICK h : Good(h, N)
  <2>1. N \in 0..N /\ N \notin Bad
    BY <1>4
  <2>2. QED BY <2>1
<1>6. h = [T \in SUBSET DOMAIN q |-> IF T = {} THEN x ELSE LET m == Max(T) IN Swept(boxes, h[T \ {m}], q[m])]
  BY <1>5 DEF Good
<1>7. iter = [T \in SUBSET DOMAIN q |-> IF T = {} THEN x ELSE LET m == Max(T) IN Swept(boxes, iter[T \ {m}], q[m])]
  BY <1>6
<1> HIDE DEF iter
<1> DEFINE f == [k \in 0..N |-> iter[1..k]]
<1>8. f[0] = x /\ f[N] = iter[DOMAIN q]
  <2>1. 1..0 = {} /\ 0 \in 0..N /\ N \in 0..N
    OBVIOUS
  <2>2. QED BY <1>7, <2>1
<1>9. \A k \in 1..N : f[k] = Swept(boxes, f[k - 1], q[k])
  <2> SUFFICES ASSUME NEW k \in 1..N PROVE f[k] = Swept(boxes, f[k - 1], q[k])
    OBVIOUS
  <2> DEFINE D == 1..k
  <2>1. k \in 0..N /\ k - 1 \in 0..N /\ D \in SUBSET (1..N) /\ D # {} /\ Max(D) = k /\ D \ {Max(D)} = 1..(k - 1)
    BY Within1N
  <2> HIDE DEF D
  <2>2. iter[D] = Swept(boxes, iter[1..(k - 1)], q[k])
    BY <1>7, <2>1
  <2>3. QED BY <2>1, <2>2 DEF D
<1> HIDE DEF f
<1>10. QED BY <1>1, <1>8, <1>9


SweepInv(boxes, D, acc) ==
    /\ acc.reach \in Int /\ acc.gap \in Nat /\ acc.twice \in Int
    /\ \A i \in D : boxes[i].x1 <= acc.reach
    /\ acc.gap > 0 =>
          /\ \E j \in D : 2 * boxes[j].x0 > acc.twice
          /\ \A i \in D : 2 * boxes[i].x1 < acc.twice \/ 2 * boxes[i].x0 > acc.twice

LEMMA SweepKeeps ==
    ASSUME NEW boxes, NEW S, Standing(boxes, S), NEW D \in SUBSET S, NEW acc, SweepInv(boxes, D, acc),
           NEW i \in S, \A j \in D : boxes[j].x0 <= boxes[i].x0
    PROVE  SweepInv(boxes, D \cup {i}, Swept(boxes, acc, i))
<1> DEFINE r == Swept(boxes, acc, i)
           a == acc.reach  g == acc.gap  t == acc.twice
           x == boxes[i].x0  z == boxes[i].x1  gap == x - a
<1>1. /\ a \in Int /\ g \in Nat /\ t \in Int
      /\ \A j \in D : boxes[j].x1 <= a
      /\ g > 0 => /\ \E j \in D : 2 * boxes[j].x0 > t
                  /\ \A j \in D : 2 * boxes[j].x1 < t \/ 2 * boxes[j].x0 > t
  BY DEF SweepInv
<1>2. x \in Int /\ z \in Int /\ x <= z /\ \A j \in D : boxes[j].x0 \in Int /\ boxes[j].x1 \in Int
  BY StandingIs
<1>3. /\ r.reach = Max({a, z}) /\ r.gap = Max({g, gap})
      /\ r.twice = IF gap > g THEN 2 * a + gap ELSE t
  BY DEF Swept
<1> DEFINE ra == r.reach  rg == r.gap  rt == r.twice
<1>4. \A j \in D : boxes[j].x0 <= x
  OBVIOUS
<1> HIDE DEF a, g, t, x, z, r
<1>5. gap \in Int
  BY <1>1, <1>2
<1>6. /\ ra = (IF a <= z THEN z ELSE a) /\ rg = (IF g <= gap THEN gap ELSE g)
      /\ rt = IF gap > g THEN 2 * a + gap ELSE t
  <2> HIDE DEF gap
  <2>1. a \in Int /\ z \in Int /\ g \in Int /\ gap \in Int
    BY <1>1, <1>2, <1>5
  <2>2. QED BY <1>3, <2>1, OfTwo
<1> HIDE DEF ra, rg, rt
<1>7. ra \in Int /\ rg \in Nat /\ rt \in Int /\ a <= ra /\ z <= ra
  BY <1>1, <1>2, <1>6
<1>8. \A j \in D : boxes[j].x1 <= ra
  BY <1>1, <1>2, <1>7
<1>9. CASE gap > g
  <2>1. rt = 2 * a + gap /\ gap = x - a /\ gap > 0
    BY <1>1, <1>2, <1>5, <1>6, <1>9
  <2>2. 2 * x > rt /\ 2 * a < rt
    BY <1>1, <1>2, <2>1
  <2>3. \A j \in D : 2 * boxes[j].x1 < rt
    BY <1>1, <1>2, <1>7, <2>2
  <2>4. QED BY <1>7, <1>8, <2>2, <2>3 DEF SweepInv, ra, rg, rt, r, x, z
<1>10. CASE ~(gap > g)
  <2>1. rt = t /\ rg = g
    BY <1>1, <1>5, <1>6, <1>10
  <2>2. g > 0 => 2 * x > t
    BY <1>1, <1>2, <1>4
  <2>3. QED BY <1>1, <1>7, <1>8, <2>1, <2>2 DEF SweepInv, ra, rg, rt, r, x, z
<1>11. QED BY <1>9, <1>10

LEMMA GutterIs ==
    ASSUME NEW boxes, NEW S, Standing(boxes, S), NEW width \in Int
    PROVE  /\ Gutter(boxes, S, width) \in Int
           /\ Gutter(boxes, S, width) # 0 =>
                 /\ width > 0
                 /\ \A i \in S : 10 * Wide(boxes[i]) < 8 * width =>
                       \/ 2 * boxes[i].x1 < Gutter(boxes, S, width)
                       \/ 2 * boxes[i].x0 > Gutter(boxes, S, width)
<1> DEFINE R == {i \in S : 10 * Wide(boxes[i]) < 8 * width}
           order == SweepBox(boxes, R)
           first == [reach |-> boxes[order[1]].x1, gap |-> 0, twice |-> 0]
           best == SweptAll(boxes, first, Tail(order))
           g == Gutter(boxes, S, width)
           N == Len(order)
           c == Cardinality(R)
<1>1. g = IF c < 2 \/ width <= 0 THEN 0
          ELSE IF best.gap > 0 /\ 100 * best.gap >= 6 * width THEN best.twice ELSE 0
  BY DEF Gutter, SweptAll, SweepBox, SweepBoxAt, SweepBoxKey, Ordered
<1> HIDE DEF g, best, c
<1>2. CASE c < 2 \/ width <= 0
  BY <1>1, <1>2 DEF g
<1>3. CASE ~(c < 2 \/ width <= 0)
  <2>1. Standing(boxes, R)
    BY StandingIs
  <2>2. R \in SUBSET S
    OBVIOUS
  <2> HIDE DEF R
  <2>3. Lists(order, R) /\ \A k, m \in DOMAIN order : k < m => boxes[order[k]].x0 <= boxes[order[m]].x0
    BY <2>1, SweepBoxRuns
  <2>4. R # {}
    <3> SUFFICES ASSUME R = {} PROVE FALSE
      OBVIOUS
    <3>1. c = 0
      BY FS_EmptySet DEF c
    <3>2. QED BY <1>3, <3>1
  <2> DEFINE q == Tail(order)
  <2> HIDE DEF order
  <2>5. /\ N \in Nat /\ DOMAIN order = 1..N /\ order \in Seq(R) /\ Passed(order, N) = R
        /\ \A k \in 1..N : /\ Passed(order, k) = Passed(order, k - 1) \cup {order[k]}
                           /\ order[k] \notin Passed(order, k - 1) /\ order[k] \in R
        /\ Passed(order, 0) = {}
    BY <2>3, PassedAre
  <2>6. N # 0
    BY <2>4, <2>5
  <2> HIDE DEF N
  <2> DEFINE M == N - 1
  <2>7. M \in Nat /\ DOMAIN q = 1..M /\ \A k \in 1..M : q[k] = order[k + 1]
    <3>1. Len(order) = N /\ order # <<>>
      BY <2>5, <2>6 DEF N
    <3>2. Len(q) = N - 1 /\ DOMAIN q = 1..(N - 1) /\ \A k \in 1..(N - 1) : q[k] = order[k + 1]
      BY <2>5, <2>6, <3>1
    <3>3. QED BY <2>5, <2>6, <3>2
  <2> HIDE DEF q
  <2>8. \E f : /\ f[0] = first /\ SweptAll(boxes, first, q) = f[M]
               /\ \A k \in 1..M : f[k] = Swept(boxes, f[k - 1], q[k])
    <3> HIDE DEF first, M
    <3>1. Indexed(q, M)
      BY <2>7 DEF Indexed
    <3>2. QED BY <3>1, SweepRuns
  <2>9. PICK f : /\ f[0] = first /\ SweptAll(boxes, first, q) = f[M]
                 /\ \A k \in 1..M : f[k] = Swept(boxes, f[k - 1], q[k])
    BY <2>8
  <2> DEFINE T == {k \in 0..M : SweepInv(boxes, Passed(order, k + 1), f[k])}
  <2>10. 0 \in T
    <3>1. 1 \in 1..N /\ 1 - 1 = 0
      BY <2>5, <2>6
    <3>2. Passed(order, 1) = {order[1]} /\ order[1] \in R
      BY <2>5, <3>1
    <3>3. boxes[order[1]].x1 \in Int
      BY <2>1, <3>2, StandingIs
    <3>4. SweepInv(boxes, {order[1]}, first)
      BY <3>3 DEF SweepInv
    <3>5. 0 \in 0..M /\ 0 + 1 = 1
      BY <2>7
    <3>6. SweepInv(boxes, Passed(order, 0 + 1), f[0])
      BY <2>9, <3>2, <3>4, <3>5
    <3>7. QED BY <3>5, <3>6
  <2> HIDE DEF first
  <2>11. ASSUME NEW k \in 1..M, k - 1 \in T PROVE k \in T
    <3>1. k \in 0..M /\ (k - 1) + 1 = k /\ k + 1 \in 1..N /\ (k + 1) - 1 = k /\ k \in 1..N
      BY <2>5, <2>7
    <3>2. SweepInv(boxes, Passed(order, k), f[k - 1])
      BY <2>11, <3>1
    <3>3. /\ order[k + 1] \in R /\ q[k] = order[k + 1]
          /\ Passed(order, k + 1) = Passed(order, k) \cup {order[k + 1]}
      BY <2>5, <2>7, <3>1
    <3>4. ASSUME NEW j \in Passed(order, k) PROVE j \in R /\ boxes[j].x0 <= boxes[order[k + 1]].x0
      <4>1. PICK m \in 1..k : order[m] = j
        BY DEF Passed
      <4>2. m \in 1..N /\ m < k + 1
        BY <2>5, <3>1
      <4>3. QED BY <2>3, <2>5, <3>1, <4>1, <4>2
    <3>5. SweepInv(boxes, Passed(order, k) \cup {order[k + 1]}, Swept(boxes, f[k - 1], order[k + 1]))
      <4>1. Passed(order, k) \in SUBSET R
        BY <3>4
      <4>2. QED BY <2>1, <3>2, <3>3, <3>4, <4>1, SweepKeeps
    <3>6. f[k] = Swept(boxes, f[k - 1], order[k + 1])
      BY <2>9, <3>3
    <3>7. SweepInv(boxes, Passed(order, k + 1), f[k])
      BY <3>3, <3>5, <3>6
    <3>8. QED BY <3>1, <3>7
  <2> HIDE DEF T
  <2>12. \A k \in 0..M : k \in T
    BY <2>7, <2>10, <2>11, UpTo
  <2>13. SweepInv(boxes, Passed(order, M + 1), f[M])
    BY <2>7, <2>12 DEF T
  <2>14. SweepInv(boxes, R, best)
    <3>1. M + 1 = N /\ best = f[M]
      BY <2>5, <2>9 DEF best, q, order, first
    <3>2. QED BY <2>5, <2>13, <3>1
  <2>15. /\ best.gap \in Nat /\ best.twice \in Int
         /\ best.gap > 0 => \A i \in R : 2 * boxes[i].x1 < best.twice \/ 2 * boxes[i].x0 > best.twice
    BY <2>14 DEF SweepInv
  <2>16. g = 0 \/ (g = best.twice /\ best.gap > 0)
    BY <1>1
  <2>17. width > 0
    BY <1>3
  <2>18. g \in Int /\ (g # 0 => \A i \in R : 2 * boxes[i].x1 < g \/ 2 * boxes[i].x0 > g)
    BY <2>15, <2>16
  <2>19. QED BY <2>17, <2>18 DEF g, R
<1>4. QED BY <1>2, <1>3

(***************************************************************************)
(* The elements across the columns among those of the columns.             *)
(***************************************************************************)
LEMMA HeedsJoin ==
    ASSUME NEW P, NEW A, NEW B, NEW s, Lists(s, A), NEW t, Lists(t, B), \A x \in A : x \notin B,
           Heeds(s, P), Heeds(t, P), \A x \in B, y \in A : <<x, y>> \notin P
    PROVE  Lists(s \o t, A \cup B) /\ Heeds(s \o t, P)
<1> DEFINE u == s \o t
           E == A \cup B
           a == Len(s)
           b == Len(t)
<1>1. Lists(u, E)
  BY ListsJoin
<1>2. /\ s \in Seq(E) /\ DOMAIN s = 1..a /\ a \in Nat /\ (\A i \in 1..a : s[i] \in A)
      /\ t \in Seq(E) /\ DOMAIN t = 1..b /\ b \in Nat /\ \A i \in 1..b : t[i] \in B
  <2>1. s \in Seq(A) /\ t \in Seq(B)
    BY DEF Lists
  <2>2. QED BY <2>1
<1>3. /\ Len(u) = a + b
      /\ \A i \in 1..a : u[i] = s[i]
      /\ \A i \in 1..b : u[a + i] = t[i]
  BY <1>2, ConcatIs
<1>4. DOMAIN u = 1..(a + b)
  BY <1>1, <1>3 DEF Lists
<1> HIDE DEF u, a, b
<1>5. ASSUME NEW k \in 1..(a + b), NEW m \in 1..(a + b), <<u[k], u[m]>> \in P PROVE k < m
  <2>1. CASE k <= a /\ m <= a
    <3>1. k \in 1..a /\ m \in 1..a
      BY <1>2, <2>1
    <3>2. <<s[k], s[m]>> \in P
      BY <1>3, <1>5, <3>1
    <3>3. QED BY <1>2, <3>1, <3>2 DEF Heeds
  <2>2. CASE k <= a /\ ~(m <= a)
    BY <1>2, <2>2
  <2>3. CASE ~(k <= a) /\ m <= a
    <3>1. m \in 1..a /\ k - a \in 1..b /\ a + (k - a) = k
      BY <1>2, <2>3
    <3>2. u[m] \in A /\ u[k] \in B
      BY <1>2, <1>3, <3>1
    <3>3. QED BY <1>5, <3>2
  <2>4. CASE ~(k <= a) /\ ~(m <= a)
    <3>1. m - a \in 1..b /\ k - a \in 1..b /\ a + (k - a) = k /\ a + (m - a) = m
      BY <1>2, <2>4
    <3>2. <<t[k - a], t[m - a]>> \in P
      BY <1>3, <1>5, <3>1
    <3>3. k - a < m - a
      BY <1>2, <3>1, <3>2 DEF Heeds
    <3>4. QED BY <1>2, <3>3
  <2>5. QED BY <2>1, <2>2, <2>3, <2>4
<1>6. QED BY <1>1, <1>4, <1>5 DEF Heeds, u

LEMMA HeedsPicked ==
    ASSUME NEW P, NEW L, NEW q, Lists(q, L), Heeds(q, P), NEW T \in SUBSET DOMAIN q
    PROVE  Lists(Picked(q, T), {q[k] : k \in T}) /\ Heeds(Picked(q, T), P)
<1> DEFINE r == Picked(q, T)
           V == {q[k] : k \in T}
<1>1. /\ q \in Seq(L) /\ DOMAIN q = 1..Len(q) /\ Len(q) \in Nat
      /\ \A i, j \in DOMAIN q : q[i] = q[j] => i = j
  BY DEF Lists
<1>2. PICK at : /\ Enumerates(at, T, Up(T))
                /\ r \in Seq(L) /\ DOMAIN r = DOMAIN at /\ Len(r) = Cardinality(T)
                /\ \A k \in DOMAIN at : at[k] \in T /\ r[k] = q[at[k]]
  BY <1>1, PickedIs
<1>3. /\ DOMAIN at = 1..Cardinality(T)
      /\ \A e \in T : \E i \in DOMAIN at : at[i] = e
      /\ \A i, j \in DOMAIN at : i < j => <<at[i], at[j]>> \in Up(T)
  BY <1>2 DEF Enumerates
<1> HIDE DEF r
<1> DEFINE N == Len(r)
<1>4. N \in Nat /\ DOMAIN r = 1..N /\ DOMAIN at = 1..N
  BY <1>2, SeqHas
<1>5. \A k \in 1..N : at[k] \in T /\ r[k] = q[at[k]] /\ at[k] \in Int
  <2>1. \A k \in 1..N : at[k] \in T /\ r[k] = q[at[k]]
    BY <1>2, <1>4
  <2>2. \A e \in T : e \in Int
    BY <1>1
  <2>3. QED BY <2>1, <2>2
<1>6. \A i, j \in 1..N : i < j => at[i] < at[j]
  BY <1>3, <1>4, <1>5, UpDown
<1> HIDE DEF N
<1>7. \A i, j \in 1..N : at[i] < at[j] => i < j
  <2> SUFFICES ASSUME NEW i \in 1..N, NEW j \in 1..N, at[i] < at[j], ~(i < j) PROVE FALSE
    OBVIOUS
  <2>1. i = j \/ j < i
    BY <1>4
  <2>2. CASE j < i
    <3>1. at[j] < at[i] /\ at[i] \in Int /\ at[j] \in Int
      BY <1>5, <1>6, <2>2
    <3>2. QED BY <3>1
  <2>3. CASE i = j
    <3>1. at[i] \in Int
      BY <1>5
    <3>2. QED BY <2>3, <3>1
  <2>4. QED BY <2>1, <2>2, <2>3
<1>8. r = [k \in 1..N |-> r[k]] /\ \A k \in 1..N : r[k] \in V
  BY <1>2, <1>4, <1>5
<1>9. r \in Seq(V) /\ Len(r) = N
  <2> HIDE DEF V
  <2>1. QED BY <1>4, <1>8, SeqMade
<1>10. \A i, j \in 1..N : r[i] = r[j] => i = j
  <2> SUFFICES ASSUME NEW i \in 1..N, NEW j \in 1..N, r[i] = r[j] PROVE i = j
    OBVIOUS
  <2>1. at[i] = at[j] /\ at[i] \in Int /\ at[j] \in Int
    BY <1>1, <1>5
  <2>2. ~(at[i] < at[j]) /\ ~(at[j] < at[i])
    BY <2>1
  <2>3. ~(i < j) /\ ~(j < i)
    BY <1>6, <2>2
  <2>4. QED BY <1>4, <2>3
<1>11. \A e \in V : \E i \in 1..N : r[i] = e
  <2> SUFFICES ASSUME NEW j \in T PROVE \E i \in 1..N : r[i] = q[j]
    OBVIOUS
  <2>1. PICK i \in 1..N : at[i] = j
    BY <1>3, <1>4
  <2>2. QED BY <1>5, <2>1
<1>12. Lists(r, V)
  <2> HIDE DEF V
  <2>1. QED BY <1>4, <1>9, <1>10, <1>11 DEF Lists
<1>13. ASSUME NEW k \in 1..N, NEW m \in 1..N, <<r[k], r[m]>> \in P PROVE k < m
  <2>1. at[k] \in DOMAIN q /\ at[m] \in DOMAIN q /\ <<q[at[k]], q[at[m]]>> \in P
    BY <1>5, <1>13
  <2>2. at[k] < at[m]
    BY <2>1 DEF Heeds
  <2>3. QED BY <1>7, <2>2
<1>14. Heeds(r, P)
  BY <1>4, <1>13 DEF Heeds
<1>15. QED BY <1>12, <1>14 DEF r

\* What an element across the columns does.
PutAcross(boxes, acc, s) ==
    LET above == {k \in DOMAIN acc.rest : boxes[acc.rest[k]].y1 <= boxes[s].y0}
    IN  [out |-> Append(acc.out \o Picked(acc.rest, above), s),
         rest |-> Picked(acc.rest, DOMAIN acc.rest \ above)]
PutAll(boxes, x, q) ==
    LET put(acc, s) ==
            LET above == {k \in DOMAIN acc.rest : boxes[acc.rest[k]].y1 <= boxes[s].y0}
            IN  [out |-> Append(acc.out \o Picked(acc.rest, above), s),
                 rest |-> Picked(acc.rest, DOMAIN acc.rest \ above)]
    IN  FoldLeft(put, x, q)

LEMMA PutRuns1 ==
    ASSUME NEW boxes, NEW x, NEW q, NEW N, Indexed(q, N)
    PROVE  \E f : /\ f[0] = x /\ PutAll(boxes, x, q) = f[N]
                  /\ \A k \in 1..N : f[k] = PutAcross(boxes, f[k - 1], q[k])
<1> N \in Nat /\ DOMAIN q = 1..N
  BY DEF Indexed
<1> DEFINE Good(h, m) == h = [T \in SUBSET (1..m) |-> IF T = {} THEN x ELSE PutAcross(boxes, h[T \ {Max(T)}], q[Max(T)])]
           Bad == {m \in 0..N : ~ \E h : Good(h, m)}
           iter[T \in SUBSET DOMAIN q] ==
               IF T = {} THEN x ELSE LET m == Max(T) IN PutAcross(boxes, iter[T \ {m}], q[m])
<1>1. PutAll(boxes, x, q) = iter[DOMAIN q]
  BY DEF PutAll, PutAcross, FoldLeft, MapThenFoldSet
<1>2. \E h : Good(h, 0)
  <2> DEFINE h == [T \in SUBSET (1..0) |-> x]
  <2>1. 1..0 = {} /\ \A T \in SUBSET (1..0) : T = {}
    OBVIOUS
  <2>2. Good(h, 0)
    BY <2>1
  <2>3. QED BY <2>2
<1>3. ASSUME NEW m \in 0..(N - 1), NEW h, Good(h, m) PROVE \E g : Good(g, m + 1)
  <2> DEFINE z == m + 1
             D == 1..z
             g == [T \in SUBSET D |-> IF z \in T THEN PutAcross(boxes, h[T \ {z}], q[z]) ELSE h[T]]
             of(T) == IF T = {} THEN x ELSE PutAcross(boxes, g[T \ {Max(T)}], q[Max(T)])
  <2>1. z \in Nat /\ IsFiniteSet(D) /\ D \in SUBSET Int /\ z \in D
        /\ \A k \in D : k <= z /\ (k # z => k \in 1..m)
    BY FS_Interval
  <2>2. \A T \in SUBSET D : z \notin T => T \in SUBSET (1..m)
    BY <2>1
  <2>3. \A T \in SUBSET (1..m) : T \in SUBSET D /\ z \notin T
    OBVIOUS
  <2>4. \A T \in SUBSET (1..m) : h[T] = IF T = {} THEN x ELSE PutAcross(boxes, h[T \ {Max(T)}], q[Max(T)])
    BY <1>3
  <2>5. \A T \in SUBSET D : T # {} => Max(T) \in T /\ \A k \in T : k <= Max(T)
    <3> SUFFICES ASSUME NEW T \in SUBSET D, T # {} PROVE Max(T) \in T /\ \A k \in T : k <= Max(T)
      OBVIOUS
    <3>1. T \in SUBSET Int /\ IsFiniteSet(T)
      BY <2>1, FS_Subset
    <3>2. QED BY <3>1, MaxIs
  <2> HIDE DEF Good, D
  <2>6. \A T \in SUBSET D : g[T] = IF z \in T THEN PutAcross(boxes, h[T \ {z}], q[z]) ELSE h[T]
    OBVIOUS
  <2> HIDE DEF g, z
  <2>7. ASSUME NEW T \in SUBSET D PROVE g[T] = of(T)
    <3>1. CASE z \in T
      <4>1. Max(T) = z
        <5>1. Max(T) \in T /\ z <= Max(T)
          BY <2>5, <3>1
        <5>2. Max(T) <= z /\ Max(T) \in Int
          BY <2>1, <5>1
        <5>3. QED BY <2>1, <5>1, <5>2
      <4>2. T \ {z} \in SUBSET D /\ z \notin T \ {z}
        OBVIOUS
      <4>3. g[T \ {z}] = h[T \ {z}]
        BY <2>6, <4>2
      <4>4. g[T] = PutAcross(boxes, h[T \ {z}], q[z])
        BY <2>6, <3>1
      <4>5. QED BY <3>1, <4>1, <4>3, <4>4
    <3>2. CASE z \notin T
      <4>1. g[T] = h[T] /\ T \in SUBSET (1..m)
        BY <2>2, <2>6, <3>2
      <4>2. CASE T = {}
        BY <2>4, <4>1, <4>2
      <4>3. CASE T # {}
        <5> DEFINE t == Max(T)
        <5>1. T \ {t} \in SUBSET D /\ z \notin T \ {t}
          BY <3>2
        <5>2. g[T \ {t}] = h[T \ {t}]
          BY <2>6, <5>1
        <5>3. h[T] = PutAcross(boxes, h[T \ {t}], q[t])
          BY <2>4, <4>1, <4>3
        <5>4. QED BY <4>1, <4>3, <5>2, <5>3
      <4>4. QED BY <4>2, <4>3
    <3>3. QED BY <3>1, <3>2
  <2>8. g = [T \in SUBSET D |-> g[T]]
    BY DEF g
  <2>9. g = [T \in SUBSET D |-> of(T)]
    BY <2>7, <2>8
  <2>10. Good(g, z)
    BY <2>9 DEF Good, D
  <2>11. QED BY <2>10 DEF z
<1> HIDE DEF Good
<1>4. Bad = {}
  <2> SUFFICES ASSUME Bad # {} PROVE FALSE
    OBVIOUS
  <2>1. Bad \in SUBSET (0..N) /\ IsFiniteSet(0..N)
    BY FS_Interval
  <2>2. Bad \in SUBSET Int /\ IsFiniteSet(Bad)
    BY <2>1, FS_Subset
  <2> DEFINE b == Min(Bad)
  <2>3. b \in Bad /\ \A k \in Bad : b <= k
    BY <2>2, MinIs
  <2> HIDE DEF b
  <2>4. b \in 0..N /\ ~ \E h : Good(h, b)
    BY <2>3
  <2>5. b # 0
    BY <1>2, <2>4
  <2> DEFINE a == b - 1
  <2>6. a \in 0..(N - 1) /\ a + 1 = b /\ a \in 0..N /\ ~ (b <= a)
    BY <2>4, <2>5
  <2> HIDE DEF a
  <2>7. a \notin Bad
    BY <2>3, <2>6
  <2>8. \E h : Good(h, a)
    BY <2>6, <2>7
  <2>9. \E h : Good(h, a + 1)
    BY <1>3, <2>6, <2>8
  <2>10. QED BY <2>4, <2>6, <2>9
<1>5. PICK h : Good(h, N)
  <2>1. N \in 0..N /\ N \notin Bad
    BY <1>4
  <2>2. QED BY <2>1
<1>6. h = [T \in SUBSET DOMAIN q |-> IF T = {} THEN x ELSE LET m == Max(T) IN PutAcross(boxes, h[T \ {m}], q[m])]
  BY <1>5 DEF Good
<1>7. iter = [T \in SUBSET DOMAIN q |-> IF T = {} THEN x ELSE LET m == Max(T) IN PutAcross(boxes, iter[T \ {m}], q[m])]
  BY <1>6
<1> HIDE DEF iter
<1> DEFINE f == [k \in 0..N |-> iter[1..k]]
<1>8. f[0] = x /\ f[N] = iter[DOMAIN q]
  <2>1. 1..0 = {} /\ 0 \in 0..N /\ N \in 0..N
    OBVIOUS
  <2>2. QED BY <1>7, <2>1
<1>9. \A k \in 1..N : f[k] = PutAcross(boxes, f[k - 1], q[k])
  <2> SUFFICES ASSUME NEW k \in 1..N PROVE f[k] = PutAcross(boxes, f[k - 1], q[k])
    OBVIOUS
  <2> DEFINE D == 1..k
  <2>1. k \in 0..N /\ k - 1 \in 0..N /\ D \in SUBSET (1..N) /\ D # {} /\ Max(D) = k /\ D \ {Max(D)} = 1..(k - 1)
    BY Within1N
  <2> HIDE DEF D
  <2>2. iter[D] = PutAcross(boxes, iter[1..(k - 1)], q[k])
    BY <1>7, <2>1
  <2>3. QED BY <2>1, <2>2 DEF D
<1> HIDE DEF f
<1>10. QED BY <1>1, <1>8, <1>9

\* Which element the interleaving of two lists puts before which: of the
\* columns, the upper one, if it ends first; of those across, the earlier
\* one; one of the columns before one across below it; and one across before
\* one of the columns that is above none of those across so far.
Woven(boxes, columns, across, i, j) ==
    \/ \E k, m \in DOMAIN columns :
          k < m /\ columns[k] = i /\ columns[m] = j /\ boxes[i].y1 <= boxes[j].y1
    \/ \E k, m \in DOMAIN across : k < m /\ across[k] = i /\ across[m] = j
    \/ i \in ToSet(columns) /\ j \in ToSet(across) /\ boxes[i].y1 <= boxes[j].y0
    \/ /\ i \in ToSet(across) /\ j \in ToSet(columns)
       /\ \A k, m \in DOMAIN across : across[k] = i /\ m <= k => ~(boxes[j].y1 <= boxes[across[m]].y0)
Weave(boxes, columns, across, D) == {w \in D \X D : Woven(boxes, columns, across, w[1], w[2])}

\* The elements of the columns that are above one of the first k across.
GoneBy(boxes, L, across, k) == {c \in L : \E m \in 1..k : boxes[c].y1 <= boxes[across[m]].y0}

Threads(boxes, L, A, columns, across) ==
    /\ Standing(boxes, L \cup A) /\ Lists(columns, L) /\ Lists(across, A) /\ \A c \in L : c \notin A

LEMMA ThreadsAre ==
    ASSUME NEW boxes, NEW L, NEW A, NEW columns, NEW across, Threads(boxes, L, A, columns, across)
    PROVE  /\ \A c : c \in L <=> \E k \in DOMAIN columns : columns[k] = c
           /\ \A c : c \in A <=> \E k \in DOMAIN across : across[k] = c
           /\ \A k, m \in DOMAIN across : across[k] = across[m] => k = m
           /\ ToSet(columns) = L /\ ToSet(across) = A
           /\ \A i \in L \cup A : boxes[i].y0 \in Int /\ boxes[i].y1 \in Int /\ boxes[i].y0 <= boxes[i].y1
<1>1. Lists(columns, L) /\ Lists(across, A) /\ Standing(boxes, L \cup A)
  BY DEF Threads
<1>2. /\ \A c : c \in L <=> \E k \in DOMAIN columns : columns[k] = c
      /\ \A c : c \in A <=> \E k \in DOMAIN across : across[k] = c
  BY <1>1, ListHolds
<1>3. \A k, m \in DOMAIN across : across[k] = across[m] => k = m
  BY <1>1 DEF Lists
<1>4. ToSet(columns) = L
  BY <1>2 DEF ToSet
<1>5. ToSet(across) = A
  BY <1>2 DEF ToSet
<1>6. QED BY <1>1, <1>2, <1>3, <1>4, <1>5, StandingIs

\* No element that is left goes before one that is out.
LEMMA NoneBack ==
    ASSUME NEW boxes, NEW L, NEW A, NEW columns, NEW across, Threads(boxes, L, A, columns, across),
           NEW k \in 0..Len(across),
           NEW x \in L, x \notin GoneBy(boxes, L, across, k),
           NEW y, y \in Passed(across, k) \cup GoneBy(boxes, L, across, k)
    PROVE  ~ Woven(boxes, columns, across, x, y)
<1>1. /\ \A c : c \in L <=> \E m \in DOMAIN columns : columns[m] = c
      /\ \A c : c \in A <=> \E m \in DOMAIN across : across[m] = c
      /\ ToSet(columns) = L /\ ToSet(across) = A
      /\ \A i \in L \cup A : boxes[i].y0 \in Int /\ boxes[i].y1 \in Int /\ boxes[i].y0 <= boxes[i].y1
  BY ThreadsAre
<1>2. \A c \in L : c \notin A
  BY DEF Threads
<1>3. DOMAIN across = 1..Len(across) /\ Len(across) \in Nat
  BY DEF Threads, Lists
<1>4. \A m \in 1..k : m \in DOMAIN across /\ ~(boxes[x].y1 <= boxes[across[m]].y0)
  BY <1>3 DEF GoneBy
<1> SUFFICES ASSUME Woven(boxes, columns, across, x, y) PROVE FALSE
  OBVIOUS
<1>5. \/ y \in L /\ boxes[x].y1 <= boxes[y].y1
      \/ y \in A /\ boxes[x].y1 <= boxes[y].y0
  BY <1>1, <1>2 DEF Woven
<1>6. CASE y \in Passed(across, k)
  <2>1. PICK m \in 1..k : across[m] = y
    BY <1>6 DEF Passed
  <2>2. y \in A
    BY <1>1, <1>4, <2>1
  <2>3. QED BY <1>2, <1>4, <1>5, <2>1, <2>2
<1>7. CASE y \in GoneBy(boxes, L, across, k)
  <2>1. y \in L /\ \E m \in 1..k : boxes[y].y1 <= boxes[across[m]].y0
    BY <1>7 DEF GoneBy
  <2>2. PICK m \in 1..k : boxes[y].y1 <= boxes[across[m]].y0
    BY <2>1
  <2>3. across[m] \in A
    BY <1>1, <1>4
  <2>4. boxes[x].y1 <= boxes[y].y1
    BY <1>2, <1>5, <2>1
  <2>5. boxes[x].y1 <= boxes[across[m]].y0
    <3> DEFINE a == boxes[x].y1  b == boxes[y].y1  c == boxes[across[m]].y0
    <3>1. a \in Int /\ b \in Int /\ c \in Int /\ a <= b /\ b <= c
      BY <1>1, <2>1, <2>2, <2>3, <2>4
    <3> HIDE DEF a, b, c
    <3>2. a <= c
      BY <3>1
    <3>3. QED BY <3>2 DEF a, c
  <2>6. QED BY <1>4, <2>5
<1>8. QED BY <1>6, <1>7

WeaveInv(boxes, L, A, columns, across, P, k, acc) ==
    /\ Lists(acc.out, Passed(across, k) \cup GoneBy(boxes, L, across, k))
    /\ Lists(acc.rest, L \ GoneBy(boxes, L, across, k))
    /\ Heeds(acc.out, P) /\ Heeds(acc.rest, P)

LEMMA PutKeeps ==
    ASSUME NEW boxes, NEW L, NEW A, NEW columns, NEW across, Threads(boxes, L, A, columns, across),
           NEW P, P = Weave(boxes, columns, across, L \cup A),
           NEW k \in 1..Len(across), NEW acc, WeaveInv(boxes, L, A, columns, across, P, k - 1, acc)
    PROVE  WeaveInv(boxes, L, A, columns, across, P, k, PutAcross(boxes, acc, across[k]))
<1> DEFINE s == across[k]
           out == acc.out
           rest == acc.rest
           U == {j \in DOMAIN rest : boxes[rest[j]].y1 <= boxes[s].y0}
           W == DOMAIN rest \ U
           G == GoneBy(boxes, L, across, k - 1)
           H == GoneBy(boxes, L, across, k)
           D == Passed(across, k - 1) \cup G
           V == {c \in L \ G : boxes[c].y1 <= boxes[s].y0}
           p == Picked(rest, U)
           q == Picked(rest, W)
<1>1. /\ \A c : c \in L <=> \E m \in DOMAIN columns : columns[m] = c
      /\ \A c : c \in A <=> \E m \in DOMAIN across : across[m] = c
      /\ \A m, l \in DOMAIN across : across[m] = across[l] => m = l
      /\ ToSet(columns) = L /\ ToSet(across) = A
  BY ThreadsAre
<1>2. \A c \in L : c \notin A
  BY DEF Threads
<1>3. Len(across) \in Nat /\ DOMAIN across = 1..Len(across)
  BY DEF Threads, Lists
<1>4. /\ Passed(across, k) = Passed(across, k - 1) \cup {s} /\ s \notin Passed(across, k - 1)
      /\ s \in A /\ k - 1 \in 0..Len(across) /\ \A m \in 1..k : m \in 1..(k - 1) \/ m = k
  <2>1. Lists(across, A)
    BY DEF Threads
  <2>2. Passed(across, k) = Passed(across, k - 1) \cup {s} /\ s \notin Passed(across, k - 1) /\ s \in A
    BY <2>1, PassedAre
  <2>3. QED BY <1>3, <2>2
<1>5. Lists(out, D) /\ Lists(rest, L \ G) /\ Heeds(out, P) /\ Heeds(rest, P)
  BY DEF WeaveInv
<1>6. H = G \cup V
  <2>1. \A c \in L : c \in H <=> c \in G \/ boxes[c].y1 <= boxes[s].y0
    <3> SUFFICES ASSUME NEW c \in L PROVE c \in H <=> c \in G \/ boxes[c].y1 <= boxes[s].y0
      OBVIOUS
    <3>1. c \in H <=> \E m \in 1..k : boxes[c].y1 <= boxes[across[m]].y0
      BY DEF GoneBy
    <3>2. c \in G <=> \E m \in 1..(k - 1) : boxes[c].y1 <= boxes[across[m]].y0
      BY DEF GoneBy
    <3>3. k \in 1..k /\ \A m \in 1..(k - 1) : m \in 1..k
      BY <1>3
    <3>4. QED BY <1>4, <3>1, <3>2, <3>3
  <2>2. H \subseteq L /\ G \subseteq L
    BY DEF GoneBy
  <2>3. QED BY <2>1, <2>2
<1>7. \A e : e \in L \ G <=> \E j \in DOMAIN rest : rest[j] = e
  BY ZenonT(30), <1>5, ListHolds
<1>8. {rest[j] : j \in U} = V
  BY <1>7
<1>9. {rest[j] : j \in W} = L \ H
  <2>1. \A e : e \in {rest[j] : j \in W} <=> \E j \in DOMAIN rest : rest[j] = e /\ ~(boxes[e].y1 <= boxes[s].y0)
    OBVIOUS
  <2>2. \A e : e \in L \ H <=> e \in L \ G /\ ~(boxes[e].y1 <= boxes[s].y0)
    BY <1>6
  <2>3. QED BY <1>7, <2>1, <2>2
<1>10. Lists(p, V) /\ Heeds(p, P)
  <2>1. U \in SUBSET DOMAIN rest
    OBVIOUS
  <2> HIDE DEF U, V, rest
  <2>2. Lists(p, {rest[j] : j \in U}) /\ Heeds(p, P)
    BY <1>5, <2>1, HeedsPicked
  <2>3. QED BY <1>8, <2>2
<1>11. Lists(q, L \ H) /\ Heeds(q, P)
  <2>1. W \in SUBSET DOMAIN rest
    OBVIOUS
  <2> HIDE DEF W, H, rest
  <2>2. Lists(q, {rest[j] : j \in W}) /\ Heeds(q, P)
    BY <1>5, <2>1, HeedsPicked
  <2>3. QED BY <1>9, <2>2
<1>12. PutAcross(boxes, acc, s) = [out |-> Append(out \o p, s), rest |-> q]
  BY DEF PutAcross
<1>13. \A x, y : <<x, y>> \in P => Woven(boxes, columns, across, x, y)
  <2> SUFFICES ASSUME NEW x, NEW y, <<x, y>> \in P PROVE Woven(boxes, columns, across, x, y)
    OBVIOUS
  <2> DEFINE w == <<x, y>>
  <2>1. w[1] = x /\ w[2] = y
    OBVIOUS
  <2>2. w \in P
    OBVIOUS
  <2> HIDE DEF w
  <2>3. Woven(boxes, columns, across, w[1], w[2])
    BY <2>2 DEF Weave
  <2>4. QED BY <2>1, <2>3
<1>14. \A x \in L : x \notin G => \A y \in D : <<x, y>> \notin P
  <2> SUFFICES ASSUME NEW x \in L, x \notin G, NEW y \in D, <<x, y>> \in P PROVE FALSE
    OBVIOUS
  <2>1. ~ Woven(boxes, columns, across, x, y)
    BY <1>4, NoneBack
  <2>2. QED BY <1>13, <2>1
<1> HIDE DEF out, rest, p, q
<1>15. Lists(out \o p, D \cup V) /\ Heeds(out \o p, P)
  <2>1. \A x \in V, y \in D : <<x, y>> \notin P
    BY <1>14
  <2>2. \A x \in D : x \notin V
    <3>1. \A x \in V : x \in L /\ x \notin G
      OBVIOUS
    <3>2. \A x \in Passed(across, k - 1) : x \in A
      BY <1>1, <1>3, <1>4 DEF Passed
    <3>3. QED BY <1>2, <3>1, <3>2
  <2> HIDE DEF D, V
  <2>3. QED BY <1>5, <1>10, <2>1, <2>2, HeedsJoin
<1>16. \A y \in D \cup V : <<s, y>> \notin P /\ y # s
  <2> SUFFICES ASSUME NEW y \in D \cup V PROVE <<s, y>> \notin P /\ y # s
    OBVIOUS
  <2>1. CASE y \in Passed(across, k - 1)
    <3>1. PICK m \in 1..(k - 1) : across[m] = y
      BY <2>1 DEF Passed
    <3>2. m \in DOMAIN across /\ k \in DOMAIN across /\ m < k /\ y \in A
      BY <1>1, <1>3, <3>1
    <3>3. ~ Woven(boxes, columns, across, s, y)
      <4> SUFFICES ASSUME Woven(boxes, columns, across, s, y) PROVE FALSE
        OBVIOUS
      <4>1. \E l, h \in DOMAIN across : l < h /\ across[l] = s /\ across[h] = y
        BY <1>1, <1>2, <1>4, <3>2 DEF Woven
      <4>2. k < m
        BY <1>1, <3>1, <3>2, <4>1
      <4>3. QED BY <1>3, <3>2, <4>2
    <3>4. QED BY <1>4, <1>13, <2>1, <3>3
  <2>2. CASE y \in G \cup V
    <3>1. y \in L /\ \E m \in 1..k : boxes[y].y1 <= boxes[across[m]].y0
      <4>1. y \in H
        BY <1>6, <2>2
      <4>2. QED BY <4>1 DEF GoneBy
    <3>2. PICK m \in 1..k : boxes[y].y1 <= boxes[across[m]].y0
      BY <3>1
    <3>3. m \in DOMAIN across /\ k \in DOMAIN across /\ m <= k
      BY <1>3
    <3>4. ~ Woven(boxes, columns, across, s, y)
      BY <1>1, <1>2, <1>4, <3>1, <3>2, <3>3 DEF Woven
    <3>5. QED BY <1>2, <1>4, <1>13, <3>1, <3>4
  <2>3. QED BY <2>1, <2>2
<1>17. /\ Lists(Append(out \o p, s), (D \cup V) \cup {s}) /\ Heeds(Append(out \o p, s), P)
  <2> DEFINE u == out \o p
             one == <<s>>
             E == (D \cup V) \cup {s}
  <2>1. Lists(one, {s})
    <3>1. one \in Seq({s}) /\ Len(one) = 1 /\ DOMAIN one = 1..1 /\ one[1] = s
      OBVIOUS
    <3> HIDE DEF one
    <3>2. QED BY <3>1 DEF Lists
  <2>2. Heeds(one, P)
    <3>1. <<s, s>> \notin P
      <4>1. ~ Woven(boxes, columns, across, s, s)
        <5> SUFFICES ASSUME Woven(boxes, columns, across, s, s) PROVE FALSE
          OBVIOUS
        <5>1. \E l, h \in DOMAIN across : l < h /\ across[l] = s /\ across[h] = s
          BY <1>1, <1>2, <1>4 DEF Woven
        <5>2. \E l \in DOMAIN across : l < l
          BY <1>1, <5>1
        <5>3. QED BY <1>3, <5>2
      <4>2. QED BY <1>13, <4>1
    <3>2. DOMAIN one = {1} /\ one[1] = s
      OBVIOUS
    <3> HIDE DEF one
    <3>3. QED BY <3>1, <3>2 DEF Heeds
  <2>3. u \in Seq(D \cup V)
    BY <1>15 DEF Lists
  <2>4. Append(u, s) = u \o one
    <3> HIDE DEF u
    <3>1. QED BY <2>3
  <2> HIDE DEF u, one, s
  <2>5. \A x \in {s}, y \in D \cup V : <<x, y>> \notin P
    BY <1>16
  <2>6. \A x \in D \cup V : x \notin {s}
    BY <1>16
  <2>7. Lists(u, D \cup V) /\ Heeds(u, P)
    BY <1>15 DEF u
  <2> HIDE DEF D, V
  <2>8. Lists(u \o one, (D \cup V) \cup {s}) /\ Heeds(u \o one, P)
    BY <2>1, <2>2, <2>5, <2>6, <2>7, HeedsJoin
  <2>9. QED BY <2>4, <2>8 DEF u
<1>18. (D \cup V) \cup {s} = Passed(across, k) \cup H
  BY <1>4, <1>6
<1> DEFINE u == Append(out \o p, s)
           r == [out |-> u, rest |-> q]
<1>19. r.out = u /\ r.rest = q
  OBVIOUS
<1>20. /\ Lists(u, Passed(across, k) \cup H) /\ Heeds(u, P)
       /\ Lists(q, L \ H) /\ Heeds(q, P)
  BY <1>11, <1>17, <1>18
<1> HIDE DEF u, r
<1>21. WeaveInv(boxes, L, A, columns, across, P, k, r)
  BY <1>19, <1>20 DEF WeaveInv
<1>22. QED BY <1>12, <1>21 DEF r, u

LEMMA InterleavedRuns ==
    ASSUME NEW boxes, NEW columns, NEW across
    PROVE  Interleaved(boxes, columns, across) =
               PutAll(boxes, [out |-> <<>>, rest |-> columns], across).out
                   \o PutAll(boxes, [out |-> <<>>, rest |-> columns], across).rest
  BY DEF Interleaved, PutAll

LEMMA InterleavedIs ==
    ASSUME NEW boxes, NEW L, NEW A, NEW columns, NEW across, Threads(boxes, L, A, columns, across)
    PROVE  /\ Lists(Interleaved(boxes, columns, across), L \cup A)
           /\ Heeds(Interleaved(boxes, columns, across), Weave(boxes, columns, across, L \cup A))
<1> DEFINE P == Weave(boxes, columns, across, L \cup A)
           x == [out |-> <<>>, rest |-> columns]
           N == Len(across)
<1>1. /\ N \in Nat /\ DOMAIN across = 1..N
      /\ Lists(columns, L) /\ Lists(across, A) /\ Standing(boxes, L \cup A)
      /\ \A c \in L : c \notin A
  BY DEF Threads, Lists
<1>2. Indexed(across, N)
  BY <1>1 DEF Indexed
<1> HIDE DEF N
<1>3. \E f : /\ f[0] = x /\ PutAll(boxes, x, across) = f[N]
             /\ \A k \in 1..N : f[k] = PutAcross(boxes, f[k - 1], across[k])
  <2> HIDE DEF x
  <2>1. QED BY <1>2, PutRuns1
<1>4. PICK f : /\ f[0] = x /\ PutAll(boxes, x, across) = f[N]
               /\ \A k \in 1..N : f[k] = PutAcross(boxes, f[k - 1], across[k])
  BY <1>3
<1> DEFINE T == {k \in 0..N : WeaveInv(boxes, L, A, columns, across, P, k, f[k])}
<1>5. Passed(across, 0) = {} /\ Passed(across, N) = A
  BY <1>1, PassedAre DEF N
<1>6. 0 \in T
  <2>1. GoneBy(boxes, L, across, 0) = {}
    BY DEF GoneBy
  <2>2. x.out = <<>> /\ x.rest = columns
    OBVIOUS
  <2> HIDE DEF x, P
  <2>3. Lists(<<>>, {})
    <3> DEFINE e == <<>>
    <3>1. e \in Seq({}) /\ Len(e) = 0 /\ DOMAIN e = {} /\ 1..0 = {}
      OBVIOUS
    <3> HIDE DEF e
    <3>2. Lists(e, {})
      BY <3>1 DEF Lists
    <3>3. QED BY <3>2 DEF e
  <2>4. Heeds(<<>>, P)
    <3>1. DOMAIN <<>> = {}
      OBVIOUS
    <3>2. QED BY <3>1 DEF Heeds
  <2>5. Heeds(columns, P)
    <3> SUFFICES ASSUME NEW k \in DOMAIN columns, NEW m \in DOMAIN columns, <<columns[k], columns[m]>> \in P
                 PROVE  k < m
      BY DEF Heeds
    <3> DEFINE i == columns[k]
               j == columns[m]
               w == <<i, j>>
    <3>1. w[1] = i /\ w[2] = j /\ w \in P
      OBVIOUS
    <3> HIDE DEF w
    <3>2. Woven(boxes, columns, across, w[1], w[2])
      BY <3>1 DEF P, Weave
    <3>3. Woven(boxes, columns, across, i, j)
      BY <3>1, <3>2
    <3>4. /\ \A c : c \in A <=> \E h \in DOMAIN across : across[h] = c
          /\ ToSet(across) = A
          /\ \A g, h \in DOMAIN columns : columns[g] = columns[h] => g = h
          /\ i \in L /\ j \in L
      BY <1>1, ThreadsAre DEF Lists
    <3>5. i \notin A /\ j \notin A
      BY <1>1, <3>4
    <3>6. \E g, h \in DOMAIN columns : g < h /\ columns[g] = i /\ columns[h] = j
      BY <3>3, <3>4, <3>5 DEF Woven
    <3>7. QED BY <3>4, <3>6
  <2>6. /\ Lists(x.out, Passed(across, 0) \cup GoneBy(boxes, L, across, 0))
        /\ Lists(x.rest, L \ GoneBy(boxes, L, across, 0))
    BY <1>1, <1>5, <2>1, <2>2, <2>3
  <2>7. WeaveInv(boxes, L, A, columns, across, P, 0, x)
    BY <2>2, <2>4, <2>5, <2>6 DEF WeaveInv
  <2>8. QED BY <1>1, <1>4, <2>7
<1>7. \A k \in 1..N : k - 1 \in T => k \in T
  <2> SUFFICES ASSUME NEW k \in 1..N, k - 1 \in T PROVE k \in T
    OBVIOUS
  <2>1. WeaveInv(boxes, L, A, columns, across, P, k - 1, f[k - 1]) /\ k \in 1..Len(across) /\ k \in 0..N
    BY <1>1 DEF N
  <2> HIDE DEF P
  <2>2. WeaveInv(boxes, L, A, columns, across, P, k, PutAcross(boxes, f[k - 1], across[k]))
    BY <2>1, PutKeeps DEF P
  <2>3. QED BY <1>4, <2>1, <2>2
<1>8. WeaveInv(boxes, L, A, columns, across, P, N, f[N])
  <2> HIDE DEF T
  <2>1. N \in T
    BY <1>1, <1>6, <1>7, UpTo
  <2>2. QED BY <2>1 DEF T
<1> DEFINE out == f[N].out
           rest == f[N].rest
           G == GoneBy(boxes, L, across, N)
<1>9. Lists(out, A \cup G) /\ Lists(rest, L \ G) /\ Heeds(out, P) /\ Heeds(rest, P)
  BY <1>5, <1>8 DEF WeaveInv
<1>10. \A u \in L \ G, y \in A \cup G : <<u, y>> \notin P
  <2> SUFFICES ASSUME NEW u \in L \ G, NEW y \in A \cup G, <<u, y>> \in P PROVE FALSE
    OBVIOUS
  <2>1. y \in Passed(across, N) \cup GoneBy(boxes, L, across, N) /\ N \in 0..Len(across) /\ u \in L
        /\ u \notin GoneBy(boxes, L, across, N)
    BY <1>1, <1>5 DEF N
  <2>2. ~ Woven(boxes, columns, across, u, y)
    BY <2>1, NoneBack
  <2> DEFINE w == <<u, y>>
  <2>3. w[1] = u /\ w[2] = y /\ w \in P
    OBVIOUS
  <2> HIDE DEF w
  <2>4. Woven(boxes, columns, across, w[1], w[2])
    BY <2>3 DEF P, Weave
  <2>5. QED BY <2>2, <2>3, <2>4
<1>11. \A u \in A \cup G : u \notin L \ G
  BY <1>1
<1>12. (A \cup G) \cup (L \ G) = L \cup A
  BY DEF GoneBy
<1>13. Interleaved(boxes, columns, across) = out \o rest
  BY <1>4, InterleavedRuns
<1> HIDE DEF out, rest, G, P
<1>14. Lists(out \o rest, (A \cup G) \cup (L \ G)) /\ Heeds(out \o rest, P)
  BY <1>9, <1>10, <1>11, HeedsJoin
<1>15. QED BY <1>12, <1>13, <1>14 DEF P

\* What stands on either side of a gutter.
LeftSide(boxes, S, g) == {m \in S : 2 * boxes[m].x1 <= g}
RightSide(boxes, S, g) == {m \in S : 2 * boxes[m].x0 >= g}
BroadOf(boxes, S, width) == {m \in S : 10 * Wide(boxes[m]) >= 8 * width}

LEMMA SidesAre ==
    ASSUME NEW boxes, NEW S, Standing(boxes, S), NEW width \in Int,
           NEW g, g = Gutter(boxes, S, width), g # 0
    PROVE  /\ \A i \in S : ~(i \in LeftSide(boxes, S, g) /\ i \in RightSide(boxes, S, g))
           /\ \A i \in S : i \notin LeftSide(boxes, S, g) /\ i \notin RightSide(boxes, S, g) => i \in BroadOf(boxes, S, width)
           /\ \A i, j \in S : i \in LeftSide(boxes, S, g) /\ j \in RightSide(boxes, S, g) => AlongX(boxes[i], boxes[j]) <= 0
           /\ \A i, j \in S : i \in RightSide(boxes, S, g) /\ j \in LeftSide(boxes, S, g) => AlongX(boxes[i], boxes[j]) <= 0
<1>1. /\ g \in Int /\ width > 0
      /\ \A i \in S : 10 * Wide(boxes[i]) < 8 * width => 2 * boxes[i].x1 < g \/ 2 * boxes[i].x0 > g
  BY GutterIs
<1>2. \A i \in S : boxes[i].x0 \in Int /\ boxes[i].x1 \in Int /\ boxes[i].x0 <= boxes[i].x1
  BY StandingIs
<1>3. ASSUME NEW i \in S, NEW a, a = boxes[i].x0, NEW b, b = boxes[i].x1
      PROVE  /\ ~(2 * b <= g /\ 2 * a >= g)
             /\ ~(2 * b <= g) /\ ~(2 * a >= g) => 10 * Wide(boxes[i]) >= 8 * width
  <2>1. /\ a \in Int /\ b \in Int /\ a <= b /\ Wide(boxes[i]) = b - a
        /\ (10 * Wide(boxes[i]) < 8 * width => 2 * b < g \/ 2 * a > g)
    BY <1>1, <1>2, <1>3 DEF Wide
  <2>2. QED BY <1>1, <2>1
<1>4. /\ \A i \in S : ~(i \in LeftSide(boxes, S, g) /\ i \in RightSide(boxes, S, g))
      /\ \A i \in S : i \notin LeftSide(boxes, S, g) /\ i \notin RightSide(boxes, S, g) => i \in BroadOf(boxes, S, width)
  BY <1>3 DEF LeftSide, RightSide, BroadOf
<1>5. ASSUME NEW i \in S, NEW j \in S, 2 * boxes[i].x1 <= g, 2 * boxes[j].x0 >= g
      PROVE  AlongX(boxes[i], boxes[j]) <= 0 /\ AlongX(boxes[j], boxes[i]) <= 0
  <2> DEFINE a == boxes[i].x0  b == boxes[i].x1  c == boxes[j].x0  d == boxes[j].x1
  <2>1. a \in Int /\ b \in Int /\ c \in Int /\ d \in Int /\ 2 * b <= g /\ 2 * c >= g
    BY <1>2, <1>5
  <2>2. /\ AlongX(boxes[i], boxes[j]) = Min({b, d}) - Max({a, c})
        /\ AlongX(boxes[j], boxes[i]) = Min({d, b}) - Max({c, a})
    BY DEF AlongX, Along
  <2> HIDE DEF a, b, c, d
  <2>3. /\ Min({b, d}) \in Int /\ Min({b, d}) <= b /\ Min({d, b}) \in Int /\ Min({d, b}) <= b
        /\ Max({a, c}) \in Int /\ Max({a, c}) >= c /\ Max({c, a}) \in Int /\ Max({c, a}) >= c
    <3>1. Min({b, d}) = (IF b <= d THEN b ELSE d) /\ Min({d, b}) = (IF d <= b THEN d ELSE b)
      BY <2>1, OfTwo
    <3>2. Max({a, c}) = (IF a <= c THEN c ELSE a) /\ Max({c, a}) = (IF c <= a THEN a ELSE c)
      BY <2>1, OfTwo
    <3> DEFINE p == Min({b, d})  q == Max({a, c})  r == Min({d, b})  t == Max({c, a})
    <3>3. /\ p = (IF b <= d THEN b ELSE d) /\ r = (IF d <= b THEN d ELSE b)
          /\ q = (IF a <= c THEN c ELSE a) /\ t = (IF c <= a THEN a ELSE c)
      BY <3>1, <3>2
    <3> HIDE DEF p, q, r, t
    <3>4. /\ p \in Int /\ p <= b /\ r \in Int /\ r <= b
          /\ q \in Int /\ q >= c /\ t \in Int /\ t >= c
      BY <2>1, <3>3
    <3>5. QED BY <3>4 DEF p, q, r, t
  <2>4. b <= c
    BY <1>1, <2>1
  <2> DEFINE p == Min({b, d})  q == Max({a, c})  r == Min({d, b})  t == Max({c, a})
  <2>5. p \in Int /\ p <= b /\ r \in Int /\ r <= b /\ q \in Int /\ q >= c /\ t \in Int /\ t >= c
    BY <2>3
  <2>6. AlongX(boxes[i], boxes[j]) = p - q /\ AlongX(boxes[j], boxes[i]) = r - t
    BY <2>2
  <2> HIDE DEF p, q, r, t
  <2>7. QED BY <2>1, <2>4, <2>5, <2>6
<1>6. /\ \A i, j \in S : i \in LeftSide(boxes, S, g) /\ j \in RightSide(boxes, S, g) => AlongX(boxes[i], boxes[j]) <= 0
      /\ \A i, j \in S : i \in RightSide(boxes, S, g) /\ j \in LeftSide(boxes, S, g) => AlongX(boxes[i], boxes[j]) <= 0
  BY <1>5 DEF LeftSide, RightSide
<1>7. QED BY <1>4, <1>6

\* What is tied among some is tied among more.
LEMMA TiedAmongMore ==
    ASSUME NEW boxes, NEW A, NEW B, A \subseteq B, NEW i \in A, NEW j, Tied(boxes, A, i, j)
    PROVE  Tied(boxes, B, i, j)
<1>1. \A C : Shut(boxes, A, C) /\ i \in C => j \in C
  BY TiedIs
<1>2. ASSUME NEW C, Shut(boxes, B, C), i \in C PROVE j \in C
  <2> DEFINE D == C \cap A
  <2>1. Shut(boxes, A, D)
    BY <1>2 DEF Shut
  <2>2. i \in D
    BY <1>2
  <2>3. QED BY <1>1, <2>1, <2>2
<1>3. QED BY <1>2, TiedIs

LEMMA RunsOnItself ==
    ASSUME NEW a \in Bounding, NEW b \in Bounding, a.y0 = b.y0
    PROVE  RunOn(a, b)
BY DEF RunOn, Tolerance, Bounding

\* An element of a column below one across, s, that s is not tied to: no
\* element across that comes no later than s is below it.
LEMMA NoneAcrossBelow ==
    ASSUME NEW boxes, NEW S, Standing(boxes, S), NEW A \in SUBSET S, NEW B \in SUBSET S, A \subseteq B,
           NEW s \in A, NEW c \in B, NEW t \in A,
           boxes[s].y1 <= boxes[c].y0, ~ Tied(boxes, B, s, c), t = s \/ Tied(boxes, A, s, t)
    PROVE  ~(boxes[c].y1 <= boxes[t].y0)
<1>1. \A i \in S : /\ boxes[i] \in Bounding /\ boxes[i].y0 \in Int /\ boxes[i].y1 \in Int
                   /\ boxes[i].y0 <= boxes[i].y1
  BY StandingIs
<1>2. PICK C : Shut(boxes, B, C) /\ s \in C /\ c \notin C
  BY TiedIs
<1> DEFINE U == {a \in C \cap A : boxes[a].y1 <= boxes[c].y0}
<1>3. Shut(boxes, A, U)
  <2> SUFFICES ASSUME NEW a \in U, NEW b \in A, RunOn(boxes[a], boxes[b]) PROVE b \in U
    BY DEF Shut
  <2>1. b \in C /\ b \in S /\ c \in S /\ a \in S /\ ~ RunOn(boxes[b], boxes[c])
    BY <1>2 DEF Shut
  <2> DEFINE a0 == boxes[a].y0  a1 == boxes[a].y1  b0 == boxes[b].y0  b1 == boxes[b].y1
             c0 == boxes[c].y0  c1 == boxes[c].y1
  <2>2. /\ a0 \in Int /\ a1 \in Int /\ b0 \in Int /\ b1 \in Int /\ c0 \in Int /\ c1 \in Int
        /\ a0 <= a1 /\ b0 <= b1 /\ c0 <= c1 /\ a1 <= c0
    BY <1>1, <2>1
  <2>3. (a0 < b1 /\ b0 < a1) \/ b0 - a0 \in -4..4
    <3>1. RunOn(boxes[a], boxes[b]) <=> \/ b0 < a1 /\ a0 < b1
                                        \/ b0 - a0 \in -4..4
      BY DEF RunOn, Tolerance
    <3> HIDE DEF a0, a1, b0, b1
    <3>2. QED BY <2>2, <3>1
  <2>4. ~(b0 < c1 /\ c0 < b1) /\ ~(c0 - b0 \in -4..4)
    <3>1. RunOn(boxes[b], boxes[c]) <=> \/ c0 < b1 /\ b0 < c1
                                        \/ c0 - b0 \in -4..4
      BY DEF RunOn, Tolerance
    <3> HIDE DEF b0, b1, c0, c1
    <3>2. QED BY <2>1, <3>1
  <2> HIDE DEF a0, a1, b0, b1, c0, c1
  <2>5. b1 <= c0
    BY <2>2, <2>3, <2>4
  <2>6. QED BY <2>1, <2>5 DEF b1, c0
<1>4. s \in U
  BY <1>2
<1>5. t \in U
  BY <1>3, <1>4, TiedIs
<1>6. t \in C /\ t \in S /\ c \in S /\ t \in B /\ boxes[t].y1 <= boxes[c].y0
  BY <1>5
<1> HIDE DEF U
<1> SUFFICES ASSUME boxes[c].y1 <= boxes[t].y0 PROVE FALSE
  OBVIOUS
<1>7. boxes[t].y0 = boxes[c].y0
  <2> DEFINE t0 == boxes[t].y0  t1 == boxes[t].y1  c0 == boxes[c].y0  c1 == boxes[c].y1
  <2>1. /\ t0 \in Int /\ t1 \in Int /\ c0 \in Int /\ c1 \in Int /\ t0 <= t1 /\ c0 <= c1
        /\ t1 <= c0 /\ c1 <= t0
    BY <1>1, <1>6
  <2> HIDE DEF t0, t1, c0, c1
  <2>2. t0 = c0
    BY <2>1
  <2>3. QED BY <2>2 DEF t0, c0
<1>8. RunOn(boxes[t], boxes[c])
  BY <1>1, <1>6, <1>7, RunsOnItself
<1>9. QED BY <1>2, <1>6, <1>8 DEF Shut

\* The pairs that one level of columns keeps in order, given those that the
\* columns on either side of the gutter keep.
ColumnPairs(boxes, S, g, PL, PR) ==
    {w \in LeftSide(boxes, S, g) \X LeftSide(boxes, S, g) : w \in PL}
        \cup {w \in RightSide(boxes, S, g) \X RightSide(boxes, S, g) : w \in PR}
KeptApart(boxes, S, width, g, PL, PR, i, j) ==
    /\ boxes[i].y1 <= boxes[j].y0 /\ AlongX(boxes[i], boxes[j]) > 0
    /\ i \in LeftSide(boxes, S, g) /\ j \in LeftSide(boxes, S, g) => <<i, j>> \in PL
    /\ i \in RightSide(boxes, S, g) /\ j \in RightSide(boxes, S, g) => <<i, j>> \in PR
    /\ \/ i \in LeftSide(boxes, S, g) /\ j \in LeftSide(boxes, S, g)
       \/ i \in RightSide(boxes, S, g) /\ j \in RightSide(boxes, S, g)
       \/ ~ Tied(boxes, BroadOf(boxes, S, width) \cup {i, j}, i, j)
KeepsApart(boxes, S, width, g, PL, PR) == {w \in S \X S : KeptApart(boxes, S, width, g, PL, PR, w[1], w[2])}

LEMMA WovenApart ==
    ASSUME NEW boxes, NEW S, Standing(boxes, S), NEW width \in Int,
           NEW g, g = Gutter(boxes, S, width), g # 0, NEW PL, NEW PR,
           NEW L, L = LeftSide(boxes, S, g) \cup RightSide(boxes, S, g), NEW A, A = S \ L,
           NEW columns, Lists(columns, L), Heeds(columns, ColumnPairs(boxes, S, g, PL, PR)),
           NEW across, Lists(across, A), Heeds(across, Down0(boxes, A)),
           NEW i \in S, NEW j \in S, KeptApart(boxes, S, width, g, PL, PR, i, j)
    PROVE  Woven(boxes, columns, across, i, j)
<1>1. \A c : c \in L <=> \E k \in DOMAIN columns : columns[k] = c
  <2>1. Lists(columns, L)
    OBVIOUS
  <2> DEFINE M == L
  <2>2. Lists(columns, M)
    BY <2>1
  <2> HIDE DEF M
  <2>3. \A c : c \in M <=> \E k \in DOMAIN columns : columns[k] = c
    BY <2>2, ListHolds
  <2>4. QED BY <2>3 DEF M
<1>2. \A c : c \in A <=> \E k \in DOMAIN across : across[k] = c
  BY ListHolds
<1>3. ToSet(columns) = L /\ ToSet(across) = A
  BY <1>1, <1>2 DEF ToSet
<1>4. \A c \in S : /\ boxes[c] \in Bounding /\ boxes[c].y0 \in Int /\ boxes[c].y1 \in Int
                   /\ boxes[c].y0 <= boxes[c].y1
  BY StandingIs
<1>5. boxes[i].y1 <= boxes[j].y0 /\ AlongX(boxes[i], boxes[j]) > 0
  BY DEF KeptApart
<1>6. boxes[i].y1 <= boxes[j].y1
  <2> DEFINE a == boxes[i].y1  b == boxes[j].y0  c == boxes[j].y1
  <2>1. a \in Int /\ b \in Int /\ c \in Int /\ a <= b /\ b <= c
    BY <1>4, <1>5
  <2> HIDE DEF a, b, c
  <2>2. a <= c
    BY <2>1
  <2>3. QED BY <2>2 DEF a, c
<1>7. ASSUME \/ i \in LeftSide(boxes, S, g) /\ j \in LeftSide(boxes, S, g)
             \/ i \in RightSide(boxes, S, g) /\ j \in RightSide(boxes, S, g)
      PROVE  Woven(boxes, columns, across, i, j)
  <2>1. <<i, j>> \in ColumnPairs(boxes, S, g, PL, PR)
    BY <1>7 DEF KeptApart, ColumnPairs
  <2>2. PICK k \in DOMAIN columns : columns[k] = i
    BY <1>1, <1>7
  <2>3. PICK m \in DOMAIN columns : columns[m] = j
    BY <1>1, <1>7
  <2>4. k < m
    BY <2>1, <2>2, <2>3 DEF Heeds
  <2>5. QED BY <1>6, <2>2, <2>3, <2>4 DEF Woven
<1> DEFINE B == BroadOf(boxes, S, width) \cup {i, j}
<1>8. B \in SUBSET S /\ A \in SUBSET S /\ A \subseteq B
  <2>1. \A c \in S : c \notin LeftSide(boxes, S, g) /\ c \notin RightSide(boxes, S, g) => c \in BroadOf(boxes, S, width)
    BY SidesAre
  <2>2. BroadOf(boxes, S, width) \in SUBSET S
    BY DEF BroadOf
  <2>3. QED BY <2>1, <2>2
<1>8a. ~(AlongX(boxes[i], boxes[j]) <= 0)
  <2> DEFINE x == AlongX(boxes[i], boxes[j])
  <2>1. x \in Int /\ x > 0
    BY <1>4, <1>5, AlongIsInt
  <2> HIDE DEF x
  <2>2. ~(x <= 0)
    BY <2>1
  <2>3. QED BY <2>2 DEF x
<1>9. CASE i \in L /\ j \in L
  <2>1. ~(i \in LeftSide(boxes, S, g) /\ j \in RightSide(boxes, S, g))
    BY <1>8a, SidesAre
  <2>2. ~(i \in RightSide(boxes, S, g) /\ j \in LeftSide(boxes, S, g))
    BY <1>8a, SidesAre
  <2>3. QED BY <1>7, <1>9, <2>1, <2>2
<1>10. CASE i \in L /\ j \in A
  BY <1>3, <1>5, <1>10 DEF Woven
<1>11. ASSUME i \in A PROVE ~ Tied(boxes, B, i, j)
  BY <1>11 DEF KeptApart
<1>12. \A s, t : s \in A /\ t \in A /\ boxes[s].y1 <= boxes[t].y0 /\ ~ Tied(boxes, A, s, t) => <<s, t>> \in Down0(boxes, A)
  BY DEF Down0
<1>13. CASE i \in A /\ j \in A
  <2>1. ~ Tied(boxes, A, i, j)
    <3> HIDE DEF B
    <3>1. QED BY <1>8, <1>11, <1>13, TiedAmongMore
  <2>2. <<i, j>> \in Down0(boxes, A)
    BY <1>5, <1>12, <1>13, <2>1
  <2>3. PICK k \in DOMAIN across : across[k] = i
    BY <1>2, <1>13
  <2>4. PICK m \in DOMAIN across : across[m] = j
    BY <1>2, <1>13
  <2>5. k < m
    BY <2>2, <2>3, <2>4 DEF Heeds
  <2>6. QED BY <2>3, <2>4, <2>5 DEF Woven
<1>14. CASE i \in A /\ j \in L
  <2>1. ASSUME NEW k \in DOMAIN across, NEW m \in DOMAIN across, across[k] = i, m <= k
        PROVE  ~(boxes[j].y1 <= boxes[across[m]].y0)
    <3> DEFINE t == across[m]
    <3> SUFFICES ASSUME boxes[j].y1 <= boxes[t].y0 PROVE FALSE
      OBVIOUS
    <3>1. t \in A /\ i \in A /\ j \in B /\ ~ Tied(boxes, B, i, j)
      BY <1>2, <1>11, <1>14
    <3>2. t = i \/ Tied(boxes, A, i, t)
      <4> SUFFICES ASSUME ~ Tied(boxes, A, i, t) PROVE t = i
        OBVIOUS
      <4>1. boxes[i].y1 <= boxes[t].y0
        <5> DEFINE a == boxes[i].y1  b == boxes[j].y1  c == boxes[t].y0
        <5>1. a \in Int /\ b \in Int /\ c \in Int /\ a <= b /\ b <= c
          BY <1>4, <1>6, <1>8, <3>1
        <5> HIDE DEF a, b, c
        <5>2. a <= c
          BY <5>1
        <5>3. QED BY <5>2 DEF a, c
      <4>2. <<across[k], across[m]>> \in Down0(boxes, A)
        BY <1>12, <2>1, <3>1, <4>1
      <4>3. k < m
        BY <4>2 DEF Heeds
      <4>4. k \in Int /\ m \in Int
        <5>1. DOMAIN across = 1..Len(across) /\ Len(across) \in Nat
          BY DEF Lists
        <5>2. QED BY <5>1
      <4>5. QED BY <2>1, <4>3, <4>4
    <3> HIDE DEF B, t
    <3>3. QED BY <1>5, <1>8, <3>1, <3>2, NoneAcrossBelow
  <2>2. QED BY <1>3, <1>14, <2>1 DEF Woven
<1>15. QED BY <1>9, <1>10, <1>13, <1>14

LEMMA SplitIs ==
    ASSUME NEW boxes, NEW S, Standing(boxes, S), NEW width \in Int,
           NEW g, g = Gutter(boxes, S, width), g # 0, NEW PL, NEW PR,
           NEW qL, Lists(qL, LeftSide(boxes, S, g)), Heeds(qL, PL),
           NEW qR, Lists(qR, RightSide(boxes, S, g)), Heeds(qR, PR),
           NEW A, A = S \ (LeftSide(boxes, S, g) \cup RightSide(boxes, S, g))
    PROVE  /\ Lists(Interleaved(boxes, qL \o qR, BandSort(boxes, A)), S)
           /\ Heeds(Interleaved(boxes, qL \o qR, BandSort(boxes, A)), KeepsApart(boxes, S, width, g, PL, PR))
<1> DEFINE left == LeftSide(boxes, S, g)
           right == RightSide(boxes, S, g)
           L == left \cup right
           columns == qL \o qR
           across == BandSort(boxes, A)
           CP == ColumnPairs(boxes, S, g, PL, PR)
           R == Interleaved(boxes, columns, across)
<1>1. /\ \A i \in left : i \notin right
      /\ left \in SUBSET S /\ right \in SUBSET S
  <2>1. left \in SUBSET S /\ right \in SUBSET S
    BY DEF LeftSide, RightSide
  <2>2. \A i \in S : ~(i \in left /\ i \in right)
    BY SidesAre
  <2>3. QED BY <2>1, <2>2
<1>2. A \in SUBSET S /\ L \cup A = S /\ A = S \ L /\ \A c \in L : c \notin A
  BY <1>1
<1>3. Standing(boxes, A)
  BY <1>2, StandingIs
<1>4. Lists(across, A) /\ Heeds(across, Down0(boxes, A))
  BY <1>3, BandSortIs
<1>5. Heeds(qL, CP)
  <2>1. \A k \in DOMAIN qL : qL[k] \in left
    BY ListHolds
  <2>2. \A x, y \in left : <<x, y>> \in CP => <<x, y>> \in PL
    BY <1>1 DEF ColumnPairs
  <2>3. QED BY <2>1, <2>2 DEF Heeds
<1>6. Heeds(qR, CP)
  <2>1. \A k \in DOMAIN qR : qR[k] \in right
    BY ListHolds
  <2>2. \A x, y \in right : <<x, y>> \in CP => <<x, y>> \in PR
    BY <1>1 DEF ColumnPairs
  <2>3. QED BY <2>1, <2>2 DEF Heeds
<1>7. \A x \in right, y \in left : <<x, y>> \notin CP
  BY <1>1 DEF ColumnPairs
<1>8. Lists(columns, L) /\ Heeds(columns, CP)
  <2> HIDE DEF left, right, CP
  <2>1. QED BY <1>1, <1>5, <1>6, <1>7, HeedsJoin DEF left, right
<1>9. Threads(boxes, L, A, columns, across)
  BY <1>2, <1>4, <1>8 DEF Threads
<1>10. Lists(R, S) /\ Heeds(R, Weave(boxes, columns, across, S))
  <2> HIDE DEF L, columns, across
  <2>1. Lists(R, L \cup A) /\ Heeds(R, Weave(boxes, columns, across, L \cup A))
    BY <1>9, InterleavedIs
  <2>2. QED BY <1>2, <2>1
<1> HIDE DEF columns, across, R, L
<1>11. \A w \in S \X S : KeptApart(boxes, S, width, g, PL, PR, w[1], w[2]) => Woven(boxes, columns, across, w[1], w[2])
  <2> SUFFICES ASSUME NEW w \in S \X S, KeptApart(boxes, S, width, g, PL, PR, w[1], w[2])
               PROVE  Woven(boxes, columns, across, w[1], w[2])
    OBVIOUS
  <2>1. w[1] \in S /\ w[2] \in S
    OBVIOUS
  <2>2. L = LeftSide(boxes, S, g) \cup RightSide(boxes, S, g)
    BY DEF L
  <2>3. QED BY <1>2, <1>4, <1>8, <2>1, <2>2, WovenApart
<1>12. KeepsApart(boxes, S, width, g, PL, PR) \subseteq Weave(boxes, columns, across, S)
  BY <1>11 DEF KeepsApart, Weave
<1>13. Heeds(R, KeepsApart(boxes, S, width, g, PL, PR))
  BY <1>10, <1>12 DEF Heeds
<1>14. QED BY <1>10, <1>13 DEF R, columns, across

LEMMA Columns1Cases ==
    ASSUME NEW boxes, NEW S, NEW width, NEW g, g = Gutter(boxes, S, width)
    PROVE  Columns1(boxes, S, width) =
               IF g = 0 THEN BandSort(boxes, S)
               ELSE Interleaved(boxes, BandSort(boxes, LeftSide(boxes, S, g)) \o BandSort(boxes, RightSide(boxes, S, g)),
                                BandSort(boxes, S \ (LeftSide(boxes, S, g) \cup RightSide(boxes, S, g))))
BY DEF Columns1, Split, LeftSide, RightSide

LEMMA Columns2Cases ==
    ASSUME NEW boxes, NEW S, NEW width, NEW g, g = Gutter(boxes, S, width)
    PROVE  Columns2(boxes, S, width) =
               IF g = 0 THEN BandSort(boxes, S)
               ELSE Interleaved(boxes, Columns1(boxes, LeftSide(boxes, S, g), width)
                                           \o Columns1(boxes, RightSide(boxes, S, g), width),
                                BandSort(boxes, S \ (LeftSide(boxes, S, g) \cup RightSide(boxes, S, g))))
BY DEF Columns2, Split, LeftSide, RightSide

LEMMA Tied1Cases ==
    ASSUME NEW boxes, NEW S, NEW width, NEW g, g = Gutter(boxes, S, width), NEW i, NEW j
    PROVE  /\ g = 0 => (Tied1(boxes, S, width, i, j) <=> Tied(boxes, S, i, j))
           /\ g # 0 /\ i \in LeftSide(boxes, S, g) /\ j \in LeftSide(boxes, S, g) =>
                 (Tied1(boxes, S, width, i, j) <=> Tied(boxes, LeftSide(boxes, S, g), i, j))
           /\ g # 0 /\ ~(i \in LeftSide(boxes, S, g) /\ j \in LeftSide(boxes, S, g))
                /\ i \in RightSide(boxes, S, g) /\ j \in RightSide(boxes, S, g) =>
                 (Tied1(boxes, S, width, i, j) <=> Tied(boxes, RightSide(boxes, S, g), i, j))
           /\ g # 0 /\ ~(i \in LeftSide(boxes, S, g) /\ j \in LeftSide(boxes, S, g))
                /\ ~(i \in RightSide(boxes, S, g) /\ j \in RightSide(boxes, S, g)) =>
                 (Tied1(boxes, S, width, i, j) <=> Tied(boxes, BroadOf(boxes, S, width) \cup {i, j}, i, j))
BY DEF Tied1, TiedBy, LeftSide, RightSide, BroadOf

LEMMA Tied2Cases ==
    ASSUME NEW boxes, NEW S, NEW width, NEW g, g = Gutter(boxes, S, width), NEW i, NEW j
    PROVE  /\ g = 0 => (Tied2(boxes, S, width, i, j) <=> Tied(boxes, S, i, j))
           /\ g # 0 /\ i \in LeftSide(boxes, S, g) /\ j \in LeftSide(boxes, S, g) =>
                 (Tied2(boxes, S, width, i, j) <=> Tied1(boxes, LeftSide(boxes, S, g), width, i, j))
           /\ g # 0 /\ ~(i \in LeftSide(boxes, S, g) /\ j \in LeftSide(boxes, S, g))
                /\ i \in RightSide(boxes, S, g) /\ j \in RightSide(boxes, S, g) =>
                 (Tied2(boxes, S, width, i, j) <=> Tied1(boxes, RightSide(boxes, S, g), width, i, j))
           /\ g # 0 /\ ~(i \in LeftSide(boxes, S, g) /\ j \in LeftSide(boxes, S, g))
                /\ ~(i \in RightSide(boxes, S, g) /\ j \in RightSide(boxes, S, g)) =>
                 (Tied2(boxes, S, width, i, j) <=> Tied(boxes, BroadOf(boxes, S, width) \cup {i, j}, i, j))
BY DEF Tied2, TiedBy, LeftSide, RightSide, BroadOf

\* The pairs of which the one above is read first.
Down1(boxes, S, width) ==
    {w \in S \X S : /\ boxes[w[1]].y1 <= boxes[w[2]].y0 /\ AlongX(boxes[w[1]], boxes[w[2]]) > 0
                    /\ ~ Tied1(boxes, S, width, w[1], w[2])}
Down2(boxes, S, width) ==
    {w \in S \X S : /\ boxes[w[1]].y1 <= boxes[w[2]].y0 /\ AlongX(boxes[w[1]], boxes[w[2]]) > 0
                    /\ ~ Tied2(boxes, S, width, w[1], w[2])}

LEMMA SidesIn ==
    ASSUME NEW boxes, NEW S, Standing(boxes, S), NEW g
    PROVE  /\ Standing(boxes, LeftSide(boxes, S, g)) /\ Standing(boxes, RightSide(boxes, S, g))
           /\ LeftSide(boxes, S, g) \in SUBSET S /\ RightSide(boxes, S, g) \in SUBSET S
<1>1. LeftSide(boxes, S, g) \in SUBSET S /\ RightSide(boxes, S, g) \in SUBSET S
  BY DEF LeftSide, RightSide
<1>2. QED BY <1>1, StandingIs

\* One level of columns: the elements of S, each before those below it.
LEMMA Columns1Is ==
    ASSUME NEW boxes, NEW S, Standing(boxes, S), NEW width \in Int
    PROVE  Lists(Columns1(boxes, S, width), S) /\ Heeds(Columns1(boxes, S, width), Down1(boxes, S, width))
<1> DEFINE g == Gutter(boxes, S, width)
           left == LeftSide(boxes, S, g)
           right == RightSide(boxes, S, g)
           A == S \ (left \cup right)
           R == Columns1(boxes, S, width)
<1>1. CASE g = 0
  <2>1. R = BandSort(boxes, S)
    BY <1>1, Columns1Cases
  <2>2. \A i, j : Tied1(boxes, S, width, i, j) <=> Tied(boxes, S, i, j)
    BY <1>1, Tied1Cases
  <2>3. Down1(boxes, S, width) \subseteq Down0(boxes, S)
    BY <2>2 DEF Down1, Down0
  <2>4. Lists(R, S) /\ Heeds(R, Down0(boxes, S))
    BY <2>1, BandSortIs
  <2> HIDE DEF R
  <2>5. QED BY <2>3, <2>4 DEF Heeds, R
<1>2. CASE g # 0
  <2> DEFINE qL == BandSort(boxes, left)
             qR == BandSort(boxes, right)
             PL == Down0(boxes, left)
             PR == Down0(boxes, right)
             K == KeepsApart(boxes, S, width, g, PL, PR)
  <2>1. R = Interleaved(boxes, qL \o qR, BandSort(boxes, A))
    BY <1>2, Columns1Cases
  <2>2. Lists(qL, left) /\ Heeds(qL, PL) /\ Lists(qR, right) /\ Heeds(qR, PR)
    <3>1. Standing(boxes, left) /\ Standing(boxes, right)
      BY SidesIn
    <3>2. QED BY <3>1, BandSortIs
  <2>3. ASSUME NEW i \in S, NEW j \in S, boxes[i].y1 <= boxes[j].y0, AlongX(boxes[i], boxes[j]) > 0,
               ~ Tied1(boxes, S, width, i, j)
        PROVE  KeptApart(boxes, S, width, g, PL, PR, i, j)
    <3>1. \A m \in S : ~(m \in left /\ m \in right)
      BY <1>2, SidesAre
    <3>2. i \in left /\ j \in left => <<i, j>> \in PL
      <4> SUFFICES ASSUME i \in left, j \in left PROVE <<i, j>> \in PL
        OBVIOUS
      <4>2. ~ Tied(boxes, left, i, j)
        BY <1>2, <2>3, Tied1Cases
      <4>3. QED BY <2>3, <4>2 DEF Down0
    <3>3. i \in right /\ j \in right => <<i, j>> \in PR
      <4> SUFFICES ASSUME i \in right, j \in right PROVE <<i, j>> \in PR
        OBVIOUS
      <4>1. ~(i \in left /\ j \in left)
        BY <3>1
      <4>2. ~ Tied(boxes, right, i, j)
        BY <1>2, <2>3, <4>1, Tied1Cases
      <4>3. QED BY <2>3, <4>2 DEF Down0
    <3>4. \/ i \in left /\ j \in left
          \/ i \in right /\ j \in right
          \/ ~ Tied(boxes, BroadOf(boxes, S, width) \cup {i, j}, i, j)
      <4> SUFFICES ASSUME ~(i \in left /\ j \in left), ~(i \in right /\ j \in right)
                   PROVE  ~ Tied(boxes, BroadOf(boxes, S, width) \cup {i, j}, i, j)
        OBVIOUS
      <4>2. QED BY <1>2, <2>3, Tied1Cases
    <3> HIDE DEF PL, PR
    <3>5. QED BY <2>3, <3>2, <3>3, <3>4 DEF KeptApart
  <2>4. Down1(boxes, S, width) \subseteq K
    <3> HIDE DEF PL, PR, g
    <3>1. QED BY <2>3 DEF Down1, KeepsApart
  <2>5. Lists(R, S) /\ Heeds(R, K)
    <3> HIDE DEF qL, qR, PL, PR, R
    <3>1. QED BY <1>2, <2>1, <2>2, SplitIs
  <2> HIDE DEF R, K
  <2>6. QED BY <2>4, <2>5 DEF Heeds, R
<1>3. QED BY <1>1, <1>2
\* Two levels: the elements of S, each before those below it.
LEMMA Columns2Is ==
    ASSUME NEW boxes, NEW S, Standing(boxes, S), NEW width \in Int
    PROVE  Lists(Columns2(boxes, S, width), S) /\ Heeds(Columns2(boxes, S, width), Down2(boxes, S, width))
<1> DEFINE g == Gutter(boxes, S, width)
           left == LeftSide(boxes, S, g)
           right == RightSide(boxes, S, g)
           A == S \ (left \cup right)
           R == Columns2(boxes, S, width)
<1>1. CASE g = 0
  <2>1. R = BandSort(boxes, S)
    BY <1>1, Columns2Cases
  <2>2. \A i, j : Tied2(boxes, S, width, i, j) <=> Tied(boxes, S, i, j)
    BY <1>1, Tied2Cases
  <2>3. Down2(boxes, S, width) \subseteq Down0(boxes, S)
    BY <2>2 DEF Down2, Down0
  <2>4. Lists(R, S) /\ Heeds(R, Down0(boxes, S))
    BY <2>1, BandSortIs
  <2> HIDE DEF R
  <2>5. QED BY <2>3, <2>4 DEF Heeds, R
<1>2. CASE g # 0
  <2> DEFINE qL == Columns1(boxes, left, width)
             qR == Columns1(boxes, right, width)
             PL == Down1(boxes, left, width)
             PR == Down1(boxes, right, width)
             K == KeepsApart(boxes, S, width, g, PL, PR)
  <2>1. R = Interleaved(boxes, qL \o qR, BandSort(boxes, A))
    BY <1>2, Columns2Cases
  <2>2. Lists(qL, left) /\ Heeds(qL, PL) /\ Lists(qR, right) /\ Heeds(qR, PR)
    <3>1. Standing(boxes, left) /\ Standing(boxes, right)
      BY SidesIn
    <3>2. QED BY <3>1, Columns1Is
  <2>3. ASSUME NEW i \in S, NEW j \in S, boxes[i].y1 <= boxes[j].y0, AlongX(boxes[i], boxes[j]) > 0,
               ~ Tied2(boxes, S, width, i, j)
        PROVE  KeptApart(boxes, S, width, g, PL, PR, i, j)
    <3>1. \A m \in S : ~(m \in left /\ m \in right)
      BY <1>2, SidesAre
    <3>2. i \in left /\ j \in left => <<i, j>> \in PL
      <4> SUFFICES ASSUME i \in left, j \in left PROVE <<i, j>> \in PL
        OBVIOUS
      <4>2. ~ Tied1(boxes, left, width, i, j)
        BY <1>2, <2>3, Tied2Cases
      <4>3. QED BY <2>3, <4>2 DEF Down1
    <3>3. i \in right /\ j \in right => <<i, j>> \in PR
      <4> SUFFICES ASSUME i \in right, j \in right PROVE <<i, j>> \in PR
        OBVIOUS
      <4>1. ~(i \in left /\ j \in left)
        BY <3>1
      <4>2. ~ Tied1(boxes, right, width, i, j)
        BY <1>2, <2>3, <4>1, Tied2Cases
      <4>3. QED BY <2>3, <4>2 DEF Down1
    <3>4. \/ i \in left /\ j \in left
          \/ i \in right /\ j \in right
          \/ ~ Tied(boxes, BroadOf(boxes, S, width) \cup {i, j}, i, j)
      <4> SUFFICES ASSUME ~(i \in left /\ j \in left), ~(i \in right /\ j \in right)
                   PROVE  ~ Tied(boxes, BroadOf(boxes, S, width) \cup {i, j}, i, j)
        OBVIOUS
      <4>2. QED BY <1>2, <2>3, Tied2Cases
    <3> HIDE DEF PL, PR
    <3>5. QED BY <2>3, <3>2, <3>3, <3>4 DEF KeptApart
  <2>4. Down2(boxes, S, width) \subseteq K
    <3> HIDE DEF PL, PR, g
    <3>1. QED BY <2>3 DEF Down2, KeepsApart
  <2>5. Lists(R, S) /\ Heeds(R, K)
    <3> HIDE DEF qL, qR, PL, PR, R
    <3>1. QED BY <1>2, <2>1, <2>2, SplitIs
  <2> HIDE DEF R, K
  <2>6. QED BY <2>4, <2>5 DEF Heeds, R
<1>3. QED BY <1>1, <1>2

\* Boxes a page may have: of its elements, in their positions.
Boxing(boxes, N) ==
    /\ N \in Nat /\ DOMAIN boxes = 1..N
    /\ \A i \in 1..N : \/ boxes[i] = NoBox
                       \/ boxes[i] \in Bounding /\ Upright(boxes[i])
PlacedOf(boxes) == {i \in DOMAIN boxes : boxes[i] # NoBox}
WidthOf(boxes, w) == IF w = 0 THEN Max({boxes[i].x1 : i \in PlacedOf(boxes)}) ELSE w

LEMMA ReadingOrderCases ==
    ASSUME NEW boxes, NEW w
    PROVE  ReadingOrder(boxes, w) =
               IF PlacedOf(boxes) = {} THEN ByNumber(DOMAIN boxes)
               ELSE Columns2(boxes, PlacedOf(boxes), WidthOf(boxes, w)) \o ByNumber(DOMAIN boxes \ PlacedOf(boxes))
BY DEF ReadingOrder, PlacedOf, WidthOf, ByNumber, NumberAt, Ordered

LEMMA ByNumberLists ==
    ASSUME NEW S \in SUBSET Int, IsFiniteSet(S)
    PROVE  Lists(ByNumber(S), S)
<1>1. Enumerates(ByNumber(S), S, Up(S)) /\ Chain(S, Up(S))
  BY ByNumberIs, NumbersChain
<1>2. QED BY <1>1, EnumeratesLists

LEMMA ListsCount ==
    ASSUME NEW S, NEW q, Lists(q, S)
    PROVE  Len(q) = Cardinality(S) /\ ToSet(q) = S
<1> DEFINE N == Len(q)
<1>1. /\ q \in Seq(S) /\ DOMAIN q = 1..N /\ N \in Nat
      /\ \A e \in S : \E i \in DOMAIN q : q[i] = e
      /\ \A i, j \in DOMAIN q : q[i] = q[j] => i = j
  BY DEF Lists
<1>2. \A i \in 1..N : q[i] \in S
  BY <1>1
<1>3. ToSet(q) = S
  BY <1>1, <1>2 DEF ToSet
<1>4. Cardinality(1..N) = N /\ IsFiniteSet(1..N)
  <2> HIDE DEF N
  <2>1. IsFiniteSet(1..N) /\ Cardinality(1..N) = IF 1 > N THEN 0 ELSE N - 1 + 1
    BY <1>1, FS_Interval
  <2>2. QED BY <1>1, <2>1
<1> DEFINE f == [i \in 1..N |-> q[i]]
<1> HIDE DEF N
<1>5. f \in Bijection(1..N, S)
  <2>1. f \in [1..N -> S]
    BY <1>2
  <2>2. \A e \in S : \E i \in 1..N : f[i] = e
    BY <1>1
  <2>3. \A i, j \in 1..N : f[i] = f[j] => i = j
    BY <1>1
  <2>4. QED BY <2>1, <2>2, <2>3 DEF Bijection, Injection, Surjection, IsInjective
<1>6. Cardinality(S) = Cardinality(1..N)
  BY <1>4, <1>5, FS_Bijection DEF ExistsBijection
<1>7. QED BY <1>3, <1>4, <1>6 DEF N

\* What the reading order of a page keeps in order.
OrderPairs(boxes, w) ==
    Down2(boxes, PlacedOf(boxes), WidthOf(boxes, w)) \cup (PlacedOf(boxes) \X (DOMAIN boxes \ PlacedOf(boxes)))

LEMMA PlacedStand ==
    ASSUME NEW boxes, NEW N, Boxing(boxes, N), NEW w \in Nat
    PROVE  /\ Standing(boxes, PlacedOf(boxes)) /\ PlacedOf(boxes) \in SUBSET DOMAIN boxes
           /\ IsFiniteSet(DOMAIN boxes) /\ DOMAIN boxes \in SUBSET Int
           /\ PlacedOf(boxes) # {} => WidthOf(boxes, w) \in Int
<1> DEFINE P == PlacedOf(boxes)
<1>1. N \in Nat /\ DOMAIN boxes = 1..N
  BY DEF Boxing
<1>2. P \in SUBSET (1..N) /\ \A i \in P : boxes[i] \in Bounding /\ Upright(boxes[i])
  BY <1>1 DEF Boxing, PlacedOf
<1>3. IsFiniteSet(1..N) /\ (1..N) \in SUBSET Int
  BY <1>1, FS_Interval
<1>4. IsFiniteSet(P) /\ P \in SUBSET Int
  BY <1>2, <1>3, FS_Subset
<1>5. Standing(boxes, P)
  BY <1>2, <1>4 DEF Standing
<1>6. ASSUME P # {} PROVE WidthOf(boxes, w) \in Int
  <2> DEFINE X == {boxes[i].x1 : i \in P}
  <2>1. X \in SUBSET Int /\ X # {}
    BY <1>2, <1>6 DEF Bounding
  <2>2. IsFiniteSet(X)
    <3> DEFINE g == [i \in P |-> boxes[i].x1]
    <3>1. g \in Surjection(P, X)
      BY DEF Surjection
    <3> HIDE DEF g, X
    <3>2. QED BY <1>4, <3>1, FS_Surjection
  <2>3. Max(X) \in Int
    <3> HIDE DEF X
    <3>1. Max(X) \in X
      BY <2>1, <2>2, MaxIs
    <3>2. QED BY <2>1, <3>1
  <2>4. QED BY <2>3 DEF WidthOf
<1>7. QED BY <1>1, <1>2, <1>3, <1>5, <1>6

LEMMA ReadingOrderIs ==
    ASSUME NEW boxes, NEW N, Boxing(boxes, N), NEW w \in Nat
    PROVE  /\ Lists(ReadingOrder(boxes, w), DOMAIN boxes)
           /\ Heeds(ReadingOrder(boxes, w), OrderPairs(boxes, w))
<1> DEFINE P == PlacedOf(boxes)
           D == DOMAIN boxes
           R == ReadingOrder(boxes, w)
           O == OrderPairs(boxes, w)
<1>1. /\ Standing(boxes, P) /\ P \in SUBSET D /\ IsFiniteSet(D) /\ D \in SUBSET Int
      /\ P # {} => WidthOf(boxes, w) \in Int
  BY PlacedStand
<1>2. CASE P = {}
  <2>1. R = ByNumber(D)
    BY <1>2, ReadingOrderCases
  <2>2. Lists(R, D)
    BY <1>1, <2>1, ByNumberLists
  <2>3. O = {}
    BY <1>2 DEF OrderPairs, Down2
  <2> HIDE DEF R, O
  <2>4. QED BY <2>2, <2>3 DEF Heeds, R, O
<1>3. CASE P # {}
  <2> DEFINE v == WidthOf(boxes, w)
             s == Columns2(boxes, P, v)
             t == ByNumber(D \ P)
  <2>1. R = s \o t
    BY <1>3, ReadingOrderCases
  <2>2. Lists(s, P) /\ Heeds(s, Down2(boxes, P, v))
    BY <1>1, <1>3, Columns2Is
  <2>3. Lists(t, D \ P)
    <3>1. D \ P \in SUBSET Int /\ IsFiniteSet(D \ P)
      BY <1>1, FS_Subset
    <3>2. QED BY <3>1, ByNumberLists
  <2>4. O = Down2(boxes, P, v) \cup (P \X (D \ P)) /\ Down2(boxes, P, v) \subseteq P \X P
    BY DEF OrderPairs, Down2
  <2> HIDE DEF s, t, R, O, v, P, D
  <2>5. Heeds(s, O)
    <3>1. \A k \in DOMAIN s : s[k] \in P
      BY <2>2, ListHolds
    <3>2. \A x, y \in P : <<x, y>> \in O => <<x, y>> \in Down2(boxes, P, v)
      BY <2>4
    <3>3. QED BY <2>2, <3>1, <3>2 DEF Heeds
  <2>6. Heeds(t, O)
    <3>1. \A k \in DOMAIN t : t[k] \in D \ P
      BY <2>3, ListHolds
    <3>2. \A x, y \in D \ P : <<x, y>> \notin O
      BY <2>4
    <3>3. QED BY <3>1, <3>2 DEF Heeds
  <2>7. \A x \in D \ P, y \in P : <<x, y>> \notin O
    BY <2>4
  <2>8. Lists(s \o t, P \cup (D \ P)) /\ Heeds(s \o t, O)
    BY <2>2, <2>3, <2>5, <2>6, <2>7, HeedsJoin
  <2>9. P \cup (D \ P) = D
    BY <1>1 DEF D
  <2>10. QED BY <2>1, <2>8, <2>9 DEF O, R, D
<1>4. QED BY <1>2, <1>3

\* An ordered page is read once, and downward.
LEMMA OrderedReads ==
    ASSUME NEW boxes, NEW N, Boxing(boxes, N), NEW w \in Nat
    PROVE  ReadOnce(boxes, ReadingOrder(boxes, w)) /\ ReadDown(boxes, ReadingOrder(boxes, w), w)
<1> DEFINE R == ReadingOrder(boxes, w)
           P == PlacedOf(boxes)
           v == WidthOf(boxes, w)
           D == DOMAIN boxes
<1>1. Lists(R, D) /\ Heeds(R, OrderPairs(boxes, w))
  BY ReadingOrderIs
<1> HIDE DEF R
<1>2. ReadOnce(boxes, R)
  BY <1>1, ListsCount DEF ReadOnce
<1>3. ASSUME NEW m \in DOMAIN R, NEW k \in DOMAIN R, NEW i, i = R[m], NEW j, j = R[k]
      PROVE  /\ (/\ {i, j} \subseteq P
                 /\ boxes[i].y1 <= boxes[j].y0
                 /\ AlongX(boxes[i], boxes[j]) > 0
                 /\ ~ Tied2(boxes, P, v, i, j)) => m < k
             /\ i \in P /\ j \notin P => m < k
  <2>1. i \in D /\ j \in D
    BY <1>1, <1>3, ListHolds
  <2>2. <<i, j>> \in OrderPairs(boxes, w) => m < k
    BY <1>1, <1>3 DEF Heeds
  <2>3. ASSUME {i, j} \subseteq P, boxes[i].y1 <= boxes[j].y0,
               AlongX(boxes[i], boxes[j]) > 0, ~ Tied2(boxes, P, v, i, j)
        PROVE  <<i, j>> \in OrderPairs(boxes, w)
    <3> DEFINE u == <<i, j>>
    <3>1. u \in P \X P /\ u[1] = i /\ u[2] = j
      BY <2>3
    <3> HIDE DEF u, P, v
    <3>2. u \in Down2(boxes, P, v)
      BY <2>3, <3>1 DEF Down2
    <3>3. QED BY <3>2 DEF OrderPairs, u, P, v
  <2>4. ASSUME i \in P, j \notin P PROVE <<i, j>> \in OrderPairs(boxes, w)
    BY <2>1, <2>4 DEF OrderPairs
  <2>5. QED BY <2>2, <2>3, <2>4
<1>4. ReadDown(boxes, R, w)
  BY <1>3 DEF ReadDown, PlacedOf, WidthOf
<1>5. QED BY <1>2, <1>4 DEF R

-----------------------------------------------------------------------------
(***************************************************************************)
(* The boxes of the elements of a page.                                    *)
(***************************************************************************)
Stood(b) == b = NoBox \/ (b \in Bounding /\ Upright(b))
AllStand(q) == \E X : q \in Seq(X) /\ \A e \in X : Stood(e.box)

LEMMA StandMade ==
    ASSUME NEW N \in Nat, NEW q, q = [k \in 1..N |-> q[k]], \A k \in 1..N : Stood(q[k].box)
    PROVE  AllStand(q)
<1> DEFINE X == {q[k] : k \in 1..N}
<1>1. \A k \in 1..N : q[k] \in X
  OBVIOUS
<1>2. \A e \in X : Stood(e.box)
  OBVIOUS
<1> HIDE DEF X
<1>3. q \in Seq(X)
  BY <1>1, SeqMade
<1>4. QED BY <1>2, <1>3 DEF AllStand

LEMMA StandJoined ==
    ASSUME NEW q, AllStand(q), NEW r, AllStand(r)
    PROVE  AllStand(q \o r)
<1>1. PICK X : q \in Seq(X) /\ \A e \in X : Stood(e.box)
  BY DEF AllStand
<1>2. PICK Y : r \in Seq(Y) /\ \A e \in Y : Stood(e.box)
  BY DEF AllStand
<1> DEFINE Z == X \cup Y
<1>3. q \in Seq(Z) /\ r \in Seq(Z) /\ \A e \in Z : Stood(e.box)
  BY <1>1, <1>2
<1> HIDE DEF Z
<1>4. q \o r \in Seq(Z)
  BY <1>3, ConcatIs
<1>5. QED BY <1>3, <1>4 DEF AllStand

LEMMA StandPicked ==
    ASSUME NEW q, AllStand(q), NEW S \in SUBSET DOMAIN q
    PROVE  AllStand(Picked(q, S))
<1>1. PICK X : q \in Seq(X) /\ \A e \in X : Stood(e.box)
  BY DEF AllStand
<1>2. Picked(q, S) \in Seq(X)
  BY <1>1, PickedIs
<1>3. QED BY <1>1, <1>2 DEF AllStand

LEMMA StandBoxing ==
    ASSUME NEW E, AllStand(E)
    PROVE  \E N : Boxing([k \in DOMAIN E |-> E[k].box], N)
<1>1. PICK X : E \in Seq(X) /\ \A e \in X : Stood(e.box)
  BY DEF AllStand
<1> DEFINE N == Len(E)
           boxes == [k \in DOMAIN E |-> E[k].box]
<1>2. N \in Nat /\ DOMAIN E = 1..N /\ \A k \in 1..N : E[k] \in X
  BY <1>1, SeqHas
<1> HIDE DEF N
<1>3. DOMAIN boxes = 1..N /\ \A k \in 1..N : Stood(boxes[k])
  BY <1>1, <1>2
<1> HIDE DEF boxes
<1>4. Boxing(boxes, N)
  BY <1>2, <1>3 DEF Boxing, Stood
<1>5. QED BY <1>4 DEF boxes

\* The smallest box around upright boxes is upright.
LEMMA HullStands ==
    ASSUME NEW S \in SUBSET Bounding, IsFiniteSet(S), S # {}, \A b \in S : Upright(b)
    PROVE  Stood(Hull(S))
<1> DEFINE h == Hull(S)
<1>1. /\ h \in Bounding
      /\ \A b \in S : h.x0 <= b.x0 /\ h.y0 <= b.y0 /\ b.x1 <= h.x1 /\ b.y1 <= h.y1
  BY HullIs
<1> HIDE DEF h
<1>2. PICK b \in S : TRUE
  OBVIOUS
<1>3. b \in Bounding /\ Upright(b) /\ h.x0 <= b.x0 /\ h.y0 <= b.y0 /\ b.x1 <= h.x1 /\ b.y1 <= h.y1
  BY <1>1, <1>2
<1>4. Upright(h)
  BY <1>1, <1>3 DEF Upright, Bounding
<1>5. QED BY <1>1, <1>4 DEF Stood, h

\* What the boxes that a unit is read into are like.
Squared(u) ==
    /\ AllUpright(u.runs) /\ AllUpright(u.native) /\ AllUpright(u.regions) /\ AllUpright(u.tokens)
    /\ \A k \in DOMAIN u.images : Stood(u.images[k])
    /\ \A k \in DOMAIN u.found : Upright(u.found[k])

LEMMA UnitsAre ==
    ASSUME NEW d \in Docs, NEW i \in DOMAIN d.units
    PROVE  Given(d.units[i]) /\ Answered(d.units[i]) /\ Squared(d.units[i])
<1> DEFINE u == d.units[i]
<1>1. /\ u.runs \in Seq(Runs) /\ u.images \in Seq(Bounding) /\ u.native \in Seq(Grids)
      /\ AllUpright(u.runs) /\ AllUpright(u.native)
      /\ \A k \in DOMAIN u.images : Upright(u.images[k]) \/ u.images[k] = NoBox
  BY UnitsAssumption DEF Runs, Grids
<1>2. Answered(u)
  BY AnswersAre
<1>3. /\ AllUpright(u.regions) /\ AllUpright(u.tokens)
      /\ \A k \in DOMAIN u.found : Upright(u.found[k])
  BY AnswersAssumption
<1> HIDE DEF u
<1>4. \A k \in DOMAIN u.images : u.images[k] \in Bounding
  BY <1>1, SeqHas
<1>5. Given(u) /\ Squared(u)
  BY <1>1, <1>3, <1>4 DEF Given, Squared, Stood
<1>6. QED BY <1>2, <1>5 DEF u

\* The text blocks and the images of a native page.
LEMMA TextStands ==
    ASSUME NEW u, Given(u), Squared(u)
    PROVE  AllStand(TextElements(u))
<1> DEFINE S == Numbered(u)
           D == DOMAIN u.runs
           order == ByNumber(S)
           s == [k \in DOMAIN order |->
                    Element(<<"e", k>>, "text", BlockBox(u, order[k]), ByNumber(InBlock(u, order[k])), 0)]
           r == [k \in DOMAIN u.images |-> Element(<<"i", k>>, "image", u.images[k], <<>>, 0)]
<1>1. TextElements(u) = s \o r
  BY DEF TextElements, Ordered, ByNumber, NumberAt, Numbered
<1>2. /\ D = 1..Len(u.runs) /\ Len(u.runs) \in Nat /\ \A i \in D : u.runs[i] \in Runs
      /\ DOMAIN u.images = 1..Len(u.images) /\ Len(u.images) \in Nat
  <2>1. u.runs \in Seq(Runs) /\ u.images \in Seq(Bounding)
    BY DEF Given
  <2>2. QED BY <2>1, SeqHas
<1>3. IsFiniteSet(D) /\ D \in SUBSET Int
  BY <1>2, FS_Interval
<1>4. IsFiniteSet(S) /\ S \in SUBSET Int
  <2> DEFINE f == [i \in D |-> u.runs[i].block]
  <2>1. S = {f[i] : i \in D}
    BY DEF Numbered
  <2>2. S \in SUBSET Int
    BY <1>2 DEF Numbered, Runs
  <2> HIDE DEF f, S, D
  <2>3. QED BY <1>3, <2>1, <2>2, ImageIsFinite
<1>5. Lists(order, S)
  <2> HIDE DEF S
  <2>1. QED BY <1>4, ByNumberLists
<1> HIDE DEF order
<1>6. \A k \in DOMAIN order : Stood(BlockBox(u, order[k]))
  <2> SUFFICES ASSUME NEW k \in DOMAIN order PROVE Stood(BlockBox(u, order[k]))
    OBVIOUS
  <2>1. order[k] \in S
    BY <1>5, ListHolds
  <2> DEFINE b == order[k]
             I == InBlock(u, b)
             B == {u.runs[i].box : i \in I}
             g == [i \in I |-> u.runs[i].box]
  <2>2. I \in SUBSET D /\ I # {}
    BY <2>1 DEF InBlock, Numbered
  <2>3. IsFiniteSet(I)
    BY <1>3, <2>2, FS_Subset
  <2>4. \A i \in I : u.runs[i].box \in Bounding /\ Upright(u.runs[i].box)
    BY <1>2, <2>2 DEF Squared, AllUpright, Runs
  <2>5. B = {g[i] : i \in I} /\ B \in SUBSET Bounding /\ B # {} /\ \A x \in B : Upright(x)
    BY <2>2, <2>4
  <2>6. BlockBox(u, b) = Hull(B)
    BY DEF BlockBox
  <2> HIDE DEF g, B, I
  <2>7. IsFiniteSet(B)
    BY <2>3, <2>5, ImageIsFinite
  <2>8. QED BY <2>5, <2>6, <2>7, HullStands
<1>7. /\ \A k \in DOMAIN order : Stood(s[k].box)
      /\ \A k \in DOMAIN u.images : Stood(r[k].box)
  BY <1>6 DEF Element, Squared
<1>8. Len(order) \in Nat /\ DOMAIN order = 1..Len(order)
  BY <1>5 DEF Lists
<1>9. s = [k \in 1..Len(order) |-> s[k]] /\ r = [k \in 1..Len(u.images) |-> r[k]]
  BY <1>2, <1>8
<1> HIDE DEF s, r
<1>10. AllStand(s)
  BY <1>7, <1>8, <1>9, StandMade
<1>11. AllStand(r)
  BY <1>2, <1>7, <1>9, StandMade
<1>12. QED BY <1>1, <1>10, <1>11, StandJoined

LEMMA FoundStand ==
    ASSUME NEW u, Given(u), Squared(u)
    PROVE  \A k \in DOMAIN FoundTables(u) : Stood(FoundTables(u)[k].box)
<1> DEFINE S == {k \in DOMAIN u.native : Usable(u.native[k])}
           usable == Picked(u.native, S)
<1>1. u.native \in Seq(Grids) /\ S \in SUBSET DOMAIN u.native
  BY DEF Given
<1>2. FoundTables(u) = [k \in DOMAIN usable |-> NativeTable(usable[k], u.runs)]
  BY DEF FoundTables
<1>3. \A k \in DOMAIN u.native : u.native[k].box \in Bounding /\ Upright(u.native[k].box)
  <2>1. \A k \in DOMAIN u.native : u.native[k] \in Grids
    BY <1>1, SeqHas
  <2>2. QED BY <2>1 DEF Squared, AllUpright, Grids
<1> HIDE DEF S
<1>4. \A k \in DOMAIN usable : \E m \in DOMAIN u.native : usable[k] = u.native[m]
  BY <1>1, PickedIs
<1> HIDE DEF usable
<1>5. \A g : NativeTable(g, u.runs).box = g.box
  BY DEF NativeTable, Table
<1>6. QED BY <1>2, <1>3, <1>4, <1>5 DEF Stood

LEMMA NativeStands ==
    ASSUME NEW u, Given(u), Squared(u)
    PROVE  AllStand(NativeElements(u, FoundTables(u)))
<1> DEFINE F == TextElements(u)
           tables == FoundTables(u)
           S == {k \in DOMAIN F : ~ Inside(F[k], tables)}
           s == Picked(F, S)
           r == [k \in DOMAIN tables |-> Element(<<"t", k>>, "table", tables[k].box, <<>>, k)]
<1>1. NativeElements(u, tables) = s \o r
  BY DEF NativeElements, Kept, Inside
<1>2. PICK b \in Nat : DOMAIN tables = 1..b
  BY TablesListed
<1>3. \A k \in DOMAIN tables : Stood(r[k].box)
  BY FoundStand DEF Element
<1>4. r = [k \in 1..b |-> r[k]]
  BY <1>2
<1> HIDE DEF r, tables
<1>5. AllStand(r)
  BY <1>2, <1>3, <1>4, StandMade
<1>6. S \in SUBSET DOMAIN F
  OBVIOUS
<1>7. AllStand(F)
  BY TextStands
<1> HIDE DEF F, S
<1>8. AllStand(s)
  BY <1>6, <1>7, StandPicked
<1> HIDE DEF s
<1>9. QED BY <1>1, <1>5, <1>8, StandJoined DEF tables

-----------------------------------------------------------------------------
\* The boxes of a page with an image.
LEMMA RegionsAre ==
    ASSUME NEW s \in Regions
    PROVE  \A k \in DOMAIN s : s[k].box \in Bounding
<1> DEFINE R == [box : Bounding, label : {"text", "other", "table"}]
<1>1. s \in Seq(R)
  BY DEF Regions
<1>2. \A e \in R : e.box \in Bounding
  OBVIOUS
<1> HIDE DEF R
<1>3. \A k \in DOMAIN s : s[k] \in R
  BY <1>1, SeqHas
<1>4. QED BY <1>2, <1>3

LEMMA CandidatesStand ==
    ASSUME NEW u, Answered(u), Squared(u)
    PROVE  \A k \in DOMAIN Candidates(u) : Stood(Candidates(u)[k])
<1> DEFINE K == {k \in DOMAIN u.regions : u.regions[k].label = "table"}
           labelled == Picked(u.regions, K)
           boxes == [k \in DOMAIN labelled |-> labelled[k].box]
<1>1. Candidates(u) = IF labelled # <<>> THEN boxes ELSE u.found
  BY DEF Candidates
<1>2. u.regions \in Regions /\ u.found \in Seq(Bounding)
  BY DEF Answered
<1>3. \A k \in DOMAIN u.regions : Stood(u.regions[k].box)
  <2>1. \A k \in DOMAIN u.regions : u.regions[k].box \in Bounding
    BY <1>2, RegionsAre
  <2>2. QED BY <2>1 DEF Squared, AllUpright, Stood
<1>4. \A k \in DOMAIN labelled : \E m \in DOMAIN u.regions : labelled[k] = u.regions[m]
  <2>1. K \in SUBSET DOMAIN u.regions
    OBVIOUS
  <2> HIDE DEF K
  <2>2. QED BY <1>2, <2>1, PickedIs DEF Regions
<1>5. \A k \in DOMAIN u.found : Stood(u.found[k])
  <2>1. \A k \in DOMAIN u.found : u.found[k] \in Bounding
    BY <1>2, SeqHas
  <2>2. QED BY <2>1 DEF Squared, Stood
<1> HIDE DEF labelled
<1>6. \A k \in DOMAIN boxes : Stood(boxes[k])
  BY <1>3, <1>4
<1> HIDE DEF boxes
<1>7. QED BY <1>1, <1>5, <1>6

LEMMA PageTablesStand ==
    ASSUME NEW u, Answered(u), Squared(u)
    PROVE  \A m \in DOMAIN PageTables(u) : Stood(PageTables(u)[m].box)
<1> DEFINE at == ByNumber(PlacesOf(u))
           T == PageTables(u)
<1>1. /\ Lists(at, PlacesOf(u)) /\ DOMAIN T = DOMAIN at
      /\ \A m \in DOMAIN T :
           LET k == at[m]
           IN  T[m] = Table(Len(u.grids[k].rows), Len(u.grids[k].cols),
                            StructureCells(u.grids[k].rows, u.grids[k].cols, u.grids[k].spans, Candidates(u)[k]),
                            Candidates(u)[k])
  BY PageTablesAre
<1> HIDE DEF T, at
<1>2. \A m \in DOMAIN T : T[m].box = Candidates(u)[at[m]]
  BY <1>1 DEF Table
<1>3. \A m \in DOMAIN T : at[m] \in DOMAIN Candidates(u)
  <2>1. \A m \in DOMAIN T : at[m] \in PlacesOf(u)
    BY <1>1, ListHolds
  <2>2. QED BY <2>1 DEF PlacesOf
<1>4. \A m \in DOMAIN T : Stood(T[m].box)
  BY <1>2, <1>3, CandidatesStand
<1>5. QED BY <1>4 DEF T

\* A table that is filled stays where it is.
LEMMA FilledStand ==
    ASSUME NEW u, NEW tables, Tables0(u, tables), \A m \in DOMAIN tables : Stood(tables[m].box)
    PROVE  \A m \in DOMAIN Filled(u, tables) : Stood(Filled(u, tables)[m].box)
<1>1. ASSUME NEW m \in DOMAIN tables PROVE FillTable(u.tokens, tables[m]).box = tables[m].box
  <2> DEFINE t == tables[m]
             tok == u.tokens
  <2>1. tok \in Tokens /\ Bare(t) /\ t = [x \in Tabular |-> t[x]]
    BY DEF Tables0
  <2> HIDE DEF t, tok
  <2>2. FillTable(tok, t).box = t.box
    BY <2>1, FilledIs DEF Stock
  <2>3. QED BY <2>2 DEF t, tok
<1>2. QED BY <1>1 DEF Filled

LEMMA RecoveredStands ==
    ASSUME NEW tok \in Tokens, AllUpright(tok), NEW S \in SUBSET DOMAIN tok,
           NEW j \in Worded(tok, Blocks(tok, S)),
           NEW e, Recovered(e, tok, Blocks(tok, S)[j])
    PROVE  Stood(e.box)
<1> DEFINE ids == Blocks(tok, S)[j].ids
           I == ToSet(ids)
           B == {tok[i].box : i \in I}
<1>1. BlockInv(Blocks(tok, S), S) /\ j \in DOMAIN Blocks(tok, S) /\ \E i \in I : tok[i].ink = "word"
  BY BlocksAre DEF Worded
<1>2. Lists(ids, I) /\ I \in SUBSET S
  BY <1>1 DEF BlockInv
<1>3. e.box = Hull(B)
  BY DEF Recovered
<1> HIDE DEF ids, I
<1>4. IsFiniteSet(I) /\ \A i \in I : tok[i].box \in Bounding /\ Upright(tok[i].box)
  BY <1>2, TokensAre, FS_Subset DEF AllUpright
<1>5. IsFiniteSet(B) /\ B \in SUBSET Bounding /\ B # {} /\ \A b \in B : Upright(b)
  <2> DEFINE g == [i \in I |-> tok[i].box]
  <2>1. B = {g[i] : i \in I} /\ B \in SUBSET Bounding /\ B # {} /\ \A b \in B : Upright(b)
    BY <1>1, <1>4
  <2> HIDE DEF g, B
  <2>2. QED BY <1>4, <2>1, ImageIsFinite
<1> HIDE DEF B
<1>6. Stood(Hull(B))
  BY <1>5, HullStands
<1>7. QED BY <1>3, <1>6

LEMMA VisualStands ==
    ASSUME NEW u, Answered(u), Squared(u), NEW tables, Tables0(u, tables),
           \A m \in DOMAIN tables : Stood(tables[m].box), NEW how
    PROVE  AllStand(VisualPage(u, how, tables).elements)
<1> DEFINE Q == VisualPage(u, how, tables).elements
           tok == u.tokens
           filled == Filled(u, tables)
           orphans == Loose(u, tables)
           laid == LaidOf(u, tables)
<1>0. OfLength(tables)
  BY DEF Tables0
<1>1. PICK rest, at : Composed(Q, tok, filled, orphans, laid, rest, at)
  BY <1>0, VisualFormIs DEF VisualForm
<1> DEFINE a == Len(laid.elements)
           b == Len(rest)
           c == Len(at)
<1>2. /\ Lists(rest, DOMAIN filled \ laid.shown) /\ Lists(at, Worded(tok, Blocks(tok, orphans)))
      /\ DOMAIN Q = 1..(a + b + c) /\ \E T : Q \in Seq(T)
      /\ \A j \in 1..a : Q[j] = laid.elements[j]
      /\ \A j \in 1..b : Q[a + j] = Element(<<"t", rest[j]>>, "table", filled[rest[j]].box, <<>>, rest[j])
      /\ \A j \in 1..c : Recovered(Q[a + b + j], tok, Blocks(tok, orphans)[at[j]])
  BY <1>1 DEF Composed
<1>3. \A m \in DOMAIN filled : Stood(filled[m].box)
  BY FilledStand
<1> HIDE DEF Q, filled, orphans, laid
<1>4. OfLength(filled) /\ tok \in Tokens /\ u.regions \in Regions
  BY DEF OfLength, filled, Filled, Answered
<1>5. /\ laid \in Lain(filled) /\ a = Len(u.regions)
      /\ \A i \in DOMAIN u.regions : Stands(laid.elements[i], tok, u.regions, UsedUp(u, tables), i)
  BY <1>4, LaidIs DEF laid, LaidOf, filled
<1>6. a \in Nat /\ b \in Nat /\ c \in Nat /\ DOMAIN u.regions = 1..a /\ DOMAIN at = 1..c /\ DOMAIN rest = 1..b
  <2>1. Len(u.regions) \in Nat /\ DOMAIN u.regions = 1..Len(u.regions)
    BY <1>4, SeqHas DEF Regions
  <2>2. Len(rest) \in Nat /\ Len(at) \in Nat /\ DOMAIN at = 1..Len(at) /\ DOMAIN rest = 1..Len(rest)
    BY <1>2 DEF Lists
  <2>3. QED BY <1>5, <2>1, <2>2
<1> HIDE DEF a, b, c
<1>7. ASSUME NEW k \in 1..a PROVE Stood(Q[k].box)
  <2>1. Stands(Q[k], tok, u.regions, UsedUp(u, tables), k)
    BY <1>2, <1>5, <1>6
  <2>2. Q[k].box = u.regions[k].box
    BY <2>1 DEF Stands
  <2>3. u.regions[k].box \in Bounding
    BY <1>4, <1>6, RegionsAre
  <2>4. QED BY <1>6, <2>2, <2>3 DEF Squared, AllUpright, Stood
<1>8. ASSUME NEW j \in 1..b PROVE Stood(Q[a + j].box)
  <2>1. Q[a + j] = Element(<<"t", rest[j]>>, "table", filled[rest[j]].box, <<>>, rest[j])
    BY <1>2
  <2>2. rest[j] \in DOMAIN filled \ laid.shown
    BY <1>2, <1>6, ListHolds
  <2>3. Q[a + j].box = filled[rest[j]].box
    BY <2>1 DEF Element
  <2>4. QED BY <1>3, <2>2, <2>3
<1>9. ASSUME NEW j \in 1..c PROVE Stood(Q[a + b + j].box)
  <2>1. Recovered(Q[a + b + j], tok, Blocks(tok, orphans)[at[j]])
    BY <1>2
  <2>2. at[j] \in Worded(tok, Blocks(tok, orphans))
    BY <1>2, <1>6, ListHolds
  <2>3. orphans \in SUBSET DOMAIN tok
    BY DEF orphans, Loose, Orphans
  <2>4. AllUpright(tok)
    BY DEF Squared
  <2> DEFINE e == Q[a + b + j]
             m == at[j]
  <2>5. Recovered(e, tok, Blocks(tok, orphans)[m]) /\ m \in Worded(tok, Blocks(tok, orphans))
    BY <2>1, <2>2
  <2> HIDE DEF e, m
  <2>6. Stood(e.box)
    BY <1>4, <2>3, <2>4, <2>5, RecoveredStands
  <2>7. QED BY <2>6 DEF e
<1> DEFINE l == a + b + c
<1>10. l \in Nat /\ DOMAIN Q = 1..l
  BY <1>2, <1>6
<1>11. ASSUME NEW k \in 1..l PROVE Stood(Q[k].box)
  <2>1. \/ k \in 1..a
        \/ (k - a) \in 1..b /\ a + (k - a) = k
        \/ (k - (a + b)) \in 1..c /\ a + b + (k - (a + b)) = k
    BY <1>6
  <2>2. CASE k \in 1..a
    BY <1>7, <2>2
  <2>3. CASE (k - a) \in 1..b /\ a + (k - a) = k
    <3> DEFINE j == k - a
    <3>1. j \in 1..b /\ a + j = k
      BY <2>3
    <3> HIDE DEF j
    <3>2. QED BY <1>8, <3>1
  <2>4. CASE (k - (a + b)) \in 1..c /\ a + b + (k - (a + b)) = k
    <3> DEFINE j == k - (a + b)
    <3>1. j \in 1..c /\ a + b + j = k
      BY <2>4
    <3> HIDE DEF j
    <3>2. QED BY <1>9, <3>1
  <2>5. QED BY <2>1, <2>2, <2>3, <2>4
<1> HIDE DEF l
<1>12. Q = [k \in 1..l |-> Q[k]]
  <2>1. PICK T : Q \in Seq(T)
    BY <1>2
  <2>2. Q = [k \in DOMAIN Q |-> Q[k]]
    BY <2>1
  <2>3. QED BY <1>10, <2>2
<1>13. AllStand(Q)
  BY <1>10, <1>11, <1>12, StandMade
<1>14. QED BY <1>13 DEF Q

\* A page is ordered when it is assembled, but for one that came in order.
AsMade(p) == p.order = IF p.route = "e2e" THEN [i \in DOMAIN p.elements |-> i] ELSE <<>>
Settled(p) ==
    \/ p.route = "e2e" /\ p.order = [i \in DOMAIN p.elements |-> i]
    \/ /\ p.order = ReadingOrder([k \in DOMAIN p.elements |-> p.elements[k].box], p.width)
       /\ p.route = "e2e" => DOMAIN p.elements = {}
Orderable(q) ==
    /\ q.width \in Nat /\ AsMade(q)
    /\ IF q.route = "e2e" THEN \E N \in Nat : DOMAIN q.elements = 1..N ELSE AllStand(q.elements)

LEMMA PageParts ==
    ASSUME NEW how, NEW width, NEW elements, NEW tables, NEW notes
    PROVE  LET q == Page(how, width, elements, tables, notes)
           IN  q.route = how /\ q.width = width /\ q.elements = elements /\ q.order = <<>>
BY DEF Page

LEMMA OfficeOrderable == ASSUME NEW u PROVE Orderable(OfficePage(u))
<1> DEFINE q == OfficePage(u)
           E == <<Element(<<"e", 1>>, "table", NoBox, <<>>, 1)>>
<1>1. q.route = "native_office" /\ q.width = 0 /\ q.elements = E /\ q.order = <<>>
  BY PageParts DEF OfficePage
<1>2. E = [k \in 1..1 |-> E[k]] /\ \A k \in 1..1 : Stood(E[k].box)
  BY DEF Element, Stood
<1> HIDE DEF E, q
<1>3. AllStand(E)
  BY <1>2, StandMade
<1>4. QED BY <1>1, <1>3 DEF Orderable, AsMade, q

LEMMA NativeOrderable ==
    ASSUME NEW u, Given(u), Squared(u), Answered(u)
    PROVE  Orderable(NativePage(u))
<1> DEFINE q == NativePage(u)
           E == NativeElements(u, FoundTables(u))
<1>1. q.route = "digital_pdf" /\ q.width = u.width /\ q.elements = E /\ q.order = <<>>
  BY PageParts DEF NativePage
<1>2. AllStand(E)
  BY NativeStands
<1> HIDE DEF q, E
<1>3. QED BY <1>1, <1>2 DEF Orderable, AsMade, Answered, q

LEMMA VisualOrderable ==
    ASSUME NEW d \in Docs, NEW i \in DOMAIN d.units,
           NEW how \in Visually, NEW tables \in {<<>>, PageTables(d.units[i])}
    PROVE  Orderable(VisualPage(d.units[i], how, tables))
<1> DEFINE u == d.units[i]
<1>1. /\ Answered(u) /\ Squared(u) /\ Tables0(u, PageTables(u))
      /\ tables \in {<<>>, PageTables(u)}
  BY UnitsAre, PageTablesBare
<1> HIDE DEF u
<1>2. Tables0(u, tables) /\ \A m \in DOMAIN tables : Stood(tables[m].box)
  <2>1. DOMAIN <<>> = 1..0 /\ 0 \in Nat /\ DOMAIN <<>> = {}
    OBVIOUS
  <2>2. Tables0(u, <<>>) /\ \A m \in DOMAIN <<>> : Stood(<<>>[m].box)
    BY <1>1, <2>1 DEF OfLength, Tables0
  <2>3. CASE tables = <<>>
    BY <2>2, <2>3
  <2>4. CASE tables = PageTables(u)
    BY <1>1, <2>4, PageTablesStand
  <2>5. QED BY <1>1, <2>3, <2>4
<1> DEFINE q == VisualPage(u, how, tables)
<1>3. q.route = how /\ q.width = u.width /\ q.order = <<>>
  BY <1>1, <1>2, VisualFormIs DEF Tables0
<1>4. AllStand(q.elements)
  BY <1>1, <1>2, VisualStands
<1> HIDE DEF q
<1>5. q.route # "e2e"
  BY <1>3 DEF Visually
<1>6. QED BY <1>1, <1>3, <1>4, <1>5 DEF Orderable, AsMade, Answered, q, u

LEMMA E2eOrderable ==
    ASSUME NEW d \in Docs, NEW i \in DOMAIN d.units
    PROVE  Orderable(E2ePage(d.units[i]))
<1> DEFINE u == d.units[i]
           H == Seq([rows : Seq(Seq((Nat \ {0}) \X (Nat \ {0}))), box : Bounding])
           q == E2ePage(u)
<1>1. u.html \in H /\ u.width \in Nat
  BY AnswersAssumption
<1> HIDE DEF u
<1>2. Len(u.html) \in Nat /\ DOMAIN u.html = 1..Len(u.html)
  BY <1>1, SeqHas
<1>3. /\ q.route = "e2e" /\ q.width = u.width /\ DOMAIN q.elements = DOMAIN u.html
      /\ q.order = [k \in DOMAIN u.html |-> k]
  BY DEF E2ePage, Page
<1> HIDE DEF q
<1>4. QED BY <1>1, <1>2, <1>3 DEF Orderable, AsMade, q, u

LEMMA MadeOrderable ==
    ASSUME NEW d \in Docs, NEW i \in DOMAIN d.units, NEW q \in Made(d.units[i])
    PROVE  Orderable(q)
<1> DEFINE u == d.units[i]
<1>1. \/ q = OfficePage(u) \/ q = E2ePage(u) \/ q = NativePage(u)
      \/ \E how \in Visually, tables \in {<<>>, PageTables(u)} : q = VisualPage(u, how, tables)
  BY DEF Made
<1>2. CASE q = OfficePage(u)
  BY <1>2, OfficeOrderable
<1>3. CASE q = E2ePage(u)
  BY <1>3, E2eOrderable
<1>4. CASE q = NativePage(u)
  BY <1>4, UnitsAre, NativeOrderable
<1>5. CASE \E how \in Visually, tables \in {<<>>, PageTables(u)} : q = VisualPage(u, how, tables)
  BY <1>5, VisualOrderable
<1>6. QED BY <1>1, <1>2, <1>3, <1>4, <1>5

\* A settled page is read once, and downward.
LEMMA SettledReads ==
    ASSUME NEW p, Settled(p), NEW q, Orderable(q),
           p.width = q.width, p.elements = q.elements, p.route = q.route
    PROVE  LET boxes == [k \in DOMAIN p.elements |-> p.elements[k].box]
           IN  /\ ReadOnce(boxes, p.order)
               /\ p.route # "e2e" => ReadDown(boxes, p.order, p.width)
<1> DEFINE E == p.elements
           w == p.width
           boxes == [k \in DOMAIN E |-> E[k].box]
<1>1. /\ w \in Nat
      /\ IF p.route = "e2e" THEN \E N \in Nat : DOMAIN E = 1..N ELSE AllStand(E)
  BY DEF Orderable
<1>2. DOMAIN boxes = DOMAIN E
  OBVIOUS
<1>3. CASE p.route = "e2e" /\ p.order = [i \in DOMAIN E |-> i]
  <2>1. PICK N \in Nat : DOMAIN E = 1..N
    BY <1>1, <1>3
  <2> DEFINE o == [i \in 1..N |-> i]
             D == 1..N
  <2>2. o \in Seq(D) /\ Len(o) = N /\ DOMAIN o = D
    OBVIOUS
  <2>3. Lists(o, D)
    BY <2>2 DEF Lists
  <2>4. Len(o) = Cardinality(D) /\ ToSet(o) = D
    BY <2>3, ListsCount
  <2>5. p.order = o /\ DOMAIN boxes = D
    BY <1>2, <1>3, <2>1
  <2> HIDE DEF boxes
  <2>6. ReadOnce(boxes, p.order)
    BY <2>4, <2>5 DEF ReadOnce
  <2>7. QED BY <1>3, <2>6 DEF boxes
<1>4. CASE p.order = ReadingOrder(boxes, w) /\ (p.route = "e2e" => DOMAIN E = {})
  <2>1. \E N : Boxing(boxes, N)
    <3>1. CASE p.route = "e2e"
      <4>1. DOMAIN boxes = {} /\ 1..0 = {} /\ 0 \in Nat
        BY <1>2, <1>4, <3>1
      <4> HIDE DEF boxes
      <4>2. Boxing(boxes, 0)
        BY <4>1 DEF Boxing
      <4>3. QED BY <4>2
    <3>2. CASE p.route # "e2e"
      <4>1. AllStand(E)
        BY <1>1, <3>2
      <4> HIDE DEF E
      <4>2. QED BY <4>1, StandBoxing
    <3>3. QED BY <3>1, <3>2
  <2>2. PICK N : Boxing(boxes, N)
    BY <2>1
  <2> HIDE DEF boxes, w
  <2>3. ReadOnce(boxes, ReadingOrder(boxes, w)) /\ ReadDown(boxes, ReadingOrder(boxes, w), w)
    BY <1>1, <2>2, OrderedReads
  <2>4. QED BY <1>4, <2>3 DEF boxes, w
<1>5. QED BY <1>3, <1>4 DEF Settled

\* The order of the pages, before they are assembled and after.
OrderInv ==
    /\ pc \notin Ended => \A k \in DOMAIN pages : AsMade(pages[k])
    /\ pc = "done" => \A k \in DOMAIN pages : Settled(pages[k])

LEMMA InitOrder == Init => OrderInv
BY DEF Init, OrderInv, Ended

\* What a step must do to the pages it leaves or changes.
LEMMA OrderHolds ==
    ASSUME OrderInv, pc \notin Ended, pc' # "done",
           \A k \in DOMAIN pages' :
               \/ AsMade(pages'[k])
               \/ k \in DOMAIN pages /\ (AsMade(pages[k]) => AsMade(pages'[k]))
    PROVE  OrderInv'
BY DEF OrderInv

LEMMA LeftInOrder ==
    ASSUME OrderInv, pc \notin Ended, pc' # "done", pages' = pages
    PROVE  OrderInv'
BY OrderHolds

\* Two pages with the same elements, route and order.
LEMMA SameOrder ==
    ASSUME NEW p, AsMade(p), NEW m, m.route = p.route, m.elements = p.elements, m.order = p.order
    PROVE  AsMade(m)
BY DEF AsMade

LEMMA MarkedInOrder ==
    ASSUME OrderInv, PageInv, pc \notin Ended, pc' # "done", NEW M, pages' = Marked(M)
    PROVE  OrderInv'
<1>1. ASSUME NEW k \in DOMAIN pages', AsMade(pages[k]) PROVE AsMade(pages'[k])
  <2> DEFINE p == pages[k]
             m == [p EXCEPT !.notes = p.notes \cup {"SUSPECT"}]
  <2>1. k \in DOMAIN pages /\ pages'[k] = IF k \in M THEN m ELSE p
    BY <1>1 DEF Marked
  <2>2. Fields \subseteq DOMAIN p
    BY <2>1 DEF PageInv, Drawn, From, Keeps
  <2> HIDE DEF p
  <2>3. m.route = p.route /\ m.elements = p.elements /\ m.order = p.order
    BY <2>2 DEF Fields
  <2> HIDE DEF m
  <2>4. AsMade(m)
    BY <1>1, <2>3, SameOrder DEF p
  <2>5. QED BY <1>1, <2>1, <2>4 DEF p
<1>2. DOMAIN pages' = DOMAIN pages
  BY DEF Marked
<1>3. QED BY <1>1, <1>2, OrderHolds

LEMMA AppendedInOrder ==
    ASSUME OrderInv, MarkInv, BudgetInv, pc \notin Ended, pc' # "done",
           NEW q \in Made(unit), Plain(q), pages' = Append(pages, q)
    PROVE  OrderInv'
<1>1. AsMade(q)
  <2>1. doc \in Docs /\ n \in DOMAIN doc.units
    BY DEF BudgetInv, Bounds
  <2>2. QED BY <2>1, MadeOrderable DEF Orderable, unit
<1>2. /\ Len(pages) \in Nat /\ DOMAIN pages = 1..Len(pages) /\ DOMAIN pages' = 1..Len(pages) + 1
      /\ \A i \in DOMAIN pages : pages'[i] = pages[i]
      /\ pages'[Len(pages) + 1] = q
  BY Appended
<1>3. ASSUME NEW k \in DOMAIN pages'
      PROVE  \/ AsMade(pages'[k])
             \/ k \in DOMAIN pages /\ (AsMade(pages[k]) => AsMade(pages'[k]))
  <2> DEFINE l == Len(pages)
  <2> HIDE DEF l
  <2>1. l \in Nat /\ DOMAIN pages = 1..l /\ DOMAIN pages' = 1..(l + 1) /\ pages'[l + 1] = q
    BY <1>2 DEF l
  <2>2. k \in DOMAIN pages \/ k = l + 1
    BY <2>1
  <2>3. CASE k = l + 1
    BY <1>1, <2>1, <2>3
  <2>4. CASE k \in DOMAIN pages
    BY <1>2, <2>4
  <2>5. QED BY <2>2, <2>3, <2>4
<1>4. QED BY <1>3, OrderHolds

\* Assembling gives each page its order.
LEMMA InOrderSettles ==
    ASSUME NEW p, Fields \subseteq DOMAIN p, AsMade(p), NEW fails
    PROVE  Settled(Verified(InOrder(p), fails))
<1> DEFINE o == InOrder(p)
           R == ReadingOrder([k \in DOMAIN p.elements |-> p.elements[k].box], p.width)
           q == [p EXCEPT !.order = R]
           v == Verified(o, fails)
<1>1. o = IF p.order # <<>> THEN p ELSE q
  BY DEF InOrder
<1> HIDE DEF R
<1>2. /\ DOMAIN q = DOMAIN p /\ q.route = p.route /\ q.elements = p.elements /\ q.width = p.width
      /\ q.order = R
  BY DEF Fields
<1> HIDE DEF q
<1>3. Fields \subseteq DOMAIN o /\ o.route = p.route /\ o.elements = p.elements /\ o.width = p.width
  BY <1>1, <1>2
<1>4. \/ p.route = "e2e" /\ o.order = [i \in DOMAIN p.elements |-> i]
      \/ o.order = R /\ (p.route = "e2e" => DOMAIN p.elements = {})
  <2>1. CASE p.order # <<>>
    BY <1>1, <2>1 DEF AsMade
  <2>2. CASE p.order = <<>>
    <3>1. o.order = R
      BY <1>1, <1>2, <2>2
    <3>2. ASSUME p.route = "e2e" PROVE DOMAIN p.elements = {}
      <4>1. [i \in DOMAIN p.elements |-> i] = <<>>
        BY <2>2, <3>2 DEF AsMade
      <4>2. DOMAIN <<>> = {}
        OBVIOUS
      <4> DEFINE f == [i \in DOMAIN p.elements |-> i]
      <4>3. DOMAIN f = DOMAIN p.elements
        OBVIOUS
      <4> HIDE DEF f
      <4>4. f = <<>>
        BY <4>1 DEF f
      <4>5. QED BY <4>2, <4>3, <4>4
    <3>3. QED BY <3>1, <3>2
  <2>3. QED BY <2>1, <2>2
<1> HIDE DEF o
<1>5. v.route = o.route /\ v.elements = o.elements /\ v.width = o.width /\ v.order = o.order
  <2> DEFINE m == [o EXCEPT !.notes = o.notes \cup {"verification"}]
  <2>1. m.route = o.route /\ m.elements = o.elements /\ m.width = o.width /\ m.order = o.order
    BY <1>3 DEF Fields
  <2>2. v = IF fails THEN m ELSE o
    BY DEF Verified
  <2> HIDE DEF m, v
  <2>3. QED BY <2>1, <2>2
<1> HIDE DEF v
<1>6. Settled(v)
  BY <1>3, <1>4, <1>5 DEF Settled, R
<1>7. QED BY <1>6 DEF v, o

LEMMA AssembledInOrder ==
    ASSUME OrderInv, PageInv, Assemble
    PROVE  OrderInv'
<1>1. /\ pc = "assemble" /\ pc' \in {"done", "failed"}
      /\ \/ pages' = pages /\ pc' = "failed"
         \/ \E S : pages' = [i \in DOMAIN pages |-> Verified(InOrder(pages[i]), i \in S)]
  BY DEF Assemble, Checked
<1>2. CASE pc' = "failed"
  BY <1>2 DEF OrderInv, Ended
<1>3. CASE pc' = "done"
  <2>1. PICK S : pages' = [i \in DOMAIN pages |-> Verified(InOrder(pages[i]), i \in S)]
    BY <1>1, <1>3
  <2>2. ASSUME NEW k \in DOMAIN pages PROVE Settled(pages'[k])
    <3>1. pages'[k] = Verified(InOrder(pages[k]), k \in S)
      BY <2>1
    <3>2. AsMade(pages[k])
      BY <1>1 DEF OrderInv, Ended
    <3>3. Fields \subseteq DOMAIN pages[k]
      BY DEF PageInv, Drawn, From, Keeps
    <3>4. QED BY <3>1, <3>2, <3>3, InOrderSettles
  <2>3. DOMAIN pages' = DOMAIN pages
    BY <2>1
  <2>4. QED BY <1>3, <2>2, <2>3 DEF OrderInv, Ended
<1>4. QED BY <1>1, <1>2, <1>3

LEMMA MergedInOrder ==
    ASSUME OrderInv, PageInv, MarkInv, BudgetInv, MergePage
    PROVE  OrderInv'
<1>1. /\ pc = "merge" /\ pc' \in {"fallback", "visual", "collect"}
      /\ found \in {<<>>, PageTables(unit)} /\ route \in {"digital_pdf", "scanned_pdf", "image"}
      /\ doc \in Docs /\ n \in DOMAIN doc.units
  BY DEF MergePage, PageInv, Recognised, Counting, Stages, BudgetInv, Bounds
<1>2. CASE route = "digital_pdf"
  <2> DEFINE page == VisualPage(unit, "digital_pdf+page_fallback", found)
             again == [page EXCEPT !.notes = pages[n].notes \cup {"re-extracted"}]
  <2>1. pages' = [pages EXCEPT ![n] = again]
    BY <1>2 DEF MergePage
  <2>2. page \in Made(unit) /\ DOMAIN page = Fields
    BY <1>1, PagesHaveFields DEF Made, Visually
  <2> HIDE DEF page
  <2>3. AsMade(page)
    BY <1>1, <2>2, MadeOrderable DEF Orderable, unit
  <2>4. again.route = page.route /\ again.elements = page.elements /\ again.order = page.order
    BY <2>2 DEF Fields
  <2> HIDE DEF again
  <2>5. AsMade(again)
    BY <2>3, <2>4, SameOrder
  <2>6. \A k \in DOMAIN pages' : k \in DOMAIN pages /\ (pages'[k] = again \/ pages'[k] = pages[k])
    BY <2>1
  <2>7. QED BY <1>1, <2>5, <2>6, OrderHolds DEF Ended
<1>3. CASE route # "digital_pdf"
  <2> DEFINE page == VisualPage(unit, route, found)
  <2>1. pages' = Append(pages, page)
    BY <1>3 DEF MergePage
  <2>2. page \in Made(unit) /\ Plain(page)
    BY <1>1, <1>3, VisualIs DEF Made, Visually
  <2> HIDE DEF page
  <2>3. QED BY <1>1, <2>1, <2>2, AppendedInOrder DEF Ended
<1>4. QED BY <1>2, <1>3

LEMMA OfficeInOrder ==
    ASSUME OrderInv, PageInv, MarkInv, BudgetInv, Office
    PROVE  OrderInv'
<1>1. /\ pc = "office" /\ pc' \in {"failed", "collect", "office"}
      /\ \/ pages' = pages
         \/ pages' = Append(pages, OfficePage(unit)) /\ Fits(OfficeTable(unit.source))
  BY DEF Office
<1>2. CASE pages' = pages
  BY <1>1, <1>2, LeftInOrder DEF Ended
<1>3. CASE pages' = Append(pages, OfficePage(unit)) /\ Fits(OfficeTable(unit.source))
  <2>1. doc \in Docs /\ n \in DOMAIN doc.units /\ doc.kind = "office"
    BY <1>1 DEF PageInv, Counting, BudgetInv, Bounds
  <2>2. unit.source.form \in Forms
    BY <2>1, SourcesAssumption DEF unit
  <2>3. OfficePage(unit) \in Made(unit) /\ Plain(OfficePage(unit))
    BY <1>3, <2>2, OfficeIs DEF Made, Fitting
  <2>4. QED BY <1>1, <1>3, <2>3, AppendedInOrder DEF Ended
<1>4. QED BY <1>1, <1>2, <1>3

LEMMA CanonicalInOrder ==
    ASSUME OrderInv, PageInv, MarkInv, BudgetInv, Canonical
    PROVE  OrderInv'
<1>1. /\ pc = "canonical" /\ pc' \in {"failed", "canonical", "fallback"}
      /\ pages' = pages \/ pages' = Append(pages, NativePage(unit))
  BY DEF Canonical, work
<1>2. CASE pages' = pages
  BY <1>1, <1>2, LeftInOrder DEF Ended
<1>3. CASE pages' = Append(pages, NativePage(unit))
  <2>1. NativePage(unit) \in Made(unit) /\ Plain(NativePage(unit))
    BY NativeIs DEF Made
  <2>2. QED BY <1>1, <1>3, <2>1, AppendedInOrder DEF Ended
<1>4. QED BY <1>1, <1>2, <1>3

LEMMA PredictedInOrder ==
    ASSUME OrderInv, PageInv, MarkInv, BudgetInv, Predict
    PROVE  OrderInv'
<1>1. /\ pc = "e2e" /\ pc' \in {"collect", "failed"}
      /\ pages' = pages \/ (pages' = <<E2ePage(unit)>> /\ Accepted(unit))
      /\ doc \in Docs /\ n \in DOMAIN doc.units
  BY DEF Predict, Checked, BudgetInv, Bounds
<1>2. CASE pages' = pages
  BY <1>1, <1>2, LeftInOrder DEF Ended
<1>3. CASE pages' = <<E2ePage(unit)>> /\ Accepted(unit)
  <2> DEFINE q == E2ePage(unit)
  <2>1. AsMade(q)
    BY <1>1, E2eOrderable DEF Orderable, unit
  <2> HIDE DEF q
  <2>2. pages' = <<q>>
    BY <1>3 DEF q
  <2>3. \A k \in DOMAIN pages' : pages'[k] = q
    BY <2>2
  <2>4. QED BY <1>1, <2>1, <2>3, OrderHolds DEF Ended
<1>4. QED BY <1>1, <1>2, <1>3

LEMMA CalledInOrder ==
    ASSUME OrderInv, PageInv, Layout \/ Ocr \/ TableStage \/ FallbackEnds
    PROVE  OrderInv'
<1>1. CASE FallbackEnds
  <2>1. pc = "fallback" /\ pc' = "collect" /\ (pages' = pages \/ \E M : pages' = Marked(M))
    BY <1>1 DEF FallbackEnds
  <2>2. QED BY <2>1, LeftInOrder, MarkedInOrder DEF Ended
<1>2. CASE Layout \/ Ocr \/ TableStage
  <2>1. pc \in {"layout", "ocr", "table"} /\ pc' # "done" /\ (pages' = pages \/ \E M : pages' = Marked(M))
    BY <1>2 DEF Layout, Ocr, TableStage, Broken, Checked, work
  <2>2. QED BY <2>1, LeftInOrder, MarkedInOrder DEF Ended
<1>3. QED BY <1>1, <1>2

LEMMA LookedInOrder ==
    ASSUME OrderInv,
           \/ Tick \/ Snapshot \/ Preflight \/ Assess \/ Visual \/ Osd \/ Special \/ Compare
           \/ Render \/ RenderAgain \/ RenderImage \/ Refused \/ Route \/ Collect
    PROVE  OrderInv'
<1>1. pages' = pages /\ pc \notin Ended /\ pc' # "done"
  <2>1. CASE \/ Tick \/ Snapshot \/ Preflight \/ Assess \/ Visual \/ Osd \/ Special \/ Compare
             \/ Render \/ RenderAgain \/ RenderImage \/ Refused \/ Collect
    BY <2>1 DEF Tick, Snapshot, Preflight, Assess, Visual, Osd, Special, Compare, Render, RenderAgain,
       RenderImage, Refused, Collect, Rendered, work, Checked, Ended
  <2>2. CASE Route
    BY <2>2 DEF Route, StepOf, work, Checked, Ended
  <2>3. QED BY <2>1, <2>2
<1>2. QED BY <1>1, LeftInOrder

LEMMA StepOrder == OrderInv /\ PageInv /\ MarkInv /\ BudgetInv /\ [Next]_vars => OrderInv'
<1> SUFFICES ASSUME OrderInv, PageInv, MarkInv, BudgetInv, [Next]_vars PROVE OrderInv'
  OBVIOUS
<1>1. CASE UNCHANGED vars
  BY <1>1 DEF vars, OrderInv
<1>2. CASE RecoverElements \/ RecoverOrder
  <2>1. pc' \in {"fused", "reordered"}
    BY <1>2 DEF RecoverElements, RecoverOrder
  <2>2. QED BY <2>1 DEF OrderInv, Ended
<1>3. CASE \/ Tick \/ Snapshot \/ Preflight \/ Assess \/ Visual \/ Osd \/ Special \/ Compare
           \/ Render \/ RenderAgain \/ RenderImage \/ Refused \/ Route \/ Collect
  BY <1>3, LookedInOrder
<1>4. CASE Layout \/ Ocr \/ TableStage \/ FallbackEnds
  BY <1>4, CalledInOrder
<1>5. QED BY <1>1, <1>2, <1>3, <1>4, OfficeInOrder, CanonicalInOrder, MergedInOrder,
             PredictedInOrder, AssembledInOrder DEF Next

\* A finished page keeps what it was made from, and has its order.
LEMMA FinishedReads == BudgetInv /\ MarkInv /\ PageInv /\ OrderInv => ReadsDownward
<1> SUFFICES ASSUME BudgetInv, MarkInv, PageInv, OrderInv, pc = "done", NEW p \in ToSet(pages)
             PROVE  LET boxes == [k \in DOMAIN p.elements |-> p.elements[k].box]
                    IN  /\ ReadOnce(boxes, p.order)
                        /\ p.route # "e2e" => ReadDown(boxes, p.order, p.width)
  BY DEF ReadsDownward
<1>1. PICK k \in DOMAIN pages : p = pages[k]
  BY DEF ToSet
<1>2. doc \in Docs /\ k \in DOMAIN doc.units
  <2>1. doc \in Docs
    BY DEF BudgetInv, Bounds
  <2>2. Len(pages) <= Len(doc.units) /\ DOMAIN pages = 1..Len(pages) /\ Len(pages) \in Nat
    BY DEF PageInv, Counting, MarkInv, Built
  <2>3. Len(doc.units) \in Nat /\ DOMAIN doc.units = 1..Len(doc.units)
    BY <2>1, Documents
  <2>4. QED BY <2>1, <2>2, <2>3
<1>3. From(p, doc.units[k], {})
  BY <1>1 DEF PageInv, Drawn, Renewed
<1>4. PICK q \in Made(doc.units[k]) : p.route = q.route /\ p.width = q.width /\ p.elements = q.elements
  BY <1>3 DEF From, Keeps
<1>5. Orderable(q)
  BY <1>2, <1>4, MadeOrderable
<1>6. Settled(p)
  BY <1>1 DEF OrderInv
<1>7. QED BY <1>4, <1>5, <1>6, SettledReads

(***************************************************************************)
(* A finished page is read once, every element of it, and downward unless  *)
(* the whole-document model gave its order: whatever the layout, no        *)
(* element comes before one that stands wholly above it in its way, but    *)
(* for those that a chain of elements of their column, or across the       *)
(* columns, ties; and elements without a box come last.                    *)
(* (compute_reading_order, stages/reading_order.py; assemble_document.)    *)
(***************************************************************************)
THEOREM PagesAreReadDownward == Spec => []ReadsDownward
<1>1. Spec => []OrderInv
  BY PagesHold, InitOrder, StepOrder, PTL DEF Spec
<1>2. QED BY <1>1, PagesHold, FinishedReads, PTL
=============================================================================
