---------------------------- MODULE PostProcess -----------------------------
(***************************************************************************)
(* What a detector makes of its patch scores (src/detection): the scores   *)
(* normalised, the map brought to the image's size, smoothed and cut at a  *)
(* threshold, and the regions that are left, labelled with a union-find.   *)
(*                                                                         *)
(* A map is a function of <<row, column>> to integers: the floats it holds *)
(* times a factor, which is carried along.  Division is exact here.        *)
(***************************************************************************)
EXTENDS Integers, Sequences, SequencesExt, FiniteSets, FiniteSetsExt, TLC

CONSTANTS
    Frames,      \* [h, w, scores]: an embedding's grid and its patches' scores, in raster order
    Detectors,   \* [by, ref, size, patch, sigma, threshold]: scores divided by "reference" ref or
                 \* by their "maximum"; the image's size, DetectorConfig's patch size, ...
    Kernel       \* the weights of a Gaussian, by sigma; three sigmas to each side

VARIABLES
    detector,
    detection    \* what Detect returned
postVars == <<detector, detection>>

Raster(d) == [i \in 1 .. d.h * d.w |-> <<(i - 1) \div d.w, (i - 1) % d.w>>]
Cells(d) == (0 .. d.h - 1) \X (0 .. d.w - 1)
Clamped(v, hi) == IF v < 0 THEN 0 ELSE IF v > hi THEN hi ELSE v

-----------------------------------------------------------------------------
(* BilinearUpsample and GaussianBlur                                        *)

\* The source of index i of m among n cells, pixel centre on pixel centre: the
\* cell before, the cell after, and the weight of the latter out of 2 * m.
Along(i, m, n) ==
    LET at == Clamped((2 * i + 1) * n - m, (n - 1) * 2 * m) IN
    [before |-> at \div (2 * m), after |-> Clamped(at \div (2 * m) + 1, n - 1), weight |-> at % (2 * m)]

Upsampled(cells, s, d) ==
    [p \in Cells(d) |->
        LET y == Along(p[1], d.h, s.h)
            x == Along(p[2], d.w, s.w)
            Row(r) == cells[<<r, x.before>>] * (2 * d.w - x.weight) + cells[<<r, x.after>>] * x.weight
        IN Row(y.before) * (2 * d.h - y.weight) + Row(y.after) * y.weight]

Weighted(k, Value(_)) == FoldLeft(LAMBDA sum, i : sum + k[i] * Value(i), 0, [i \in 1 .. Len(k) |-> i])

\* A row pass and a column pass, each taking the edge's value beyond the edge.
Blurred(cells, d, k) ==
    LET r == (Len(k) - 1) \div 2
        rows == [p \in Cells(d) |->
                    Weighted(k, LAMBDA i : cells[<<p[1], Clamped(p[2] + i - 1 - r, d.w - 1)>>])]
    IN [p \in Cells(d) |-> Weighted(k, LAMBDA i : rows[<<Clamped(p[1] + i - 1 - r, d.h - 1), p[2]>>])]

KernelSum(k) == Weighted(k, LAMBDA i : 1)

-----------------------------------------------------------------------------
(* ConnectedComponents                                                      *)

RECURSIVE FindRoot(_, _)
\* find_root with path halving: the root, and parent as it leaves it.
FindRoot(parent, l) ==
    IF parent[l] = l THEN [root |-> l, parent |-> parent]
    ELSE FindRoot([parent EXCEPT ![l] = parent[parent[l]]], parent[parent[l]])

LabelAt(labels, p) == IF p \in DOMAIN labels THEN labels[p] ELSE 0

\* Variant of Label: two labels that meet are not united.
LabelOnly(acc, p) ==
    LET up == LabelAt(acc.labels, <<p[1] - 1, p[2]>>)
        left == LabelAt(acc.labels, <<p[1], p[2] - 1>>)
        new == Len(acc.parent) + 1
    IN IF up = 0 /\ left = 0 THEN [labels |-> acc.labels @@ (p :> new), parent |-> Append(acc.parent, new)]
       ELSE [acc EXCEPT !.labels = @ @@ (p :> IF up # 0 THEN up ELSE left)]

\* The first pass at a bright pixel: a new label, a neighbour's, or the lower
\* root of two neighbours' labels, which become one.
Label(acc, p) ==
    LET up == LabelAt(acc.labels, <<p[1] - 1, p[2]>>)
        left == LabelAt(acc.labels, <<p[1], p[2] - 1>>)
        new == Len(acc.parent) + 1
    IN IF up = 0 /\ left = 0 THEN [labels |-> acc.labels @@ (p :> new), parent |-> Append(acc.parent, new)]
       ELSE IF up = 0 \/ left = 0 THEN [acc EXCEPT !.labels = @ @@ (p :> up + left)]
       ELSE LET u == FindRoot(acc.parent, up)
                v == FindRoot(u.parent, left)
                low == Min({u.root, v.root})
            IN [labels |-> acc.labels @@ (p :> low),
                parent |-> [v.parent EXCEPT ![Max({u.root, v.root})] = low]]

NoInfo(d) == [max |-> 0, sum |-> 0, area |-> 0, top |-> d.h, left |-> d.w, bottom |-> 0, right |-> 0]
InfoWith(info, p, v) ==
    [max |-> Max({info.max, v}), sum |-> info.sum + v, area |-> info.area + 1,
     top |-> Min({info.top, p[1]}), left |-> Min({info.left, p[2]}),
     bottom |-> Max({info.bottom, p[1]}), right |-> Max({info.right, p[2]})]

\* The second pass: a pixel counts for the root of its label.
Collect(acc, p, v) ==
    LET f == FindRoot(acc.parent, acc.labels[p]) IN
    [acc EXCEPT !.parent = f.parent, !.infos = [@ EXCEPT ![f.root] = InfoWith(@, p, v)]]

\* The roots' boxes, the highest maximum first.
ConnectedComponents(bright, cells, d) ==
    LET pixels == SelectSeq(Raster(d), LAMBDA p : p \in bright)
        first == FoldLeft(Label, [labels |-> <<>>, parent |-> <<>>], pixels)
        second == FoldLeft(LAMBDA acc, p : Collect(acc, p, cells[p]),
                           [labels |-> first.labels, parent |-> first.parent,
                            infos |-> [i \in DOMAIN first.parent |-> NoInfo(d)]], pixels)
    IN SortSeq(SelectSeq(second.infos, LAMBDA r : r.area > 0), LAMBDA a, b : a.max > b.max)

-----------------------------------------------------------------------------
(* Detect                                                                   *)

Largest(cells) == Max({cells[p] : p \in DOMAIN cells})

\* ref_dist_ of the bank's own distances, or the frame's own maximum.
UnitOf(det, cells) ==
    LET u == IF det.by = "reference" THEN det.ref ELSE Largest(cells) IN IF u > 0 THEN u ELSE 1

\* BuildDetectionResult; cells are unit times the scores, smooth unit * scale times.
BuildDetectionResult(det, d, cells, unit) ==
    LET kernel == Kernel[det.sigma]
        scale == 4 * det.size.h * det.size.w * KernelSum(kernel) * KernelSum(kernel)
        smooth == Blurred(Upsampled(cells, d, det.size), det.size, kernel)
        bright == {p \in Cells(det.size) : smooth[p] > det.threshold * unit * scale}
    IN [score |-> Largest(cells), unit |-> unit, bright |-> bright, smooth |-> smooth,
        regions |-> ConnectedComponents(bright, smooth, det.size)]

ValidatePatchGrid(det, d) == d.h = det.size.h \div det.patch /\ d.w = det.size.w \div det.patch

NoDetection == [bright |-> {}, regions |-> <<>>, score |-> 0, unit |-> 1]
PostInit == detector \in Detectors /\ detection = NoDetection

Detect(f) ==
    LET d == [h |-> f.h, w |-> f.w]
        cells == [p \in Cells(d) |-> f.scores[p[1] * d.w + p[2] + 1]]
    IN /\ ValidatePatchGrid(detector, d)
       /\ detection' = BuildDetectionResult(detector, d, cells, UnitOf(detector, cells))
       /\ UNCHANGED detector

PostNext == detection = NoDetection /\ \E f \in Frames : Detect(f)

-----------------------------------------------------------------------------
(* Properties                                                               *)

Adjacent(p) == {<<p[1] + 1, p[2]>>, <<p[1] - 1, p[2]>>, <<p[1], p[2] + 1>>, <<p[1], p[2] - 1>>}
RECURSIVE Spread(_, _)
Spread(s, within) ==
    LET more == UNION {Adjacent(p) : p \in s} \cap within IN
    IF more \subseteq s THEN s ELSE Spread(s \cup more, within)
Components(bright) == {Spread({p}, bright) : p \in bright}

Described(c, cells) ==
    [max |-> Max({cells[p] : p \in c}), sum |-> MapThenSumSet(LAMBDA p : cells[p], c), area |-> Cardinality(c),
     top |-> Min({p[1] : p \in c}), left |-> Min({p[2] : p \in c}),
     bottom |-> Max({p[1] : p \in c}), right |-> Max({p[2] : p \in c})]

\* The regions are the 4-connected components of the bright pixels, each once and
\* with its own box, area and scores, the most anomalous first, however the label
\* trees were joined and shortened (ConnectedComponents).
RegionsAreComponents ==
    LET found == detection.regions
        real == Components(detection.bright)
    IN /\ Len(found) = Cardinality(real)
       /\ \A i \in DOMAIN found :
            LET same == {c \in real : Described(c, detection.smooth) = found[i]} IN
            Cardinality(same) = Cardinality({j \in DOMAIN found : found[j] = found[i]})
       /\ \A i \in 1 .. Len(found) - 1 : found[i].max >= found[i + 1].max

\* A frame with a region is also defective by its score: neither enlarging nor
\* smoothing makes a score higher than the patches' (BuildDetectionResult).
RegionsOnlyOfDefective ==
    detection.regions # <<>> => detection.score > detector.threshold * detection.unit

-----------------------------------------------------------------------------
(* What the documentation says and the code does not do: see the README.     *)

\* Documented (patch_core.cpp:212, of PatchCore's own normalisation): the scores
\* of a frame are not divided by that frame's maximum, else all frames look alike.
\* PcaDetector does, and then every frame that has a score is defective.
GoodFramePossible ==
    detection # NoDetection /\ detector.threshold < 1 /\ detection.score > 0
        => detector.by = "reference"
=============================================================================
