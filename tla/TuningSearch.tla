---------------------------- MODULE TuningSearch ----------------------------
(***************************************************************************)
(* What TuningScheduler's Optimize does (src/tuning): the space of the     *)
(* parameters, the objective over the GroundTruth nodes of the knowledge   *)
(* graph, and the optimizer with its observations and the cached factor of *)
(* its Gaussian process, while other threads insert nodes.                 *)
(*                                                                         *)
(* A vector is a sequence of integers.  Expected improvement and the       *)
(* process' hyperparameters are free choices: the search may end anywhere  *)
(* it can reach.  What it cannot do is part of the model: the differences  *)
(* it climbs by are 0 in a discrete coordinate (a perturbed value snaps    *)
(* back), so that only continuous ones move away from the random start.    *)
(***************************************************************************)
EXTENDS Integers, Sequences, SequencesExt, FiniteSets

CONSTANTS
    Space,        \* parameters_: [min, max, step], step 0 for a continuous one
    Constraints,  \* constraints_: [l, cl, r, cr, bound] over indices
    NgIndex,      \* ng_threshold_idx_
    FpCost, FnCost, Unit,   \* costs are integers, in Unit-ths
    GroundTruths, \* GroundTruth nodes that may be inserted
    MaxNodes,     \* bound: nodes inserted
    Settings,     \* [first, initial, iterations, patience]: current_params_ at the start, and three
                  \* members of OptimizerConfig
    MaxTime,      \* bound: lookback windows
    MaxObserved   \* bound: observations after which no cycle starts
NoScore == -1     \* a node without detection_score

VARIABLES
    setting,
    nodes,         \* GroundTruth nodes, in the order of their ids
    since,         \* start of the cycle's window
    current,       \* the scheduler's current_params_
    cost,          \* and current_cost_
    observations,  \* observations_: [params, cost]
    hyper,         \* how often sigma2_ and length_ were fitted anew (mod 2)
    cache,         \* cache_valid_ and what cached_L_ was computed from
    at,            \* place in Optimize
    point,         \* the vector about to be evaluated
    left,          \* iterations left
    flat,          \* stagnation_count
    result         \* what the last Optimize returned
searchVars == <<setting, nodes, since, current, cost, observations, hyper, cache, at, point, left, flat, result>>
optimizerVars == <<observations, hyper, cache>>

-----------------------------------------------------------------------------
(* TuningSpace                                                              *)

Dimension == Len(Space)
Clamp(v, lo, hi) == IF v < lo THEN lo ELSE IF v > hi THEN hi ELSE v
\* std::round of a quotient of integers that are not negative.
Rounded(a, b) == (2 * a + b) \div (2 * b)
Snapped(p, v) == p.min + Rounded(v - p.min, p.step) * p.step

\* Variant of ClampTo: without the clamp after the snap.
ClampToOnce(p, v) ==
    LET c == Clamp(v, p.min, p.max) IN IF p.step > 0 THEN Snapped(p, c) ELSE c

\* One coordinate of ClampToBounds, which RandomFeasiblePoint repeats.
ClampTo(p, v) ==
    LET c == Clamp(v, p.min, p.max) IN
    IF p.step > 0 THEN Clamp(Snapped(p, c), p.min, p.max) ELSE c

IsFeasible(x) ==
    /\ Len(x) = Dimension
    /\ \A i \in DOMAIN x :
         /\ x[i] \in Space[i].min .. Space[i].max
         /\ Space[i].step > 0 => x[i] = Snapped(Space[i], x[i])
    /\ \A c \in Constraints :
         /\ {c.l, c.r} \subseteq DOMAIN x
         /\ c.cl * x[c.l] + c.cr * x[c.r] <= c.bound

\* RandomFeasiblePoint: a clamped value of each range, constraints unseen.
Values(p) == {ClampTo(p, v) : v \in p.min .. p.max}
RandomPoints ==
    {x \in [DOMAIN Space -> UNION {Values(Space[i]) : i \in DOMAIN Space}] :
        \A i \in DOMAIN Space : x[i] \in Values(Space[i])}

-----------------------------------------------------------------------------
(* KnowledgeGraphObjective                                                  *)

Simulated(x) == NgIndex \in DOMAIN x

\* The nodes of the window that have what the mode needs; a node without a
\* timestamp has time -1 and is in no window.
Counted(x) ==
    {i \in DOMAIN nodes :
        /\ nodes[i].time >= since
        /\ nodes[i].verdict # "none" \/ (Simulated(x) /\ nodes[i].label # "none" /\ nodes[i].score # NoScore)}

\* The human's label if there is one, else the machine's verdict.
TrulyNg(n) == IF n.label = "none" THEN n.verdict # "OK" ELSE n.label = "NG"

\* Variant of FoundNg: the comparison the wrong way round.
FoundNgLow(n, x) ==
    IF Simulated(x) /\ n.score # NoScore THEN n.score < x[NgIndex] ELSE n.verdict # "OK"

FoundNg(n, x) ==
    IF Simulated(x) /\ n.score # NoScore THEN n.score > x[NgIndex] ELSE n.verdict # "OK"

FalsePositives(x) == {i \in Counted(x) : FoundNg(nodes[i], x) /\ ~TrulyNg(nodes[i])}
FalseNegatives(x) == {i \in Counted(x) : ~FoundNg(nodes[i], x) /\ TrulyNg(nodes[i])}

EvaluateCost(x) ==
    IF Counted(x) = {} THEN 0
    ELSE (Unit * (FpCost * Cardinality(FalsePositives(x)) + FnCost * Cardinality(FalseNegatives(x))))
         \div Cardinality(Counted(x))

-----------------------------------------------------------------------------
(* BayesianOptimizer                                                        *)

NoCache == [valid |-> FALSE, seen |-> 0, hyper |-> 0]
NoResult == [params |-> <<>>, cost |-> 0]

SearchInit ==
    /\ setting \in Settings
    /\ nodes = <<>> /\ since = 0 /\ current = setting.first /\ cost = 0
    /\ observations = <<>> /\ hyper = 0 /\ cache = NoCache
    /\ at = "idle" /\ point = <<>> /\ left = 0 /\ flat = 0 /\ result = NoResult

\* Another thread inserts a node.
InsertNode ==
    /\ Len(nodes) < MaxNodes
    /\ \E n \in GroundTruths : nodes' = Append(nodes, n)
    /\ UNCHANGED <<setting, since, current, cost, optimizerVars, at, point, left, flat, result>>

\* Variant of Observe: the cached factor stays valid.
ObserveKeepsCache(x, c) ==
    /\ observations' = Append(observations, [params |-> x, cost |-> c])
    /\ UNCHANGED cache

\* AddObservation.
Observe(x, c) ==
    /\ observations' = Append(observations, [params |-> x, cost |-> c])
    /\ cache' = [cache EXCEPT !.valid = FALSE]

Best(obs) ==
    LET least == CHOOSE i \in DOMAIN obs :
                    /\ \A j \in DOMAIN obs : obs[i].cost <= obs[j].cost
                    /\ \A j \in 1 .. i - 1 : obs[j].cost > obs[i].cost
    IN obs[least]

\* The scheduler's cycle: the window, the current vector's cost, the call.
Cycle ==
    /\ at = "idle" /\ Len(observations) < MaxObserved
    /\ \E t \in since .. MaxTime : since' = t
    /\ at' = "current"
    /\ left' = setting.iterations /\ flat' = 0 /\ result' = NoResult
    /\ UNCHANGED <<setting, nodes, current, cost, optimizerVars, point>>

\* A query that fails ends the cycle.
ObserveCurrent ==
    /\ at = "current"
    /\ \/ /\ cost' = EvaluateCost(current)
          /\ Observe(current, cost')
          /\ at' = "initial"
       \/ at' = "idle" /\ UNCHANGED <<cost, observations, cache>>
    /\ UNCHANGED <<setting, nodes, since, current, hyper, point, left, flat, result>>

\* The next initial point, or the first iteration.
Initial ==
    /\ at = "initial"
    /\ IF Len(observations) < setting.initial
       THEN at' = "random" /\ \E x \in RandomPoints : point' = x
       ELSE at' = "iterate" /\ UNCHANGED point
    /\ UNCHANGED <<setting, nodes, since, current, cost, optimizerVars, left, flat, result>>

\* Evaluate and AddObservation of a random or proposed point; a failing query
\* ends the call and keeps the observations made so far.
EvaluatePoint ==
    /\ at \in {"random", "propose"}
    /\ \/ /\ Observe(point, EvaluateCost(point))
          /\ IF at = "random" THEN at' = "initial" /\ UNCHANGED left
                              ELSE at' = "iterate" /\ left' = left - 1
       \/ at' = "idle" /\ UNCHANGED <<observations, cache, left>>
    /\ UNCHANGED <<setting, nodes, since, current, cost, hyper, point, flat, result>>

\* SqDistance takes the length of its first vector: it reads past the end of a
\* second one that holds nothing, which is no memory at all.
ReadsPastEnd(x, y) == Len(x) > Len(y)
KernelCrashes ==
    \E i \in DOMAIN observations : \E j \in 1 .. i - 1 :
        ReadsPastEnd(observations[i].params, observations[j].params)
PredictCrashes(x) == \E i \in DOMAIN observations : ReadsPastEnd(x, observations[i].params)

\* FitHyperparameters (with two observations or more) and the reset of the cache.
Fit ==
    /\ at = "iterate" /\ left > 0
    /\ IF KernelCrashes
       THEN at' = "crashed" /\ UNCHANGED <<hyper, cache>>
       ELSE /\ \E h \in IF Len(observations) < 2 THEN {hyper} ELSE {0, 1} : hyper' = h
            /\ cache' = [cache EXCEPT !.valid = FALSE]
            /\ at' = "maximize"
    /\ UNCHANGED <<setting, nodes, since, current, cost, observations, point, left, flat, result>>

\* EnsureCache: the kernel matrix of the observations, decomposed with growing
\* jitter; it may fail to be positive definite to the end.
EnsureCache ==
    IF cache.valid THEN UNCHANGED cache
    ELSE \/ cache' = [valid |-> TRUE, seen |-> Len(observations), hyper |-> hyper]
         \/ cache' = [cache EXCEPT !.valid = FALSE]

\* LBFGSBMaximize, whose every ComputeEI predicts through the cache: from some
\* random start, along the continuous coordinates.
Maximize ==
    /\ at = "maximize"
    /\ IF \E x \in RandomPoints : PredictCrashes(x)
       THEN at' = "crashed" /\ UNCHANGED <<cache, point>>
       ELSE /\ EnsureCache
            /\ \E start \in RandomPoints, x \in RandomPoints :
                 /\ \A i \in DOMAIN Space : Space[i].step > 0 => x[i] = start[i]
                 /\ point' = x
            /\ at' = "improve"
    /\ UNCHANGED <<setting, nodes, since, current, cost, observations, hyper, left, flat, result>>

\* An expected improvement below the tolerance, often enough in a row, ends the loop.
Improve ==
    /\ at = "improve"
    /\ flat' \in {0, flat + 1}
    /\ at' = IF flat' > 0 /\ flat' >= setting.patience THEN "return" ELSE "propose"
    /\ UNCHANGED <<setting, nodes, since, current, cost, optimizerVars, point, left, result>>

Return ==
    /\ at = "return" \/ (at = "iterate" /\ left = 0)
    /\ result' = Best(observations)
    /\ at' = "idle"
    /\ UNCHANGED <<setting, nodes, since, current, cost, optimizerVars, point, left, flat>>

\* The scheduler applies a result that costs 5 % less, and any if the current
\* vector costs nothing.
Adopt ==
    /\ at = "idle" /\ result # NoResult
    /\ cost <= 0 \/ 100 * result.cost < 95 * cost
    /\ current' = result.params
    /\ UNCHANGED <<setting, nodes, since, cost, optimizerVars, at, point, left, flat, result>>

SearchNext ==
    \/ InsertNode \/ Cycle \/ ObserveCurrent \/ Initial \/ EvaluatePoint
    \/ Fit \/ Maximize \/ Improve \/ Return \/ Adopt

-----------------------------------------------------------------------------
(* Properties                                                               *)

\* The optimizer never observes a vector outside the declared ranges, whatever
\* the rounding to steps does at their ends (ClampToBounds).
StaysInBounds ==
    \A i \in DOMAIN observations :
        \/ observations[i].params = setting.first
        \/ \A j \in DOMAIN Space : observations[i].params[j] \in Space[j].min .. Space[j].max

\* A prediction solves with a factor of all observations under the present
\* hyperparameters, else its vectors are longer than the factor (EnsureCache).
CacheFits ==
    cache.valid => cache.seen = Len(observations) /\ cache.hyper = hyper

\* What Optimize returns was observed, and nothing cheaper was.
ReturnsBest ==
    result # NoResult =>
        \E i \in DOMAIN observations :
            /\ observations[i] = result
            /\ at = "idle" => \A j \in DOMAIN observations : result.cost <= observations[j].cost

\* Raising the NG threshold finds no more false positives and no fewer false
\* negatives (EvaluateSimulated).
ThresholdTradesOff ==
    at = "current" => \A x, y \in RandomPoints : x[NgIndex] <= y[NgIndex] =>
        FalsePositives(y) \subseteq FalsePositives(x) /\ FalseNegatives(x) \subseteq FalseNegatives(y)

SearchSound == StaysInBounds /\ CacheFits /\ ReturnsBest /\ ThresholdTradesOff

-----------------------------------------------------------------------------
(* What the documentation says and the code does not do: see the README.     *)

\* Documented (auto-tuning design, line 405): a vector has a value for every
\* parameter of the space.  The scheduler's first one is empty, and the kernel
\* then reads past its end.
OptimizeSurvives == at # "crashed"

\* Documented (README.md:170, auto-tuning design, line 43): what is proposed
\* satisfies the space's constraints.
ResultFeasible == result # NoResult => result.params = setting.first \/ IsFeasible(result.params)

\* Documented (auto-tuning design, line 360): the result is the best on the
\* feedback of the window; costs of earlier windows are never computed anew.
BestOnFeedback ==
    at = "idle" /\ result # NoResult /\ Simulated(result.params) =>
        \A i \in DOMAIN observations : Simulated(observations[i].params) =>
            EvaluateCost(result.params) <= EvaluateCost(observations[i].params)
=============================================================================
