------------------------------ MODULE Reasoning -----------------------------
(***************************************************************************)
(* From a detection result to a verdict: the RuleEval stage builds facts   *)
(* (FactBuilder), looks for neighbours of the frame's features (with a     *)
(* cache) and records the score; the Reason stage walks a decision tree    *)
(* that the GUI or the tuning replaces at any time, without a lock; the    *)
(* recorder's thread writes the records.  Scores are tenths; a leaf's      *)
(* score is kept before the sigmoid, which is increasing, in hundredths,   *)
(* and so are the two thresholds.  Trees are what the documents that are   *)
(* loaded parse to (DecisionTree); rules are the module Rules.             *)
(* Bounds: MaxFrames frames, MaxSamples samples added to the bank.         *)
(***************************************************************************)
EXTENDS Integers, Sequences, FiniteSets, SequencesExt, FiniteSetsExt, Functions

CONSTANTS Frames, Batched, Graph, Trees, Epsilon, BufferSize, MaxFrames, MaxSamples

VARIABLES
  tree,      \* what tree_ points to
  evaluated, \* the frames RuleEval has seen, in order
  facts,     \* its output for the last one, not yet taken, or NoFacts
  walk,      \* the Reason worker: its node, the branches in its trace, the facts, and
             \* whether the tree is gone
  result,    \* the last verdict, the tree of it and the branches in its trace
  bank,      \* the number of samples the search sees
  cache,     \* the last query searched and when, or NoCache
  found,     \* the neighbours given to the last frame: of which query
  write, flush, recorded  \* frames in the two buffers, and in the graph

reasonVars == <<tree, evaluated, facts, walk, result, bank, cache, found, write, flush, recorded>>
NoFacts == [k \in {<<"none">>} |-> 0]  \* a key is the sequence of its parts
NoCache == [query |-> -100]
Nothing == [query |-> -100]
NoWalk == [node |-> [kind |-> "none"]]
NoResult == [label |-> "none"]
Lowest == -1000  \* before the sigmoid, what a score of 0.0 is

(* FactBuilder.  A path is the segments between its arrows: a node type,   *)
(* relationships, and the property; the one the stage makes of a batch has *)
(* no arrow, hence one segment, which is an error.  frame.paths are those  *)
(* of another caller of Build.                                             *)
GraphPaths(frame) ==
  IF frame.surface \in Batched THEN << <<"batch.id.material.supplier">> >> ELSE frame.paths
ResolveFails(paths) == \E i \in DOMAIN paths : Len(paths[i]) < 2
(* The nodes of the type, then the targets along each relationship; of     *)
(* several nodes with the property the last sets the fact.                 *)
Holders(path) ==
  LET Follow(ids, rel) == {e.to : e \in {x \in Graph.edges : x.from \in ids /\ x.rel = rel}}
      start == {n \in DOMAIN Graph.nodes : Graph.nodes[n].type = path[1]}
  IN  {n \in FoldLeft(Follow, start, SubSeq(path, 2, Len(path) - 1)) : Last(path) \in DOMAIN Graph.nodes[n]}
ResolvePath(path) == Graph.nodes[Max(Holders(path))][Last(path)]
Keys == {<<"surface">>, <<"max">>, <<"image">>, <<"regions">>}
\* Variant of MapDetection: the image's score for the map's.
MapDetectionOfImage(frame) == [k \in Keys |-> IF k = <<"max">> THEN frame.image ELSE frame[k[1]]]
MapDetection(frame) == [k \in Keys |-> frame[k[1]]]
(* A path sets the fact of its own name.  When the build fails the facts   *)
(* stay empty.                                                             *)
BuildFacts(frame) ==
  LET own == MapDetection(frame)
      resolved == {path \in ToSet(GraphPaths(frame)) : Holders(path) # {}}
  IN  IF ResolveFails(GraphPaths(frame)) THEN [k \in {} |-> 0]
      ELSE [k \in DOMAIN own \cup resolved |-> IF k \in DOMAIN own THEN own[k] ELSE ResolvePath(k)]

(* RunVectorRetrieval: a query nearer than epsilon to the one searched last*)
(* gets its neighbours.  An empty bank is an error, which is not fatal.    *)
Near(p, q) == (p - q) * (p - q) < Epsilon * Epsilon
\* Variant of Retrieve: a hit renews the query that is remembered.
RetrieveAndRenew(q) ==
  IF Near(cache.query, q) THEN /\ cache' = [cache EXCEPT !.query = q] /\ found' = found
  ELSE IF bank = 0 THEN found' = Nothing /\ UNCHANGED cache
  ELSE cache' = [query |-> q] /\ found' = [query |-> q]
Retrieve(q) ==
  IF Near(cache.query, q) THEN found' = [query |-> cache.query] /\ UNCHANGED cache
  ELSE IF bank = 0 THEN found' = Nothing /\ UNCHANGED cache
  ELSE cache' = [query |-> q] /\ found' = [query |-> q]

(* WriteRecord drops the new record when the buffer is full.               *)
WriteRecord(i) == write' = IF Len(write) >= BufferSize THEN write ELSE Append(write, i)

RuleEval(frame) ==
  /\ Len(evaluated) < MaxFrames /\ facts = NoFacts
  /\ evaluated' = Append(evaluated, frame) /\ facts' = BuildFacts(frame)
  /\ Retrieve(frame.query) /\ WriteRecord(Len(evaluated) + 1)
  /\ UNCHANGED <<tree, walk, result, bank, flush, recorded>>

(* Flush swaps the buffers under the lock, writes one batch, whose failure *)
(* is ignored, and clears.  The destructor flushes once more.              *)
FlushSwap ==
  /\ flush = <<>> /\ write # <<>> /\ flush' = write /\ write' = flush
  /\ UNCHANGED <<tree, evaluated, facts, walk, result, bank, cache, found, recorded>>
\* Variant of FlushWrite: the buffer is not cleared, and comes back with the swap.
FlushWriteKeeps ==
  /\ flush # <<>> /\ write # <<>> /\ flush' = write /\ write' = flush
  /\ recorded' = recorded \o flush
  /\ UNCHANGED <<tree, evaluated, facts, walk, result, bank, cache, found>>
FlushWrite ==
  /\ flush # <<>> /\ flush' = <<>> /\ recorded' \in {recorded, recorded \o flush}
  /\ UNCHANGED <<tree, evaluated, facts, walk, result, bank, cache, found, write>>

AddSample == /\ bank < MaxSamples /\ bank' = bank + 1
             /\ UNCHANGED <<tree, evaluated, facts, walk, result, cache, found, write, flush, recorded>>

(* Reason: the rules' part of the trace, then the walk.                    *)
Reason ==
  /\ walk = NoWalk /\ facts # NoFacts
  /\ walk' = [node |-> tree.root, steps |-> 0, tree |-> tree, facts |-> facts, frame |-> Len(evaluated), gone |-> FALSE]
  /\ facts' = NoFacts
  /\ UNCHANGED <<tree, evaluated, result, bank, cache, found, write, flush, recorded>>

(* MatchNumeric, for a field that has a value.                             *)
Matches(test, v) ==
  CASE test.op = ">" -> v > test.n [] test.op = ">=" -> v >= test.n
    [] test.op = "<" -> v < test.n [] test.op = "<=" -> v <= test.n [] OTHER -> v = test.n
Hits(node, fb) ==
  {i \in DOMAIN node.branches : node.field \in DOMAIN fb /\ Matches(node.branches[i].test, fb[node.field])}
(* The first branch that matches, in the order of the map, or the default. *)
Child(node, fb) ==
  IF Hits(node, fb) = {} THEN node.default ELSE node.branches[Min(Hits(node, fb))].node
Descend ==
  /\ walk # NoWalk /\ ~walk.gone /\ walk.node.kind = "branch"
  /\ walk' = [walk EXCEPT !.node = Child(walk.node, walk.facts), !.steps = @ + 1]
  /\ UNCHANGED <<tree, evaluated, facts, result, bank, cache, found, write, flush, recorded>>

(* ScoreCalculator: a missing feature counts 0; the best formula counts.   *)
Compute(f, fb) ==
  FoldFunctionOnSet(+, -f.threshold,
    [i \in DOMAIN f.features |-> IF f.features[i] \in DOMAIN fb THEN f.weights[i] * fb[f.features[i]] ELSE 0],
    DOMAIN f.features)
ComputeMax(formulas, fb) == Max({Lowest} \cup {Compute(formulas[i], fb) : i \in DOMAIN formulas})
Verdict(label, score, mapping) ==
  IF label \in {"NG", "WARN", "OK", "UNCERTAIN"} THEN label
  ELSE IF score > mapping.ng THEN "NG" ELSE IF score > mapping.warn THEN "WARN" ELSE "OK"
Settle(v) ==
  /\ result' = [label |-> v, frame |-> walk.frame, tree |-> walk.tree, steps |-> walk.steps, gone |-> walk.gone]
  /\ walk' = NoWalk
  /\ UNCHANGED <<tree, evaluated, facts, bank, cache, found, write, flush, recorded>>
ReachLeaf ==
  /\ walk # NoWalk /\ ~walk.gone /\ walk.node.kind = "leaf"
  /\ Settle(Verdict(walk.node.label, ComputeMax(walk.node.formulas, walk.facts), tree.mapping))
(* A walk in a tree that has been freed may end anywhere: "any" stands for *)
(* every verdict.                                                          *)
EndAnywhere == walk # NoWalk /\ walk.gone /\ Settle("any")

(* ReloadTree keeps the old tree when the new one does not load.           *)
ReloadTree(new) ==
  /\ IF new.root.kind = "error" THEN UNCHANGED <<tree, walk>>
     ELSE /\ tree' = new
          /\ walk' = IF walk = NoWalk THEN walk ELSE [walk EXCEPT !.gone = TRUE, !.node = tree.root, !.steps = 0]
  /\ UNCHANGED <<evaluated, facts, result, bank, cache, found, write, flush, recorded>>

ReasonInit ==
  /\ tree = Trees[1] /\ evaluated = <<>> /\ facts = NoFacts /\ walk = NoWalk
  /\ result = NoResult /\ bank = 0 /\ cache = NoCache /\ found = Nothing
  /\ write = <<>> /\ flush = <<>> /\ recorded = <<>>
ReasonNext ==
  \/ \E f \in Frames : RuleEval(f)
  \/ FlushSwap \/ FlushWrite \/ AddSample
  \/ Reason \/ Descend \/ ReachLeaf \/ EndAnywhere
  \/ \E i \in DOMAIN Trees : ReloadTree(Trees[i])
ReasonSpec == ReasonInit /\ [][ReasonNext]_reasonVars

(***************************************************************************)
(* Properties                                                              *)
(***************************************************************************)
(* A verdict (reasoner.cpp:25-75) is one that its own frame's detection    *)
(* supports in one tree: the walk's, unless it was replaced during the     *)
(* walk; whatever was evaluated, flushed or reloaded meanwhile.  Each      *)
(* branch of the trace is one that matches, or the default of none.        *)
Followed(node, fb) ==
  IF Hits(node, fb) = {} THEN {node.default} ELSE {node.branches[i].node : i \in Hits(node, fb)}
Supported(root, fb, n) ==
  LET reach[k \in 0..n] ==
        IF k = 0 THEN {root}
        ELSE UNION {Followed(node, fb) : node \in {m \in reach[k - 1] : m.kind = "branch"}}
  IN  reach[n]
VerdictOfFrame ==
  result # NoResult /\ ~result.gone /\ evaluated[result.frame].surface \notin Batched =>
    LET f == evaluated[result.frame]
        own == [k \in Keys |-> f[k[1]]]
    IN  \E leaf \in Supported(result.tree.root, own, result.steps) :
          leaf.kind = "leaf" /\ result.label = Verdict(leaf.label, ComputeMax(leaf.formulas, own), result.tree.mapping)

(* The neighbours a frame is given (fact_builder.cpp:386-410) were searched*)
(* for a query within epsilon of its own: hits do not drift.               *)
NeighboursNear == found # Nothing => Near(found.query, Last(evaluated).query)

(* A frame is recorded (inspection_recorder.cpp:35-90) once at most, and in*)
(* the order of evaluation, whichever buffer it is in.                     *)
RecordedOnce ==
  LET all == recorded \o flush \o write IN \A i, j \in DOMAIN all : i < j => all[i] < all[j]

\* Documented (seat_leather_inspection.yaml:28, "Critical anomaly - reject immediately"):
\* a frame of score over 0.8 is rejected.  That of a surface with a batch has no facts.
CriticalRejected ==
  result # NoResult /\ ~result.gone /\ result.tree = Trees[1] =>
    (evaluated[result.frame].max > 8 => result.label = "NG")
\* Documented (seat_leather_inspection.yaml:42, "Multiple anomalous regions (>3)"):
\* the key ">0" comes before ">3" in the map, and matches first.
RegionsRejected ==
  result # NoResult /\ ~result.gone /\ result.tree = Trees[1] =>
    LET f == evaluated[result.frame]
    IN  f.surface \notin Batched /\ f.max > 6 /\ f.regions > 3 => result.label = "NG"
\* Documented (decision_tree.h:28, "hot-reloadable"): no walk is left in a freed tree.
ReloadSafe == walk # NoWalk => ~walk.gone
=============================================================================
