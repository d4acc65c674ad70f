----------------------------- MODULE MCPipeline -----------------------------
(* Instances of Pipeline for TLC: chains of stages and their thread pools.  *)
EXTENDS Pipeline

CONSTANTS w1, w2, w3, w4

\* One thread per stage: preprocess, detect, export.
ThreeStages == <<"Preprocess", "Detect", "Export">>
ThreeWorkers == {w1, w2, w3}
ThreeStageOf == [w \in ThreeWorkers |-> CASE w = w1 -> 1 [] w = w2 -> 2 [] w = w3 -> 3]

\* The default pools: the "Capture" pool gives Preprocess two threads
\* (with them ExportInOrder and ImageNotOlder do not hold).
PoolWorkers == {w1, w2, w3, w4}
PoolStageOf == [w \in PoolWorkers |-> CASE w \in {w1, w4} -> 1 [] w = w2 -> 2 [] w = w3 -> 3]

CapacityOne == [s \in Stages |-> 1]
=============================================================================
