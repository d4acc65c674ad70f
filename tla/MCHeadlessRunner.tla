-------------------------- MODULE MCHeadlessRunner --------------------------
(* HeadlessRunner over a chain of three stages with one thread each.        *)
EXTENDS HeadlessRunner

CONSTANTS w1, w2, w3

ThreeStages == <<"Preprocess", "Detect", "Export">>
ThreeWorkers == {w1, w2, w3}
ThreeStageOf == [w \in ThreeWorkers |-> CASE w = w1 -> 1 [] w = w2 -> 2 [] w = w3 -> 3]
CapacityTwo == [s \in Stages |-> 2]
=============================================================================
