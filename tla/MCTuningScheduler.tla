------------------------- MODULE MCTuningScheduler --------------------------
(* Instances of TuningScheduler for TLC: two parameter vectors and costs.   *)
EXTENDS TuningScheduler

CONSTANTS p1, p2

TwoParams == {p1, p2}
\* Both vectors improve on the unset one; a current cost of 0 is always replaced.
Costs == [p \in Params \cup {Unset} |-> IF p = Unset THEN 1 ELSE 0]
=============================================================================
