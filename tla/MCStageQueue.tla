---------------------------- MODULE MCStageQueue ----------------------------
(* StageQueue with every kind of caller the pipeline has: an upstream worker *)
(* and Submit push, two threads pop with and without a stop token, and Drain *)
(* pops beside them without the mutex.                                       *)
EXTENDS StageQueue

CONSTANTS worker, submit, stage, popper, drainer

Callers == {worker, submit, stage, popper, drainer}
CallerOp == [t \in Callers |-> CASE t = worker -> "PushBlockingWithStop"
                                 [] t = submit -> "PushBlocking"
                                 [] t = stage -> "PopBlockingWithStop"
                                 [] t = popper -> "PopBlocking"
                                 [] t = drainer -> "TryPop"]
=============================================================================
