---------------------------- MODULE TaskRuntime -----------------------------
(***************************************************************************)
(* TaskGraph::RunToCompletion, driven by several threads, over the worker  *)
(* pools that Scheduler::Allocate registers: depth-first resolution of the *)
(* dependencies, PipelineExecutor::Dispatch, TaskScheduler::Submit and     *)
(* WorkerPool.  Every pool has the threads of its key in Threads.          *)
(***************************************************************************)
EXTENDS Integers, Sequences, FiniteSets, SequencesExt

CONSTANTS Drivers,  \* threads that run a task graph to completion
          Jobs,     \* <<graph, order>>: a graph [deps: node -> sequence of nodes,
                    \* key: node -> pool key] and an iteration order of its map
          Keys, KeyOrder, \* pool keys, and the order of std::set over them
          Threads,  \* threads <<key, i>>
          Capacity  \* queue capacity of every pool

VARIABLES run,    \* driver -> its run of a graph
          queue,  \* key -> the drivers whose wrapper is queued
          worker, \* thread -> the driver whose work it runs, Idle or Gone
          pools,  \* keys registered in the registry
          mapped, \* keys that stage_pool_map_ leads to
          stop, closing

taskVars == <<run, queue, worker, pools, mapped, stop, closing>>
Idle == "idle"
Gone == "gone"
Root == "root"
NoRun == [pc |-> "idle", stack |-> <<>>, graph |-> <<>>, done |-> {}, ran |-> <<>>,
          frames |-> 0]

TaskInit ==
  /\ run = [d \in Drivers |-> NoRun] /\ queue = [k \in Keys |-> <<>>]
  /\ worker = [w \in Threads |-> Idle] /\ pools = {} /\ mapped = {}
  /\ stop = FALSE /\ closing = FALSE

(***************************************************************************)
(* Scheduler                                                               *)
(***************************************************************************)
(* Allocate registers the pools in key order up to the first that already  *)
(* is registered; only a full success fills the stage map again.           *)
Allocate(keys) ==
  /\ \A d \in Drivers : run[d].pc = "idle"  \* while the pipeline is built
  /\ LET wanted == SelectSeq(KeyOrder, LAMBDA k : k \in keys)
         known  == {i \in DOMAIN wanted : wanted[i] \in pools}
     IN  IF known = {}
           THEN pools' = pools \cup keys /\ mapped' = keys
           ELSE /\ pools' = pools \cup {wanted[i] : i \in 1..(Min(known) - 1)}
                /\ mapped' = {}
  /\ UNCHANGED <<run, queue, worker, stop, closing>>

Deallocate == /\ mapped # {} /\ mapped' = {} /\ \A d \in Drivers : run[d].pc = "idle"
              /\ UNCHANGED <<run, queue, worker, pools, stop, closing>>

(***************************************************************************)
(* TaskGraph: EnsureEach and EnsureCompleted, as an explicit stack         *)
(***************************************************************************)
Top(d) == Last(run[d].stack)
Nodes(d) == DOMAIN run[d].graph.deps
Frame(n, todo) == [node |-> n, todo |-> todo]
Rest(stack) == [stack EXCEPT ![Len(stack)].todo = Tail(@)]

(* RunToCompletion: every node id, in the order of the unordered map. *)
Start(d, g, order) ==
  /\ run[d].pc = "idle"
  /\ run' = [run EXCEPT ![d] = [NoRun EXCEPT !.pc = "walk", !.graph = g,
                                             !.stack = <<Frame(Root, order)>>]]
  /\ UNCHANGED <<queue, worker, pools, mapped, stop, closing>>

(* The first failure unwinds the whole walk. *)
Fail(d) == run' = [run EXCEPT ![d].pc = "failed", ![d].stack = <<>>]

\* Variant of Visit: a node that is being resolved counts as completed.
VisitWithoutDependencies(d) ==
  /\ run[d].pc = "walk" /\ Top(d).todo # <<>>
  /\ LET id == Head(Top(d).todo) IN
     CASE id \in run[d].done -> run' = [run EXCEPT ![d].stack = Rest(@)]
       [] id \notin run[d].done /\ (stop \/ id \notin Nodes(d)) -> Fail(d)
       [] OTHER -> run' = [run EXCEPT ![d].stack = Append(Rest(@), Frame(id, <<>>))]
  /\ UNCHANGED <<queue, worker, pools, mapped, stop, closing>>

(* EnsureCompleted of the next id: known, cancelled, missing, or entered. *)
Visit(d) ==
  /\ run[d].pc = "walk" /\ Top(d).todo # <<>>
  /\ LET id == Head(Top(d).todo) IN
     CASE id \in run[d].done -> run' = [run EXCEPT ![d].stack = Rest(@)]
       [] id \notin run[d].done /\ (stop \/ id \notin Nodes(d)) -> Fail(d)
       [] OTHER -> run' = [run EXCEPT ![d].stack = Append(Rest(@), Frame(id, run[d].graph.deps[id]))]
  /\ UNCHANGED <<queue, worker, pools, mapped, stop, closing>>

Finish(d) ==
  /\ run[d].pc = "walk" /\ Top(d).todo = <<>> /\ Top(d).node = Root
  /\ run' = [run EXCEPT ![d].pc = "ok", ![d].stack = <<>>]
  /\ UNCHANGED <<queue, worker, pools, mapped, stop, closing>>

(***************************************************************************)
(* PipelineExecutor::Dispatch over TaskScheduler::Submit and TryEnqueue    *)
(***************************************************************************)
(* node.work() makes a coroutine frame.  A requested stop, an unregistered *)
(* pool and a full queue destroy it and fail; otherwise it is queued and   *)
(* the driver waits for the completion state.                              *)
Dispatch(d) ==
  /\ run[d].pc = "walk" /\ Top(d).todo = <<>> /\ Top(d).node # Root
  /\ LET key == run[d].graph.key[Top(d).node] IN
     \/ /\ stop \/ key \notin pools \/ Len(queue[key]) >= Capacity
        /\ Fail(d) /\ UNCHANGED queue
     \/ /\ ~stop /\ key \in pools /\ Len(queue[key]) < Capacity
        /\ queue' = [queue EXCEPT ![key] = Append(@, d)]
        /\ run' = [run EXCEPT ![d].pc = "wait", ![d].frames = @ + 1]
  /\ UNCHANGED <<worker, pools, mapped, stop, closing>>

(* WorkerLoop: the oldest handle, also while the pool is being destroyed.  *)
Take(w) ==
  /\ worker[w] = Idle /\ w[1] \in pools /\ queue[w[1]] # <<>>
  /\ worker' = [worker EXCEPT ![w] = Head(queue[w[1]])]
  /\ queue' = [queue EXCEPT ![w[1]] = Tail(@)]
  /\ UNCHANGED <<run, pools, mapped, stop, closing>>

(* RunAndSignal: run the work, destroy its frame, signal its result.       *)
Signal(w) ==
  /\ worker[w] \in Drivers
  /\ LET d == worker[w]  node == Top(d).node IN
     \E pc \in {"returned", "failed"} :
       run' = [run EXCEPT ![d].pc = pc, ![d].frames = @ - 1, ![d].ran = Append(@, node),
                          ![d].done = IF pc = "returned" THEN @ \cup {node} ELSE @]
  /\ worker' = [worker EXCEPT ![w] = Idle]
  /\ UNCHANGED <<queue, pools, mapped, stop, closing>>

(* Dispatch returns to EnsureCompleted, which returns to its caller. *)
Return(d) ==
  /\ run[d].pc = "returned"
  /\ run' = [run EXCEPT ![d].pc = "walk", ![d].stack = Front(@)]
  /\ UNCHANGED <<queue, worker, pools, mapped, stop, closing>>

Cancel == ~stop /\ stop' = TRUE /\ UNCHANGED <<run, queue, worker, pools, mapped, closing>>

(* The pools are destroyed once the graphs are cancelled: threads leave    *)
(* when their queue is empty.                                              *)
Close == /\ stop /\ ~closing /\ closing' = TRUE
         /\ UNCHANGED <<run, queue, worker, pools, mapped, stop>>
\* Variant of Leave: a requested stop is enough.
LeaveAtOnce(w) == /\ closing /\ w[1] \in pools /\ worker[w] = Idle
                  /\ worker' = [worker EXCEPT ![w] = Gone]
                  /\ UNCHANGED <<run, queue, pools, mapped, stop, closing>>
Leave(w) == /\ closing /\ w[1] \in pools /\ worker[w] = Idle /\ queue[w[1]] = <<>>
            /\ worker' = [worker EXCEPT ![w] = Gone]
            /\ UNCHANGED <<run, queue, pools, mapped, stop, closing>>

Drive(d) == Visit(d) \/ Finish(d) \/ Dispatch(d) \/ Return(d)
Work(w) == Take(w) \/ Signal(w)
TaskNext ==
  \/ \E keys \in SUBSET Keys \ {{}} : Allocate(keys)
  \/ Deallocate \/ Cancel \/ Close
  \/ \E d \in Drivers : \/ Drive(d)
                        \/ \E job \in Jobs : Start(d, job[1], job[2])
  \/ \E w \in Threads : Work(w) \/ Leave(w)

(***************************************************************************)
(* Properties                                                              *)
(***************************************************************************)
Places(d) == Cardinality({w \in Threads : worker[w] = d})
             + Cardinality({p \in Keys \X (1..Capacity) : p[2] \in DOMAIN queue[p[1]] /\ queue[p[1]][p[2]] = d})

(* TaskGraph and Dispatch (task_graph.h:181, task.h:11-13): a node's work  *)
(* runs once, after all it depends on has succeeded; a graph that succeeds *)
(* has run every node; a frame that was made is held by exactly one place  *)
(* while it waits and is destroyed once; no queue exceeds its capacity.    *)
TaskInv ==
  /\ \A k \in Keys : Len(queue[k]) <= Capacity
  /\ mapped \subseteq pools
  /\ \A d \in Drivers :
       /\ run[d].pc \in {"idle", "walk", "wait", "returned", "failed", "ok"}
       /\ run[d].frames = Places(d) /\ run[d].frames = (IF run[d].pc = "wait" THEN 1 ELSE 0)
       /\ IsInjective(run[d].ran)
       /\ \A i \in DOMAIN run[d].ran :
            ToSet(run[d].graph.deps[run[d].ran[i]]) \subseteq {run[d].ran[j] : j \in 1..(i - 1)}
       /\ run[d].pc = "ok" => run[d].done = Nodes(d)

(* A run of a graph ends, cancelled, failed or complete: what was queued   *)
(* is run even while the pools are being destroyed (worker_pool.cpp:52).   *)
RunEnds == \A d \in Drivers : run[d].pc # "idle" ~> run[d].pc \in {"ok", "failed"}
=============================================================================
