-------------------------- MODULE Platform_proofs ---------------------------
(***************************************************************************)
(* Proofs about the platform that the stages run on.                       *)
(*                                                                         *)
(*   TaskRuntime   every graph without assumptions on its shape, every     *)
(*                 number of drivers, worker threads and pools, every queue*)
(*                 capacity (TaskGraphsRun)                                *)
(*   ConfigStore   the tree in use (TreeInUseIsGood)                       *)
(*   Lifecycle     plugins before what needs them (PluginsInOrder)         *)
(*   LogSink       what the rotated files hold (LogComplete)               *)
(*                                                                         *)
(* Each section but the first declares the parameters of its component and *)
(* takes the component's module as an instance.                            *)
(***************************************************************************)
EXTENDS TaskRuntime, Numbers, FiniteSetTheorems, FunctionTheorems

CONSTANT Ids  \* the names of nodes

-----------------------------------------------------------------------------
(* What the runs of task graphs start from: node names are not the root's, *)
(* a graph gives each node a sequence of names and a pool key, and its     *)
(* iteration order meets every node.  Neither that a name belongs to a     *)
(* node nor that there is no cycle is assumed.                             *)
GraphOK(g) == /\ DOMAIN g.deps \subseteq Ids
              /\ \A n \in DOMAIN g.deps : g.deps[n] \in Seq(Ids) /\ g.key[n] \in Keys
JobsOK == \A job \in Jobs : /\ GraphOK(job[1])
                            /\ job[2] \in Seq(Ids) /\ ToSet(job[2]) = DOMAIN job[1].deps

TaskAssumption == /\ Root \notin Ids
                  /\ Drivers \cap {Idle, Gone} = {}
                  /\ \A w \in Threads : w[1] \in Keys
                  /\ Capacity \in Nat
                  /\ JobsOK

-----------------------------------------------------------------------------
(* The inductive invariant of a run, on its record                          *)

Frames == [node : Ids \cup {Root}, todo : Seq(Ids)]
Runs == [pc : {"idle", "walk", "wait", "returned", "failed", "ok"}, stack : Seq(Frames),
         graph : {job[1] : job \in Jobs} \cup {<<>>}, done : SUBSET Ids, ran : Seq(Ids), frames : {0, 1}]

\* What the frame at i must see completed.
Wanted(r, i) == IF i = 1 THEN DOMAIN r.graph.deps ELSE ToSet(r.graph.deps[r.stack[i].node])

\* The nodes being resolved: each was asked for by the one below it, and of what
\* it asks for everything is done, still to be visited, or the next one up.
Chained(r) ==
  /\ \A i \in 2 .. Len(r.stack) : /\ r.stack[i].node \in DOMAIN r.graph.deps
                                  /\ r.stack[i].node \in Wanted(r, i - 1)
  /\ \A i \in 1 .. Len(r.stack) : ToSet(r.stack[i].todo) \subseteq Wanted(r, i)
  /\ \A i \in 1 .. Len(r.stack) : \A n \in Wanted(r, i) :
       \/ n \in r.done
       \/ n \in ToSet(r.stack[i].todo)
       \/ i < Len(r.stack) /\ n = r.stack[i + 1].node

\* None of them is done but the one whose work has just returned.
Open(r) == \A i \in 2 .. Len(r.stack) :
             r.stack[i].node \in r.done <=> i = Len(r.stack) /\ r.pc = "returned"

Walking(r) ==
  /\ r.graph \in {job[1] : job \in Jobs}
  /\ Len(r.stack) > 0 /\ r.stack[1].node = Root
  /\ r.pc \in {"wait", "returned"} => Len(r.stack) > 1 /\ Last(r.stack).todo = <<>>
  /\ Chained(r) /\ Open(r)
  /\ ToSet(r.ran) = r.done /\ r.done \subseteq DOMAIN r.graph.deps

\* What TaskInv says of a run.
DepsFirst(ran, deps) ==
  \A i \in DOMAIN ran : ToSet(deps[ran[i]]) \subseteq {ran[j] : j \in 1 .. (i - 1)}
InOrder(r) == /\ IsInjective(r.ran) /\ DepsFirst(r.ran, r.graph.deps)
              /\ r.pc = "ok" => r.done = DOMAIN r.graph.deps

RunInv(r) == /\ r \in Runs /\ InOrder(r)
             /\ r.pc \in {"walk", "wait", "returned"} => Walking(r)
             /\ r.frames = (IF r.pc = "wait" THEN 1 ELSE 0)

-----------------------------------------------------------------------------
(* Where the coroutine frame of a waiting run is                            *)
QueueOK == /\ queue \in [Keys -> Seq(Drivers)]
           /\ \A k \in Keys : Len(queue[k]) <= Capacity
           /\ worker \in [Threads -> Drivers \cup {Idle, Gone}]
           /\ mapped \subseteq pools

Held(d) == \/ \E w \in Threads : worker[w] = d
           \/ \E k \in Keys : \E i \in DOMAIN queue[k] : queue[k][i] = d

OneHolder == /\ \A v, w \in Threads : worker[v] = worker[w] /\ worker[v] \in Drivers => v = w
             /\ \A k, l \in Keys : \A i \in DOMAIN queue[k], j \in DOMAIN queue[l] :
                  queue[k][i] = queue[l][j] => k = l /\ i = j
             /\ \A w \in Threads, k \in Keys : \A i \in DOMAIN queue[k] : worker[w] # queue[k][i]

WaitHeld == \A d \in Drivers : Held(d) <=> run[d].pc = "wait"

TaskIInv == /\ run \in [Drivers -> Runs] /\ \A d \in Drivers : RunInv(run[d])
            /\ QueueOK /\ OneHolder /\ WaitHeld

-----------------------------------------------------------------------------
(* The stack of a run                                                       *)

\* The top of the stack has visited one more name.
LEMMA RestOfStack ==
    ASSUME NEW st \in Seq(Frames), Len(st) > 0, Last(st).todo # <<>>
    PROVE  /\ Rest(st) \in Seq(Frames) /\ Len(Rest(st)) = Len(st)
           /\ \A i \in 1 .. Len(st) : Rest(st)[i].node = st[i].node
           /\ \A i \in 1 .. Len(st) - 1 : Rest(st)[i].todo = st[i].todo
           /\ Rest(st)[Len(st)].todo = Tail(st[Len(st)].todo)
<1> DEFINE n == Len(st)
<1>0. n \in Nat /\ n \in 1 .. n /\ DOMAIN st = 1 .. n
  OBVIOUS
<1>1. st[n] \in Frames /\ st[n].todo \in Seq(Ids) /\ st[n].todo # <<>>
  <2>1. st[n] \in Frames
    BY <1>0
  <2>2. st[n].todo # <<>>
    BY DEF Last
  <2> QED BY <2>1, <2>2 DEF Frames
<1>2. Tail(st[n].todo) \in Seq(Ids)
  BY <1>1
<1>3. Rest(st) = [st EXCEPT ![n] = [st[n] EXCEPT !.todo = Tail(st[n].todo)]]
  BY <1>1 DEF Rest
<1>4. [st[n] EXCEPT !.todo = Tail(st[n].todo)] \in Frames
  BY <1>1, <1>2 DEF Frames
<1>5. Rest(st) \in Seq(Frames) /\ Len(Rest(st)) = n
  BY <1>0, <1>3, <1>4
<1>6. \A i \in 1 .. n - 1 : Rest(st)[i] = st[i]
  BY <1>0, <1>3
<1>7. Rest(st)[n] = [st[n] EXCEPT !.todo = Tail(st[n].todo)]
  BY <1>0, <1>3
<1>8. Rest(st)[n].node = st[n].node /\ Rest(st)[n].todo = Tail(st[n].todo)
  BY <1>1, <1>7 DEF Frames
<1> QED BY <1>5, <1>6, <1>8

-----------------------------------------------------------------------------
(* Steps of a run                                                           *)

\* What a walking run knows of its stack, field by field.
LEMMA WalkFacts ==
    ASSUME TaskAssumption, NEW r, RunInv(r), Walking(r)
    PROVE  /\ r.stack \in Seq(Frames) /\ Len(r.stack) \in Nat \ {0}
           /\ \A i \in 1 .. Len(r.stack) : r.stack[i] \in Frames
           /\ Last(r.stack) = r.stack[Len(r.stack)]
           /\ r.stack[Len(r.stack)].todo \in Seq(Ids)
           /\ GraphOK(r.graph)
           /\ r.done \subseteq Ids /\ r.ran \in Seq(Ids)
<1>1. r \in Runs
  BY DEF RunInv
<1>2. r.stack \in Seq(Frames) /\ Len(r.stack) > 0 /\ r.done \subseteq Ids /\ r.ran \in Seq(Ids)
  BY <1>1 DEF Runs, Walking
<1>3. GraphOK(r.graph)
  BY DEF Walking, TaskAssumption, JobsOK
<1>4. Last(r.stack) = r.stack[Len(r.stack)]
  BY DEF Last
<1>5. \A i \in 1 .. Len(r.stack) : r.stack[i] \in Frames
  BY <1>2
<1>6. r.stack[Len(r.stack)].todo \in Seq(Ids)
  BY <1>2, <1>5, SMTT(60) DEF Frames
<1> QED BY <1>2, <1>3, <1>4, <1>5, <1>6

\* The next name is done already: it is passed over.
LEMMA SeenRun ==
    ASSUME TaskAssumption, NEW r, RunInv(r), r.pc = "walk",
           Last(r.stack).todo # <<>>, Head(Last(r.stack).todo) \in r.done
    PROVE  RunInv([r EXCEPT !.stack = Rest(@)])
<1> DEFINE q == [r EXCEPT !.stack = Rest(@)]
           n == Len(r.stack)
           st == Rest(r.stack)
<1>0. r \in Runs /\ Walking(r) /\ InOrder(r)
  BY DEF RunInv
<1>1. /\ n \in Nat \ {0} /\ r.stack \in Seq(Frames) /\ GraphOK(r.graph)
      /\ r.stack[n].todo \in Seq(Ids) /\ r.stack[n].todo # <<>>
      /\ Head(r.stack[n].todo) \in r.done
  BY <1>0, WalkFacts
<1>2. /\ st \in Seq(Frames) /\ Len(st) = n
      /\ \A i \in 1 .. n : st[i].node = r.stack[i].node
      /\ \A i \in 1 .. n - 1 : st[i].todo = r.stack[i].todo
      /\ st[n].todo = Tail(r.stack[n].todo)
  BY <1>1, RestOfStack
<1>3. /\ q \in Runs /\ q.stack = st
      /\ q.pc = r.pc /\ q.graph = r.graph /\ q.done = r.done /\ q.ran = r.ran /\ q.frames = r.frames
  BY <1>0, <1>2 DEF Runs
<1> HIDE DEF q, st, n
<1>4. \A i \in 1 .. n : Wanted(q, i) = Wanted(r, i)
  BY <1>2, <1>3 DEF Wanted
<1>5. \A x \in ToSet(r.stack[n].todo) : x \in r.done \/ x \in ToSet(st[n].todo)
  BY <1>1, <1>2, HeadAndTail
<1>6. Chained(q)
  <2>0. \A i \in 1 .. n : ToSet(st[i].todo) \subseteq Wanted(q, i)
    <3>1. ToSet(st[n].todo) \subseteq ToSet(r.stack[n].todo)
      BY <1>1, <1>2, HeadAndTail
    <3>2. \A i \in 1 .. n : ToSet(r.stack[i].todo) \subseteq Wanted(r, i)
      BY <1>0 DEF Walking, Chained, n
    <3> QED BY <1>1, <1>2, <1>4, <3>1, <3>2
  <2>1. \A i \in 2 .. n : /\ st[i].node \in DOMAIN q.graph.deps
                          /\ st[i].node \in Wanted(q, i - 1)
    BY <1>0, <1>1, <1>2, <1>3, <1>4, SMTT(60) DEF Walking, Chained, n
  <2>2. ASSUME NEW i \in 1 .. n, NEW x \in Wanted(q, i)
        PROVE  \/ x \in q.done
               \/ x \in ToSet(st[i].todo)
               \/ i < n /\ x = st[i + 1].node
    <3>1. \/ x \in r.done
          \/ x \in ToSet(r.stack[i].todo)
          \/ i < n /\ x = r.stack[i + 1].node
      BY <1>0, <1>4, <2>2 DEF Walking, Chained, n
    <3>2. CASE i = n
      BY <1>1, <1>3, <1>5, <3>1, <3>2
    <3>3. CASE i # n
      <4>1. i \in 1 .. n - 1 /\ i + 1 \in 1 .. n
        BY <1>1, <3>3
      <4> QED BY <1>2, <1>3, <3>1, <4>1
    <3> QED BY <3>2, <3>3
  <2> QED BY <1>2, <1>3, <2>0, <2>1, <2>2 DEF Chained
<1>7. Open(q)
  BY <1>0, <1>1, <1>2, <1>3 DEF Walking, Open, n
<1>8. Walking(q)
  BY <1>0, <1>1, <1>2, <1>3, <1>6, <1>7 DEF Walking, n
<1>9. InOrder(q)
  BY <1>0, <1>3 DEF InOrder
<1> QED BY <1>3, <1>8, <1>9 DEF RunInv, q

\* The next name is a node that is not done: it is entered, all it depends on to
\* be visited first.
LEMMA EnteredRun ==
    ASSUME TaskAssumption, NEW r, RunInv(r), r.pc = "walk",
           Last(r.stack).todo # <<>>, NEW id, id = Head(Last(r.stack).todo),
           id \notin r.done, id \in DOMAIN r.graph.deps
    PROVE  RunInv([r EXCEPT !.stack = Append(Rest(@), Frame(id, r.graph.deps[id]))])
<1> DEFINE st == Append(Rest(r.stack), Frame(id, r.graph.deps[id]))
           q == [r EXCEPT !.stack = st]
           n == Len(r.stack)
<1>0. r \in Runs /\ Walking(r) /\ InOrder(r) /\ RunInv(r)
  BY DEF RunInv
<1>1. /\ n \in Nat \ {0} /\ r.stack \in Seq(Frames) /\ GraphOK(r.graph)
      /\ r.stack[n].todo \in Seq(Ids) /\ r.stack[n].todo # <<>>
      /\ id = Head(r.stack[n].todo)
  BY <1>0, WalkFacts
<1>a. Frame(id, r.graph.deps[id]) \in Frames
  BY <1>1, SMTT(60) DEF GraphOK, Frame, Frames
<1>2. /\ st \in Seq(Frames) /\ Len(st) = n + 1
      /\ \A i \in 1 .. n : st[i].node = r.stack[i].node
      /\ \A i \in 1 .. n - 1 : st[i].todo = r.stack[i].todo
      /\ st[n].todo = Tail(r.stack[n].todo)
      /\ st[n + 1].node = id /\ st[n + 1].todo = r.graph.deps[id]
  <2> DEFINE rest == Rest(r.stack)
  <2>1. /\ rest \in Seq(Frames) /\ Len(rest) = n
        /\ \A i \in 1 .. n : rest[i].node = r.stack[i].node
        /\ \A i \in 1 .. n - 1 : rest[i].todo = r.stack[i].todo
        /\ rest[n].todo = Tail(r.stack[n].todo)
    BY <1>1, RestOfStack, SMTT(60)
  <2>2. /\ st \in Seq(Frames) /\ Len(st) = n + 1
        /\ \A i \in 1 .. n : st[i] = rest[i]
        /\ st[n + 1] = Frame(id, r.graph.deps[id])
    <3> DEFINE f == Frame(id, r.graph.deps[id])
    <3>1. st = Append(rest, f) /\ f \in Frames
      BY <1>a
    <3> HIDE DEF rest, st, f
    <3>2. /\ st \in Seq(Frames) /\ Len(st) = n + 1 /\ \A i \in 1 .. n : st[i] = rest[i]
          /\ st[n + 1] = f
      BY <1>1, <2>1, <3>1, SMTT(60)
    <3> QED BY <3>2 DEF f
  <2>3. st[n + 1].node = id /\ st[n + 1].todo = r.graph.deps[id]
    BY <2>2, SMTT(60) DEF Frame
  <2> HIDE DEF st, rest, n
  <2>4. ASSUME NEW i \in 1 .. n
        PROVE  st[i].node = r.stack[i].node
    BY <2>1, <2>2, SMTT(60)
  <2>5. ASSUME NEW i \in 1 .. n - 1
        PROVE  st[i].todo = r.stack[i].todo
    <3>1. i \in 1 .. n
      BY <1>1, SMTT(60)
    <3> QED BY <2>1, <2>2, <3>1, SMTT(60)
  <2>6. st[n].todo = Tail(r.stack[n].todo)
    <3>1. n \in 1 .. n
      BY <1>1, SMTT(60)
    <3> QED BY <2>1, <2>2, <3>1, SMTT(60)
  <2> QED BY <2>2, <2>3, <2>4, <2>5, <2>6
<1>3. /\ q \in Runs /\ q.stack = st
      /\ q.pc = r.pc /\ q.graph = r.graph /\ q.done = r.done /\ q.ran = r.ran /\ q.frames = r.frames
  BY <1>0, <1>2 DEF Runs
<1> HIDE DEF q, st, n
<1>4. /\ \A i \in 1 .. n : Wanted(q, i) = Wanted(r, i)
      /\ Wanted(q, n + 1) = ToSet(r.graph.deps[id])
  BY <1>1, <1>2, <1>3, SMTT(60) DEF Wanted
<1>5. id \in ToSet(r.stack[n].todo)
      /\ \A x \in ToSet(r.stack[n].todo) : x = id \/ x \in ToSet(st[n].todo)
  BY <1>1, <1>2, HeadAndTail, SMTT(60)
<1>6. Chained(q)
  <2>0. ASSUME NEW i \in 1 .. n + 1
        PROVE  ToSet(st[i].todo) \subseteq Wanted(q, i)
    <3>1. ToSet(st[n].todo) \subseteq ToSet(r.stack[n].todo)
      BY <1>1, <1>2, HeadAndTail
    <3>2. \A j \in 1 .. n : ToSet(r.stack[j].todo) \subseteq Wanted(r, j)
      BY <1>0 DEF Walking, Chained, n
    <3>3. CASE i = n + 1
      BY <1>2, <1>4, <3>3
    <3>4. CASE i # n + 1
      BY <1>1, <1>2, <1>4, <3>1, <3>2, <3>4
    <3> QED BY <3>3, <3>4
  <2>1. ASSUME NEW i \in 2 .. n + 1
        PROVE  /\ st[i].node \in DOMAIN q.graph.deps
               /\ st[i].node \in Wanted(q, i - 1)
    <3>1. CASE i = n + 1
      <4>1. id \in Wanted(r, n)
        BY <1>0, <1>1, <1>5, SMTT(60) DEF Walking, Chained, n
      <4> QED BY <1>1, <1>2, <1>3, <1>4, <3>1, <4>1
    <3>2. CASE i # n + 1
      <4>1. i \in 2 .. n /\ i - 1 \in 1 .. n
        BY <1>1, <2>1, <3>2
      <4> QED BY <1>0, <1>2, <1>3, <1>4, <4>1 DEF Walking, Chained, n
    <3> QED BY <3>1, <3>2
  <2>2. ASSUME NEW i \in 1 .. n + 1, NEW x \in Wanted(q, i)
        PROVE  \/ x \in q.done
               \/ x \in ToSet(st[i].todo)
               \/ i < n + 1 /\ x = st[i + 1].node
    <3>1. CASE i = n + 1
      BY <1>2, <1>4, <2>2, <3>1
    <3>2. CASE i # n + 1
      <4>1. i \in 1 .. n
        BY <1>1, <3>2
      <4>2. \/ x \in r.done
            \/ x \in ToSet(r.stack[i].todo)
            \/ i < n /\ x = r.stack[i + 1].node
        BY <1>0, <1>4, <2>2, <4>1 DEF Walking, Chained, n
      <4>3. CASE i = n
        BY <1>1, <1>2, <1>3, <1>5, <4>2, <4>3
      <4>4. CASE i # n
        <5>1. i \in 1 .. n - 1 /\ i + 1 \in 1 .. n
          BY <1>1, <4>1, <4>4, SMTT(60)
        <5> QED BY <1>1, <1>2, <1>3, <4>2, <5>1, SMTT(60)
      <4> QED BY <4>3, <4>4
    <3> QED BY <3>1, <3>2
  <2> QED BY <1>2, <1>3, <2>0, <2>1, <2>2 DEF Chained
<1>7. Open(q)
  <2>1. ASSUME NEW i \in 2 .. n + 1 PROVE st[i].node \notin q.done
    <3>1. CASE i = n + 1
      BY <1>2, <1>3, <3>1
    <3>2. CASE i # n + 1
      <4>1. i \in 2 .. n /\ i \in 1 .. n
        BY <1>1, <2>1, <3>2
      <4> QED BY <1>0, <1>2, <1>3, <4>1 DEF Walking, Open, n
    <3> QED BY <3>1, <3>2
  <2> QED BY <1>2, <1>3, <2>1 DEF Open
<1>8. Walking(q)
  BY <1>0, <1>1, <1>2, <1>3, <1>6, <1>7 DEF Walking, n
<1>9. InOrder(q)
  BY <1>0, <1>3 DEF InOrder
<1>10. RunInv(q)
  BY <1>0, <1>3, <1>8, <1>9 DEF RunInv
<1> QED BY <1>10 DEF q, st

\* The first failure unwinds the walk.
LEMMA FailedRun ==
    ASSUME NEW r, RunInv(r), r.pc = "walk"
    PROVE  RunInv([r EXCEPT !.pc = "failed", !.stack = <<>>])
<1> DEFINE q == [r EXCEPT !.pc = "failed", !.stack = <<>>]
<1>1. r \in Runs /\ InOrder(r) /\ r.frames = 0
  BY DEF RunInv
<1>a. <<>> \in Seq(Frames)
  OBVIOUS
<1>2. /\ q \in Runs /\ q.pc = "failed"
      /\ q.graph = r.graph /\ q.done = r.done /\ q.ran = r.ran /\ q.frames = r.frames
  BY <1>1, <1>a DEF Runs
<1> HIDE DEF q
<1>3. InOrder(q)
  BY <1>1, <1>2 DEF InOrder
<1> QED BY <1>1, <1>2, <1>3 DEF RunInv, q

\* Back at the root with nothing left to visit, every node is done.
LEMMA FinishedRun ==
    ASSUME TaskAssumption, NEW r, RunInv(r), r.pc = "walk",
           Last(r.stack).todo = <<>>, Last(r.stack).node = Root
    PROVE  RunInv([r EXCEPT !.pc = "ok", !.stack = <<>>])
<1> DEFINE q == [r EXCEPT !.pc = "ok", !.stack = <<>>]
           n == Len(r.stack)
<1>0. r \in Runs /\ Walking(r) /\ InOrder(r) /\ r.frames = 0
  BY DEF RunInv
<1>1. n \in Nat \ {0} /\ GraphOK(r.graph) /\ r.stack[n].todo = <<>> /\ r.stack[n].node = Root
  BY <1>0, WalkFacts
<1>2. n = 1
  <2>1. SUFFICES ASSUME n # 1 PROVE FALSE
    OBVIOUS
  <2> HIDE DEF n
  <2>2. n \in 2 .. n
    BY <1>1, <2>1
  <2>3. Root \in DOMAIN r.graph.deps
    BY <1>0, <1>1, <2>2 DEF Walking, Chained, n
  <2> QED BY <1>1, <2>3 DEF GraphOK, TaskAssumption
<1>3. DOMAIN r.graph.deps \subseteq r.done
  <2>1. ToSet(r.stack[1].todo) = {}
    BY <1>1, <1>2 DEF ToSet
  <2>2. ASSUME NEW x \in Wanted(r, 1) PROVE x \in r.done \/ x \in ToSet(r.stack[1].todo)
    BY <1>0, <1>1, <1>2 DEF Walking, Chained
  <2> QED BY <1>2, <2>1, <2>2 DEF Wanted
<1>4. r.done = DOMAIN r.graph.deps
  BY <1>0, <1>3 DEF Walking
<1>a. <<>> \in Seq(Frames)
  OBVIOUS
<1>5. /\ q \in Runs /\ q.pc = "ok"
      /\ q.graph = r.graph /\ q.done = r.done /\ q.ran = r.ran /\ q.frames = r.frames
  BY <1>0, <1>a DEF Runs
<1> HIDE DEF q
<1>6. InOrder(q)
  BY <1>0, <1>4, <1>5 DEF InOrder
<1> QED BY <1>0, <1>5, <1>6 DEF RunInv, q

\* A run that goes from one kind of step to the next with its stack and its
\* results as they are: what is being resolved stays so.
LEMMA SameWalk ==
    ASSUME NEW r, NEW q, Walking(r),
           q.stack = r.stack, q.graph = r.graph, q.done = r.done, q.ran = r.ran,
           r.pc # "returned", q.pc # "returned",
           q.pc = "wait" => Len(r.stack) > 1 /\ Last(r.stack).todo = <<>>
    PROVE  Walking(q)
<1>1. \A i : Wanted(q, i) = Wanted(r, i)
  BY DEF Wanted
<1>2. Chained(q)
  BY <1>1 DEF Walking, Chained
<1>3. Open(q)
  BY DEF Walking, Open
<1> QED BY <1>2, <1>3 DEF Walking

\* The node on top is dispatched.
LEMMA DispatchedRun ==
    ASSUME TaskAssumption, NEW r, RunInv(r), r.pc = "walk",
           Last(r.stack).todo = <<>>, Last(r.stack).node # Root
    PROVE  RunInv([r EXCEPT !.pc = "wait", !.frames = @ + 1])
<1> DEFINE q == [r EXCEPT !.pc = "wait", !.frames = @ + 1]
<1>0. r \in Runs /\ Walking(r) /\ InOrder(r) /\ r.frames = 0
  BY DEF RunInv
<1>1. Len(r.stack) \in Nat \ {0} /\ Last(r.stack) = r.stack[Len(r.stack)]
  BY <1>0, WalkFacts
<1>2. Len(r.stack) > 1
  BY <1>0, <1>1 DEF Walking
<1>3. /\ q \in Runs /\ q.pc = "wait" /\ q.frames = 1 /\ q.stack = r.stack
      /\ q.graph = r.graph /\ q.done = r.done /\ q.ran = r.ran
  <2>1. q = [r EXCEPT !.pc = "wait", !.frames = 1]
    BY <1>0
  <2> HIDE DEF q
  <2> QED BY <1>0, <2>1 DEF Runs
<1> HIDE DEF q
<1>4. Walking(q)
  BY <1>0, <1>2, <1>3, SameWalk
<1>5. InOrder(q)
  BY <1>0, <1>3 DEF InOrder
<1> QED BY <1>3, <1>4, <1>5 DEF RunInv, q

\* A sequence without repetition stays one when something new is appended; what
\* is appended after all it depends on keeps the order.
LEMMA AppendRan ==
    ASSUME NEW ran \in Seq(Ids), NEW deps, NEW x \in Ids,
           IsInjective(ran), DepsFirst(ran, deps), x \notin ToSet(ran), ToSet(deps[x]) \subseteq ToSet(ran)
    PROVE  IsInjective(Append(ran, x)) /\ DepsFirst(Append(ran, x), deps)
<1> DEFINE new == Append(ran, x)
           n == Len(ran)
<1>1. /\ n \in Nat /\ DOMAIN ran = 1 .. n /\ DOMAIN new = 1 .. n + 1
      /\ \A i \in 1 .. n : new[i] = ran[i]
      /\ new[n + 1] = x
  BY AppendSet
<1> HIDE DEF new, n
<1>2. \A i \in 1 .. n : ran[i] # x
  BY <1>1 DEF ToSet
<1>3. IsInjective(new)
  <2> SUFFICES ASSUME NEW i \in 1 .. n + 1, NEW j \in 1 .. n + 1, new[i] = new[j] PROVE i = j
    BY <1>1 DEF IsInjective
  <2>1. \A k \in 1 .. n + 1 : k \in 1 .. n \/ k = n + 1
    BY <1>1
  <2> QED BY <1>1, <1>2, <2>1 DEF IsInjective
<1>4. DepsFirst(new, deps)
  <2> SUFFICES ASSUME NEW i \in 1 .. n + 1, NEW d \in ToSet(deps[new[i]])
               PROVE  \E j \in 1 .. (i - 1) : new[j] = d
    BY <1>1 DEF DepsFirst
  <2>1. CASE i = n + 1
    <3>1. d \in ToSet(ran)
      BY <1>1, <2>1
    <3>2. PICK j \in 1 .. n : ran[j] = d
      BY <1>1, <3>1 DEF ToSet
    <3> QED BY <1>1, <2>1, <3>2
  <2>2. CASE i # n + 1
    <3>1. i \in 1 .. n
      BY <1>1, <2>2
    <3>2. d \in {ran[j] : j \in 1 .. (i - 1)}
      BY <1>1, <3>1 DEF DepsFirst
    <3>3. PICK j \in 1 .. (i - 1) : ran[j] = d
      BY <3>2
    <3>4. j \in 1 .. n
      BY <1>1, <3>1, <3>3
    <3> QED BY <1>1, <3>3, <3>4
  <2> QED BY <2>1, <2>2
<1> QED BY <1>3, <1>4 DEF new

\* A node that is dispatched is not being resolved anywhere else: it would have
\* had to ask for one that is not done, and all it asks for is done.
LEMMA TopIsNew ==
    ASSUME TaskAssumption, NEW r, RunInv(r), r.pc = "wait"
    PROVE  LET n == Len(r.stack)
               node == r.stack[n].node
           IN  /\ n \in 2 .. n /\ node \in Ids /\ node \in DOMAIN r.graph.deps
               /\ node \notin r.done /\ ToSet(r.graph.deps[node]) \subseteq r.done
               /\ \A i \in 2 .. n : r.stack[i].node = node => i = n
<1> DEFINE n == Len(r.stack)
           node == r.stack[n].node
<1>0. r \in Runs /\ Walking(r)
  BY DEF RunInv
<1>1. n \in Nat /\ n > 1 /\ GraphOK(r.graph) /\ r.stack[n].todo = <<>>
  BY <1>0, WalkFacts DEF Walking
<1> HIDE DEF n
<1>2. n \in 2 .. n
  BY <1>1
<1>3. node \in DOMAIN r.graph.deps /\ node \in Ids
  BY <1>0, <1>1, <1>2 DEF Walking, Chained, GraphOK, n
<1>4. \A i \in 2 .. n : r.stack[i].node \notin r.done
  BY <1>0 DEF Walking, Open, n
<1>5. ASSUME NEW i \in 2 .. n PROVE Wanted(r, i) = ToSet(r.graph.deps[r.stack[i].node])
  BY <1>5 DEF Wanted
<1>6. ToSet(r.graph.deps[node]) \subseteq r.done
  <2>1. ToSet(r.stack[n].todo) = {}
    BY <1>1 DEF ToSet
  <2>2. ASSUME NEW x \in Wanted(r, n) PROVE x \in r.done
    BY <1>0, <1>1, <1>2, <2>1 DEF Walking, Chained, n
  <2> QED BY <1>2, <1>5, <2>2
<1>7. ASSUME NEW i \in 2 .. n, r.stack[i].node = node, i # n PROVE FALSE
  <2>1. i + 1 \in 2 .. n /\ (i + 1) - 1 = i
    BY <1>1, <1>7
  <2>2. r.stack[i + 1].node \in Wanted(r, i)
    BY <1>0, <2>1 DEF Walking, Chained, n
  <2>3. r.stack[i + 1].node \in r.done
    BY <1>5, <1>6, <1>7, <2>2
  <2> QED BY <1>4, <2>1, <2>3
<1> QED BY <1>2, <1>3, <1>4, <1>6, <1>7 DEF n

\* The work of the node on top has run, and has succeeded or failed.
LEMMA SignalledRun ==
    ASSUME TaskAssumption, NEW r, RunInv(r), r.pc = "wait",
           NEW pc \in {"returned", "failed"}, NEW node, node = Last(r.stack).node
    PROVE  RunInv([r EXCEPT !.pc = pc, !.frames = @ - 1, !.ran = Append(@, node),
                            !.done = IF pc = "returned" THEN @ \cup {node} ELSE @])
<1> DEFINE q == [r EXCEPT !.pc = pc, !.frames = @ - 1, !.ran = Append(@, node),
                          !.done = IF pc = "returned" THEN @ \cup {node} ELSE @]
           n == Len(r.stack)
<1>0. r \in Runs /\ Walking(r) /\ InOrder(r) /\ r.frames = 1
  BY DEF RunInv
<1>1. node = r.stack[n].node
  BY <1>0, WalkFacts
<1>2. /\ n \in 2 .. n /\ node \in Ids /\ node \in DOMAIN r.graph.deps
      /\ node \notin r.done /\ ToSet(r.graph.deps[node]) \subseteq r.done
      /\ \A i \in 2 .. n : r.stack[i].node = node => i = n
  BY <1>1, TopIsNew
<1>3. r.ran \in Seq(Ids) /\ ToSet(r.ran) = r.done /\ r.done \subseteq Ids
  BY <1>0 DEF Walking, Runs
<1>4. /\ Append(r.ran, node) \in Seq(Ids)
      /\ ToSet(Append(r.ran, node)) = r.done \cup {node}
  BY <1>2, <1>3, AppendSet
<1>5. /\ q \in Runs /\ q.pc = pc /\ q.frames = 0 /\ q.stack = r.stack
      /\ q.graph = r.graph /\ q.ran = Append(r.ran, node)
      /\ q.done = IF pc = "returned" THEN r.done \cup {node} ELSE r.done
  <2> DEFINE done == IF pc = "returned" THEN r.done \cup {node} ELSE r.done
             ran == Append(r.ran, node)
  <2>1. q = [r EXCEPT !.pc = pc, !.frames = 0, !.ran = ran, !.done = done]
    BY <1>0
  <2>2. done \in SUBSET Ids /\ ran \in Seq(Ids)
    BY <1>2, <1>3, <1>4
  <2>3. pc \in {"idle", "walk", "wait", "returned", "failed", "ok"}
    OBVIOUS
  <2> HIDE DEF q, done, ran
  <2>4. /\ q \in Runs /\ q.pc = pc /\ q.frames = 0 /\ q.stack = r.stack
        /\ q.graph = r.graph /\ q.ran = ran /\ q.done = done
    BY <1>0, <2>1, <2>2, <2>3 DEF Runs
  <2> QED BY <2>4 DEF done, ran
<1> HIDE DEF q, n
<1>6. InOrder(q)
  <2>1. IsInjective(Append(r.ran, node)) /\ DepsFirst(Append(r.ran, node), r.graph.deps)
    BY <1>0, <1>2, <1>3, AppendRan DEF InOrder
  <2> QED BY <1>5, <2>1 DEF InOrder
<1>7. ASSUME pc = "returned" PROVE Walking(q)
  <2>0. q.done = r.done \cup {node} /\ q.pc = "returned"
    BY <1>5, <1>7
  <2>1. \A i : Wanted(q, i) = Wanted(r, i)
    BY <1>5 DEF Wanted
  <2>2. Chained(q)
    <3>1. \A i \in 2 .. n : /\ r.stack[i].node \in DOMAIN r.graph.deps
                            /\ r.stack[i].node \in Wanted(r, i - 1)
      BY <1>0 DEF Walking, Chained, n
    <3>2. \A i \in 1 .. n : ToSet(r.stack[i].todo) \subseteq Wanted(r, i)
      BY <1>0 DEF Walking, Chained, n
    <3>3. ASSUME NEW i \in 1 .. n, NEW x \in Wanted(r, i)
          PROVE  \/ x \in r.done \cup {node}
                 \/ x \in ToSet(r.stack[i].todo)
                 \/ i < n /\ x = r.stack[i + 1].node
      BY <1>0, <3>3 DEF Walking, Chained, n
    <3>4. q.stack = r.stack /\ q.graph = r.graph
      BY <1>5
    <3> HIDE DEF n
    <3> QED BY <2>0, <2>1, <3>1, <3>2, <3>3, <3>4 DEF Chained, n
  <2>3. Open(q)
    <3>1. \A i \in 2 .. n : r.stack[i].node \notin r.done
      BY <1>0 DEF Walking, Open, n
    <3> QED BY <1>1, <1>2, <1>5, <2>0, <3>1 DEF Open, n
  <2>4. /\ q.graph \in {job[1] : job \in Jobs} /\ Len(q.stack) > 1 /\ q.stack[1].node = Root
        /\ Last(q.stack).todo = <<>>
    BY <1>0, <1>5 DEF Walking
  <2>5. ToSet(q.ran) = q.done /\ q.done \subseteq DOMAIN q.graph.deps
    BY <1>0, <1>2, <1>4, <1>5, <2>0 DEF Walking
  <2>6. Len(q.stack) > 0
    BY <1>2, <1>5 DEF n
  <2> QED BY <2>2, <2>3, <2>4, <2>5, <2>6 DEF Walking
<1>8. RunInv(q)
  BY <1>5, <1>6, <1>7 DEF RunInv
<1> QED BY <1>8 DEF q

\* The caller of the completed node goes on.
LEMMA ReturnedRun ==
    ASSUME TaskAssumption, NEW r, RunInv(r), r.pc = "returned"
    PROVE  RunInv([r EXCEPT !.pc = "walk", !.stack = Front(@)])
<1> DEFINE st == Front(r.stack)
           q == [r EXCEPT !.pc = "walk", !.stack = st]
           n == Len(r.stack)
<1>0. r \in Runs /\ Walking(r) /\ InOrder(r) /\ r.frames = 0
  BY DEF RunInv
<1>1. n \in Nat /\ n > 1 /\ r.stack \in Seq(Frames)
  BY <1>0, WalkFacts DEF Walking
<1>2. st \in Seq(Frames) /\ Len(st) = n - 1 /\ \A i \in 1 .. n - 1 : st[i] = r.stack[i]
  BY <1>1 DEF Front
<1>3. /\ q \in Runs /\ q.stack = st /\ q.pc = "walk"
      /\ q.graph = r.graph /\ q.done = r.done /\ q.ran = r.ran /\ q.frames = r.frames
  BY <1>0, <1>2 DEF Runs
<1> HIDE DEF q, st, n
<1>4. \A i \in 1 .. n - 1 : Wanted(q, i) = Wanted(r, i)
  BY <1>2, <1>3 DEF Wanted
<1>5. r.stack[n].node \in r.done
  BY <1>0, <1>1 DEF Walking, Open, n
<1>6. Chained(q)
  <2>1. ASSUME NEW i \in 2 .. n - 1
        PROVE  st[i].node \in DOMAIN q.graph.deps /\ st[i].node \in Wanted(q, i - 1)
    <3>1. i \in 2 .. n /\ i \in 1 .. n - 1 /\ i - 1 \in 1 .. n - 1
      BY <1>1
    <3> QED BY <1>0, <1>2, <1>3, <1>4, <3>1, SMTT(60) DEF Walking, Chained, n
  <2>2. ASSUME NEW i \in 1 .. n - 1 PROVE ToSet(st[i].todo) \subseteq Wanted(q, i)
    <3>1. i \in 1 .. n
      BY <1>1
    <3> QED BY <1>0, <1>2, <1>4, <3>1 DEF Walking, Chained, n
  <2>3. ASSUME NEW i \in 1 .. n - 1, NEW x \in Wanted(q, i)
        PROVE  \/ x \in q.done
               \/ x \in ToSet(st[i].todo)
               \/ i < n - 1 /\ x = st[i + 1].node
    <3>1. i \in 1 .. n
      BY <1>1
    <3>2. \/ x \in r.done
          \/ x \in ToSet(r.stack[i].todo)
          \/ i < n /\ x = r.stack[i + 1].node
      BY <1>0, <1>4, <2>3, <3>1 DEF Walking, Chained, n
    <3>3. CASE i = n - 1
      <4>1. i + 1 = n
        BY <1>1, <3>3
      <4> QED BY <1>2, <1>3, <1>5, <3>2, <4>1
    <3>4. CASE i # n - 1
      <4>1. i + 1 \in 1 .. n - 1 /\ i < n - 1
        BY <1>1, <3>4
      <4> QED BY <1>2, <1>3, <3>2, <4>1
    <3> QED BY <3>3, <3>4
  <2> QED BY <1>2, <1>3, <2>1, <2>2, <2>3 DEF Chained
<1>7. Open(q)
  <2>1. ASSUME NEW i \in 2 .. n - 1 PROVE st[i].node \notin q.done
    <3>1. i \in 2 .. n /\ i # n /\ i \in 1 .. n - 1
      BY <1>1
    <3> QED BY <1>0, <1>2, <1>3, <3>1 DEF Walking, Open, n
  <2> QED BY <1>2, <1>3, <2>1 DEF Open
<1>8. Walking(q)
  <2>1. 1 \in 1 .. n - 1 /\ n - 1 > 0
    BY <1>1
  <2> QED BY <1>0, <1>2, <1>3, <1>6, <1>7, <2>1 DEF Walking
<1>9. InOrder(q)
  BY <1>0, <1>3 DEF InOrder
<1>10. RunInv(q)
  BY <1>0, <1>3, <1>8, <1>9 DEF RunInv
<1> QED BY <1>10 DEF q, st

\* A run that has not started, and one that starts.
LEMMA IdleRun == RunInv(NoRun)
<1>1. /\ NoRun.pc = "idle" /\ NoRun.ran = <<>> /\ NoRun.frames = 0
      /\ <<>> \in Seq(Frames) /\ <<>> \in Seq(Ids)
  BY DEF NoRun
<1>2. NoRun \in Runs
  BY <1>1 DEF NoRun, Runs
<1>3. DOMAIN NoRun.ran = {}
  BY <1>1
<1>4. InOrder(NoRun)
  BY <1>1, <1>3 DEF InOrder, IsInjective, DepsFirst
<1> QED BY <1>1, <1>2, <1>4 DEF RunInv

LEMMA StartedRun ==
    ASSUME TaskAssumption, NEW job \in Jobs
    PROVE  RunInv([NoRun EXCEPT !.pc = "walk", !.graph = job[1],
                                !.stack = <<Frame(Root, job[2])>>])
<1> DEFINE st == <<Frame(Root, job[2])>>
           q == [NoRun EXCEPT !.pc = "walk", !.graph = job[1], !.stack = st]
<1>1. job[2] \in Seq(Ids) /\ ToSet(job[2]) = DOMAIN job[1].deps
  BY DEF TaskAssumption, JobsOK
<1>2. Frame(Root, job[2]) \in Frames
  BY <1>1 DEF Frame, Frames
<1>3. /\ st \in Seq(Frames) /\ Len(st) = 1 /\ st[1].node = Root /\ st[1].todo = job[2]
  BY <1>2 DEF Frame
<1>4. /\ q.pc = "walk" /\ q.stack = st /\ q.graph = job[1] /\ q.done = {} /\ q.ran = <<>> /\ q.frames = 0
      /\ <<>> \in Seq(Ids)
  BY DEF NoRun
<1>5. q \in Runs
  <2> HIDE DEF st
  <2> QED BY <1>3, <1>4 DEF NoRun, Runs
<1> HIDE DEF q, st
<1>6. InOrder(q)
  <2>1. DOMAIN q.ran = {}
    BY <1>4
  <2> QED BY <1>4, <2>1 DEF InOrder, IsInjective, DepsFirst
<1>a. Len(q.stack) = 1 /\ q.stack[1].node = Root /\ q.stack[1].todo = job[2]
  BY <1>3, <1>4
<1>7. Walking(q)
  <2>1. Wanted(q, 1) = ToSet(st[1].todo)
    BY <1>1, <1>3, <1>4 DEF Wanted
  <2>2. Chained(q)
    <3>1. \A i \in 1 .. Len(q.stack) : i = 1
      BY <1>a
    <3>2. \A i \in 2 .. Len(q.stack) : FALSE
      BY <1>a
    <3> QED BY <1>3, <1>4, <2>1, <3>1, <3>2 DEF Chained
  <2>3. Open(q)
    BY <1>3, <1>4 DEF Open
  <2>4. ToSet(q.ran) = {}
    BY <1>4 DEF ToSet
  <2>5. q.graph \in {j[1] : j \in Jobs}
    BY <1>4
  <2> QED BY <1>a, <1>4, <2>2, <2>3, <2>4, <2>5 DEF Walking
<1>8. RunInv(q)
  BY <1>4, <1>5, <1>6, <1>7, SMTT(60) DEF RunInv
<1> QED BY <1>8 DEF q, st

-----------------------------------------------------------------------------
(* Steps of the runtime                                                     *)

\* One run takes a step, whose coroutine frame, if there is one, stays where it is.
LEMMA RunStepInv ==
    ASSUME TaskIInv, NEW d \in Drivers, NEW q, RunInv(q), run' = [run EXCEPT ![d] = q],
           run[d].pc # "wait", q.pc # "wait",
           UNCHANGED <<queue, worker, pools, mapped>>
    PROVE  TaskIInv'
<1> USE DEF TaskIInv
<1>1. q \in Runs
  BY DEF RunInv
<1>2. run'[d] = q /\ \A e \in Drivers : e # d => run'[e] = run[e]
  OBVIOUS
<1>3. run' \in [Drivers -> Runs] /\ \A e \in Drivers : RunInv(run'[e])
  BY <1>1, <1>2
<1>4. QueueOK' /\ OneHolder'
  BY DEF QueueOK, OneHolder
<1>5. \A e \in Drivers : Held(e)' <=> Held(e)
  BY DEF Held
<1>6. WaitHeld'
  BY <1>2, <1>5 DEF WaitHeld
<1> QED BY <1>3, <1>4, <1>6 DEF RunInv, InOrder, Walking, Chained, Open, Wanted

\* The walk of a driver.
LEMMA DriveInv ==
    ASSUME TaskAssumption, TaskIInv, NEW d \in Drivers,
           Visit(d) \/ Finish(d) \/ Return(d)
    PROVE  TaskIInv'
<1>0. run \in [Drivers -> Runs] /\ RunInv(run[d])
  BY DEF TaskIInv
<1>1. CASE Visit(d)
  <2> DEFINE id == Head(Top(d).todo)
             seen == [run[d] EXCEPT !.stack = Rest(@)]
             failed == [run[d] EXCEPT !.pc = "failed", !.stack = <<>>]
             entered == [run[d] EXCEPT !.stack = Append(Rest(@), Frame(id, run[d].graph.deps[id]))]
  <2>1. /\ run[d].pc = "walk" /\ Top(d).todo # <<>> /\ Top(d) = Last(run[d].stack)
        /\ UNCHANGED <<queue, worker, pools, mapped>>
    BY <1>1, SMTT(60) DEF Visit, Top
  <2>2. \/ id \in run[d].done /\ run' = [run EXCEPT ![d] = seen]
        \/ run' = [run EXCEPT ![d] = failed]
        \/ id \notin run[d].done /\ id \in DOMAIN run[d].graph.deps /\ run' = [run EXCEPT ![d] = entered]
    BY <1>0, <1>1 DEF Visit, Fail, Nodes
  <2>3. CASE id \in run[d].done /\ run' = [run EXCEPT ![d] = seen]
    <3>1. RunInv(seen)
      BY <1>0, <2>1, <2>3, SeenRun
    <3>2. seen.pc = "walk"
      BY <1>0, <2>1 DEF Runs
    <3> QED BY <2>1, <2>3, <3>1, <3>2, RunStepInv
  <2>4. CASE run' = [run EXCEPT ![d] = failed]
    <3>1. RunInv(failed)
      BY <1>0, <2>1, FailedRun
    <3>2. failed.pc = "failed"
      BY <1>0, SMTT(60) DEF Runs
    <3> QED BY <2>1, <2>4, <3>1, <3>2, RunStepInv
  <2>5. CASE /\ id \notin run[d].done /\ id \in DOMAIN run[d].graph.deps
             /\ run' = [run EXCEPT ![d] = entered]
    <3>1. RunInv(entered)
      BY <1>0, <2>1, <2>5, EnteredRun
    <3>2. entered.pc = "walk"
      BY <1>0, <2>1 DEF Runs
    <3> QED BY <2>1, <2>5, <3>1, <3>2, RunStepInv
  <2> QED BY <2>2, <2>3, <2>4, <2>5, SMTT(60)
<1>2. CASE Finish(d)
  <2> DEFINE q == [run[d] EXCEPT !.pc = "ok", !.stack = <<>>]
  <2>1. /\ run[d].pc = "walk" /\ Last(run[d].stack).todo = <<>> /\ Last(run[d].stack).node = Root
        /\ UNCHANGED <<queue, worker, pools, mapped>>
    BY <1>2 DEF Finish, Top
  <2>2. run' = [run EXCEPT ![d] = q]
    BY <1>0, <1>2 DEF Finish
  <2>3. RunInv(q)
    BY <1>0, <2>1, FinishedRun
  <2>4. q.pc = "ok"
    BY <1>0 DEF Runs
  <2> QED BY <2>1, <2>2, <2>3, <2>4, RunStepInv
<1>3. CASE Return(d)
  <2> DEFINE q == [run[d] EXCEPT !.pc = "walk", !.stack = Front(@)]
  <2>1. run[d].pc = "returned" /\ UNCHANGED <<queue, worker, pools, mapped>>
    BY <1>3 DEF Return
  <2>2. run' = [run EXCEPT ![d] = q]
    BY <1>0, <1>3 DEF Return
  <2>3. RunInv(q)
    BY <1>0, <2>1, ReturnedRun
  <2>4. q.pc = "walk"
    BY <1>0 DEF Runs
  <2> QED BY <2>1, <2>2, <2>3, <2>4, RunStepInv
<1> QED BY <1>1, <1>2, <1>3

\* A driver starts a run.
LEMMA StartInv ==
    ASSUME TaskAssumption, TaskIInv, NEW d \in Drivers, NEW job \in Jobs, Start(d, job[1], job[2])
    PROVE  TaskIInv'
<1> DEFINE q == [NoRun EXCEPT !.pc = "walk", !.graph = job[1], !.stack = <<Frame(Root, job[2])>>]
<1>1. run[d].pc = "idle" /\ run' = [run EXCEPT ![d] = q] /\ UNCHANGED <<queue, worker, pools, mapped>>
  BY DEF Start
<1>2. RunInv(q)
  BY StartedRun
<1>3. q.pc = "walk"
  BY SMTT(60) DEF NoRun
<1> QED BY <1>1, <1>2, <1>3, RunStepInv

\* The frame of a dispatched node is in the queue of the node's pool, and nowhere else.
LEMMA QueuedInv ==
    ASSUME TaskAssumption, TaskIInv, NEW d \in Drivers, NEW key \in Keys, NEW q, RunInv(q),
           run[d].pc # "wait", q.pc = "wait", run' = [run EXCEPT ![d] = q],
           Len(queue[key]) < Capacity, queue' = [queue EXCEPT ![key] = Append(@, d)],
           UNCHANGED <<worker, pools, mapped>>
    PROVE  TaskIInv'
<1> DEFINE n == Len(queue[key])
<1>0. /\ run \in [Drivers -> Runs] /\ \A e \in Drivers : RunInv(run[e])
      /\ QueueOK /\ OneHolder /\ WaitHeld
  BY DEF TaskIInv
<1>1. /\ queue \in [Keys -> Seq(Drivers)] /\ n \in Nat /\ queue[key] \in Seq(Drivers)
      /\ \A k \in Keys : DOMAIN queue[k] = 1 .. Len(queue[k])
  BY <1>0 DEF QueueOK
<1>2. /\ queue'[key] \in Seq(Drivers) /\ Len(queue'[key]) = n + 1 /\ DOMAIN queue'[key] = 1 .. n + 1
      /\ \A i \in 1 .. n : queue'[key][i] = queue[key][i]
      /\ queue'[key][n + 1] = d
      /\ \A k \in Keys : k # key => queue'[k] = queue[k]
  <2>1. queue'[key] = Append(queue[key], d) /\ \A k \in Keys : k # key => queue'[k] = queue[k]
    BY <1>1
  <2>2. DOMAIN Append(queue[key], d) = 1 .. n + 1
    BY <1>1
  <2> QED BY <1>1, <2>1, <2>2, AppendSet
<1>3. run' \in [Drivers -> Runs] /\ \A e \in Drivers : RunInv(run'[e])
  BY <1>0 DEF RunInv
<1> HIDE DEF n
<1>4. QueueOK'
  <2>1. queue' \in [Keys -> Seq(Drivers)]
    BY <1>1, AppendSet
  <2>2. \A k \in Keys : Len(queue'[k]) <= Capacity
    BY <1>0, <1>1, <1>2 DEF QueueOK, TaskAssumption, n
  <2> QED BY <1>0, <2>1, <2>2 DEF QueueOK
<1>5. \* an entry is an old one or d's
      \A k \in Keys : \A i \in DOMAIN queue'[k] :
        \/ i \in DOMAIN queue[k] /\ queue'[k][i] = queue[k][i]
        \/ k = key /\ i = n + 1 /\ queue'[k][i] = d
  BY <1>1, <1>2 DEF n
<1>6. \* and d was nowhere
      /\ \A w \in Threads : worker[w] # d
      /\ \A k \in Keys : \A i \in DOMAIN queue[k] : queue[k][i] # d
  BY <1>0 DEF WaitHeld, Held
<1>7. OneHolder'
  <2>1. \A v, w \in Threads : worker'[v] = worker'[w] /\ worker'[v] \in Drivers => v = w
    BY <1>0 DEF OneHolder
  <2>2. ASSUME NEW k \in Keys, NEW l \in Keys, NEW i \in DOMAIN queue'[k], NEW j \in DOMAIN queue'[l],
               queue'[k][i] = queue'[l][j]
        PROVE  k = l /\ i = j
    BY <1>0, <1>5, <1>6, <2>2 DEF OneHolder
  <2>3. ASSUME NEW w \in Threads, NEW k \in Keys, NEW i \in DOMAIN queue'[k]
        PROVE  worker'[w] # queue'[k][i]
    BY <1>0, <1>5, <1>6, <2>3 DEF OneHolder
  <2> QED BY <2>1, <2>2, <2>3 DEF OneHolder
<1>8. WaitHeld'
  <2>1. Held(d)'
    <3>1. n + 1 \in DOMAIN queue'[key] /\ queue'[key][n + 1] = d
      BY <1>1, <1>2
    <3> QED BY <3>1 DEF Held
  <2>2. ASSUME NEW e \in Drivers, e # d PROVE Held(e)' <=> Held(e)
    <3>1. ASSUME Held(e) PROVE Held(e)'
      <4>1. ASSUME NEW k \in Keys, NEW i \in DOMAIN queue[k]
            PROVE  i \in DOMAIN queue'[k] /\ queue'[k][i] = queue[k][i]
        BY <1>1, <1>2 DEF n
      <4> QED BY <3>1, <4>1 DEF Held
    <3>2. ASSUME Held(e)' PROVE Held(e)
      BY <1>5, <2>2, <3>2 DEF Held
    <3> QED BY <3>1, <3>2
  <2>3. \A e \in Drivers : run'[e] = IF e = d THEN q ELSE run[e]
    BY <1>0, SMTT(60)
  <2> QED BY <1>0, <2>1, <2>2, <2>3 DEF WaitHeld
<1> QED BY <1>3, <1>4, <1>7, <1>8 DEF TaskIInv, RunInv, InOrder, Walking, Chained, Open, Wanted

\* The walk's node on top goes to its pool, or is refused.
LEMMA DispatchInv ==
    ASSUME TaskAssumption, TaskIInv, NEW d \in Drivers, Dispatch(d)
    PROVE  TaskIInv'
<1> DEFINE key == run[d].graph.key[Top(d).node]
           failed == [run[d] EXCEPT !.pc = "failed", !.stack = <<>>]
           sent == [run[d] EXCEPT !.pc = "wait", !.frames = @ + 1]
<1>1. /\ run \in [Drivers -> Runs] /\ RunInv(run[d])
      /\ run[d].pc = "walk" /\ Last(run[d].stack).todo = <<>> /\ Last(run[d].stack).node # Root
      /\ UNCHANGED <<worker, pools, mapped>>
  BY DEF TaskIInv, Dispatch, Top
<1>2. CASE run' = [run EXCEPT ![d] = failed] /\ UNCHANGED queue
  <2>1. RunInv(failed)
    BY <1>1, FailedRun
  <2>2. failed.pc = "failed"
    BY <1>1, SMTT(60) DEF Runs
  <2> QED BY <1>1, <1>2, <2>1, <2>2, RunStepInv
<1>3. CASE /\ Len(queue[key]) < Capacity /\ queue' = [queue EXCEPT ![key] = Append(@, d)]
           /\ run' = [run EXCEPT ![d] = sent]
  <2>1. RunInv(sent)
    BY <1>1, DispatchedRun
  <2>2. sent.pc = "wait"
    BY <1>1 DEF Runs
  <2>3. key \in Keys
    <3> DEFINE r == run[d]
               n == Len(r.stack)
    <3>1. Walking(r) /\ n \in Nat \ {0} /\ Last(r.stack) = r.stack[n] /\ GraphOK(r.graph)
      <4>1. Walking(r)
        BY <1>1 DEF RunInv
      <4> QED BY <1>1, <4>1, WalkFacts
    <3> HIDE DEF r, n
    <3>2. n \in 2 .. n
      BY <1>1, <3>1 DEF Walking, r, n
    <3>3. r.stack[n].node \in DOMAIN r.graph.deps
      BY <3>1, <3>2, SMTT(60) DEF Walking, Chained, n
    <3> QED BY <3>1, <3>3 DEF GraphOK, Top, r
  <2> QED BY <1>1, <1>3, <2>1, <2>2, <2>3, QueuedInv
<1>4. \/ run' = [run EXCEPT ![d] = failed] /\ UNCHANGED queue
      \/ /\ Len(queue[key]) < Capacity /\ queue' = [queue EXCEPT ![key] = Append(@, d)]
         /\ run' = [run EXCEPT ![d] = sent]
  BY <1>1, ZenonT(60) DEF Dispatch, Fail
<1> QED BY <1>2, <1>3, <1>4, ZenonT(60)

\* A worker takes the oldest frame of its pool's queue.
LEMMA TakeInv ==
    ASSUME TaskAssumption, TaskIInv, NEW w \in Threads, Take(w)
    PROVE  TaskIInv'
<1> DEFINE key == w[1]
           n == Len(queue[key])
<1>0. /\ run \in [Drivers -> Runs] /\ \A e \in Drivers : RunInv(run[e])
      /\ QueueOK /\ OneHolder /\ WaitHeld
  BY DEF TaskIInv
<1>1. /\ key \in Keys /\ queue \in [Keys -> Seq(Drivers)] /\ worker \in [Threads -> Drivers \cup {Idle, Gone}]
      /\ queue[key] \in Seq(Drivers) /\ queue[key] # <<>> /\ worker[w] = Idle
      /\ queue' = [queue EXCEPT ![key] = Tail(@)] /\ worker' = [worker EXCEPT ![w] = Head(queue[key])]
      /\ UNCHANGED <<run, pools, mapped>>
  BY <1>0 DEF QueueOK, TaskAssumption, Take
<1>a. PICK d \in Drivers : d = Head(queue[key])
  BY <1>1
<1>2. /\ n \in Nat \ {0} /\ d = queue[key][1] /\ 1 \in DOMAIN queue[key]
      /\ DOMAIN queue[key] = 1 .. n
      /\ Tail(queue[key]) \in Seq(Drivers) /\ Len(Tail(queue[key])) = n - 1
      /\ DOMAIN Tail(queue[key]) = 1 .. n - 1
      /\ \A i \in 1 .. n - 1 : Tail(queue[key])[i] = queue[key][i + 1]
  BY <1>1, <1>a
<1>3. /\ queue' \in [Keys -> Seq(Drivers)] /\ queue'[key] = Tail(queue[key])
      /\ \A k \in Keys : k # key => queue'[k] = queue[k]
      /\ worker' \in [Threads -> Drivers \cup {Idle, Gone}] /\ worker'[w] = d
      /\ \A v \in Threads : v # w => worker'[v] = worker[v]
  BY <1>1, <1>2, <1>a
<1> HIDE DEF n, key
<1>4. \* where a queued frame was before
      ASSUME NEW k \in Keys, NEW i \in DOMAIN queue'[k]
      PROVE  LET j == IF k = key THEN i + 1 ELSE i
             IN  j \in DOMAIN queue[k] /\ queue'[k][i] = queue[k][j] /\ (k = key => j # 1) /\ i \in Nat
  <2>1. CASE k = key
    <3>1. i \in 1 .. n - 1 /\ queue'[k][i] = Tail(queue[key])[i]
      BY <1>2, <1>3, <1>4, <2>1
    <3>2. i \in Nat /\ i + 1 \in 1 .. n /\ i + 1 # 1
      BY <1>2, <3>1
    <3> QED BY <1>2, <2>1, <3>1, <3>2
  <2>2. CASE k # key
    BY <1>1, <1>3, <1>4, <2>2
  <2> QED BY <2>1, <2>2
<1>5. QueueOK'
  <2>1. \A k \in Keys : Len(queue'[k]) <= Capacity
    BY <1>0, <1>1, <1>2, <1>3 DEF QueueOK, TaskAssumption, n
  <2> QED BY <1>0, <1>1, <1>3, <2>1 DEF QueueOK
<1>6. \* a frame that is still queued is not d's
      ASSUME NEW k \in Keys, NEW i \in DOMAIN queue'[k] PROVE queue'[k][i] # d
  <2> DEFINE j == IF k = key THEN i + 1 ELSE i
  <2>1. j \in DOMAIN queue[k] /\ queue'[k][i] = queue[k][j] /\ (k = key => j # 1)
    BY <1>4
  <2> HIDE DEF j
  <2> QED BY <1>0, <1>1, <1>2, <2>1 DEF OneHolder
<1>7. \A v \in Threads : worker[v] # d
  BY <1>0, <1>1, <1>2 DEF OneHolder
<1>8. OneHolder'
  <2>1. ASSUME NEW u \in Threads, NEW v \in Threads, worker'[u] = worker'[v], worker'[u] \in Drivers
        PROVE  u = v
    BY <1>0, <1>3, <1>7, <2>1 DEF OneHolder
  <2>2. ASSUME NEW k \in Keys, NEW l \in Keys, NEW i \in DOMAIN queue'[k], NEW j \in DOMAIN queue'[l],
               queue'[k][i] = queue'[l][j]
        PROVE  k = l /\ i = j
    <3> DEFINE a == IF k = key THEN i + 1 ELSE i
               b == IF l = key THEN j + 1 ELSE j
    <3>1. a \in DOMAIN queue[k] /\ b \in DOMAIN queue[l] /\ queue[k][a] = queue[l][b] /\ i \in Nat /\ j \in Nat
      BY <1>4, <2>2
    <3>2. k = l /\ a = b
      <4> HIDE DEF a, b
      <4> QED BY <1>0, <3>1 DEF OneHolder
    <3> QED BY <3>1, <3>2
  <2>3. ASSUME NEW v \in Threads, NEW k \in Keys, NEW i \in DOMAIN queue'[k]
        PROVE  worker'[v] # queue'[k][i]
    <3>1. CASE v = w
      BY <1>3, <1>6, <3>1
    <3>2. CASE v # w
      <4> DEFINE j == IF k = key THEN i + 1 ELSE i
      <4>1. j \in DOMAIN queue[k] /\ queue'[k][i] = queue[k][j]
        BY <1>4
      <4> HIDE DEF j
      <4> QED BY <1>0, <1>3, <3>2, <4>1 DEF OneHolder
    <3> QED BY <3>1, <3>2
  <2> QED BY <2>1, <2>2, <2>3 DEF OneHolder
<1>9. ASSUME NEW e \in Drivers PROVE Held(e)' <=> Held(e)
  <2>1. CASE e = d
    <3>1. worker'[w] = e /\ 1 \in DOMAIN queue[key] /\ queue[key][1] = e
      BY <1>2, <1>3, <2>1
    <3> QED BY <1>1, <3>1 DEF Held
  <2>2. CASE e # d
    <3>1. ASSUME Held(e) PROVE Held(e)'
      <4>1. CASE \E v \in Threads : worker[v] = e
        <5>1. PICK v \in Threads : worker[v] = e
          BY <4>1
        <5>2. v # w
          BY <1>1, <5>1 DEF TaskAssumption
        <5> QED BY <1>3, <5>1, <5>2 DEF Held
      <4>2. CASE \E k \in Keys : \E i \in DOMAIN queue[k] : queue[k][i] = e
        <5>0. PICK k \in Keys : \E i \in DOMAIN queue[k] : queue[k][i] = e
          BY <4>2
        <5>1. PICK i \in DOMAIN queue[k] : queue[k][i] = e
          BY <5>0
        <5>2. \E j \in DOMAIN queue'[k] : queue'[k][j] = e
          <6>1. CASE k = key
            <7>1. i \in 1 .. n /\ i # 1
              BY <1>2, <2>2, <5>1, <6>1
            <7>2. i - 1 \in 1 .. n - 1 /\ (i - 1) + 1 = i
              BY <1>2, <7>1
            <7>3. Tail(queue[key])[i - 1] = e /\ i - 1 \in DOMAIN Tail(queue[key])
              BY <1>2, <5>1, <6>1, <7>2
            <7> QED BY <1>3, <6>1, <7>3
          <6>2. CASE k # key
            BY <1>3, <5>1, <6>2
          <6> QED BY <6>1, <6>2
        <5> QED BY <5>2 DEF Held
      <4> QED BY <3>1, <4>1, <4>2 DEF Held
    <3>2. ASSUME Held(e)' PROVE Held(e)
      <4>1. CASE \E v \in Threads : worker'[v] = e
        <5>1. PICK v \in Threads : worker'[v] = e
          BY <4>1
        <5> QED BY <1>3, <2>2, <5>1 DEF Held
      <4>2. CASE \E k \in Keys : \E i \in DOMAIN queue'[k] : queue'[k][i] = e
        <5>0. PICK k \in Keys : \E i \in DOMAIN queue'[k] : queue'[k][i] = e
          BY <4>2
        <5>1. PICK i \in DOMAIN queue'[k] : queue'[k][i] = e
          BY <5>0
        <5> DEFINE j == IF k = key THEN i + 1 ELSE i
        <5>2. j \in DOMAIN queue[k] /\ queue[k][j] = e
          BY <1>4, <5>1
        <5> HIDE DEF j
        <5> QED BY <5>2 DEF Held
      <4> QED BY <3>2, <4>1, <4>2 DEF Held
    <3> QED BY <3>1, <3>2
  <2> QED BY <2>1, <2>2
<1>10. WaitHeld'
  BY <1>0, <1>1, <1>9 DEF WaitHeld
<1>11. (\A e \in Drivers : RunInv(run'[e])) /\ run' \in [Drivers -> Runs]
  BY <1>0, <1>1, SMTT(60)
<1> QED BY <1>5, <1>8, <1>10, <1>11 DEF TaskIInv, RunInv, InOrder, Walking, Chained, Open, Wanted

\* A worker has run the work of a node and signals its driver.
LEMMA SignalInv ==
    ASSUME TaskAssumption, TaskIInv, NEW w \in Threads, Signal(w)
    PROVE  TaskIInv'
<1>0. /\ run \in [Drivers -> Runs] /\ \A e \in Drivers : RunInv(run[e])
      /\ QueueOK /\ OneHolder /\ WaitHeld
  BY DEF TaskIInv
<1>a. PICK d \in Drivers : d = worker[w]
  BY DEF Signal
<1>1. /\ worker' = [worker EXCEPT ![w] = Idle] /\ UNCHANGED <<queue, pools, mapped>>
      /\ worker \in [Threads -> Drivers \cup {Idle, Gone}]
  BY <1>0 DEF Signal, QueueOK
<1>2. run[d].pc = "wait"
  BY <1>0, <1>a, SMTT(60) DEF WaitHeld, Held
<1>3. PICK pc \in {"returned", "failed"} :
        run' = [run EXCEPT ![d].pc = pc, ![d].frames = @ - 1, ![d].ran = Append(@, Top(d).node),
                           ![d].done = IF pc = "returned" THEN @ \cup {Top(d).node} ELSE @]
  BY <1>a DEF Signal
<1> DEFINE node == Last(run[d].stack).node
           q == [run[d] EXCEPT !.pc = pc, !.frames = @ - 1, !.ran = Append(@, node),
                               !.done = IF pc = "returned" THEN @ \cup {node} ELSE @]
<1>4. run' = [run EXCEPT ![d] = q]
  BY <1>0, <1>1, <1>3 DEF Top
<1>5. RunInv(q)
  BY <1>0, <1>1, <1>2, SignalledRun
<1>6. q.pc = pc
  BY <1>0, <1>1 DEF Runs
<1> HIDE DEF q
<1>7. run' \in [Drivers -> Runs] /\ \A e \in Drivers : RunInv(run'[e])
  BY <1>0, <1>4, <1>5 DEF RunInv
<1>8. /\ worker' \in [Threads -> Drivers \cup {Idle, Gone}] /\ worker'[w] = Idle
      /\ \A v \in Threads : v # w => worker'[v] = worker[v]
  BY <1>1
<1>9. QueueOK'
  BY <1>0, <1>1, <1>8 DEF QueueOK
<1>10. Idle \notin Drivers
  BY DEF TaskAssumption
<1>11. OneHolder'
  <2>1. ASSUME NEW u \in Threads, NEW v \in Threads, worker'[u] = worker'[v], worker'[u] \in Drivers
        PROVE  u = v
    BY <1>0, <1>8, <1>10, <2>1 DEF OneHolder
  <2>2. ASSUME NEW v \in Threads, NEW k \in Keys, NEW i \in DOMAIN queue[k] PROVE worker'[v] # queue[k][i]
    <3>1. queue[k][i] \in Drivers
      BY <1>0, <2>2 DEF QueueOK
    <3> QED BY <1>0, <1>8, <1>10, <3>1 DEF OneHolder
  <2> QED BY <1>0, <1>1, <2>1, <2>2 DEF OneHolder
<1>12. ~Held(d)'
  <2>1. \A v \in Threads : worker'[v] # d
    BY <1>0, <1>8, <1>10, <1>a DEF OneHolder
  <2>2. \A k \in Keys : \A i \in DOMAIN queue[k] : queue[k][i] # d
    BY <1>0, <1>a DEF OneHolder
  <2> QED BY <1>1, <2>1, <2>2 DEF Held
<1>13. ASSUME NEW e \in Drivers, e # d PROVE Held(e)' <=> Held(e)
  <2>1. \A v \in Threads : worker'[v] = e <=> worker[v] = e
    BY <1>8, <1>10, <1>13, <1>a
  <2> QED BY <1>1, <2>1 DEF Held
<1>14. WaitHeld'
  <2>1. \A e \in Drivers : run'[e].pc = IF e = d THEN pc ELSE run[e].pc
    BY <1>0, <1>4, <1>6, SMTT(60)
  <2> QED BY <1>0, <1>12, <1>13, <2>1 DEF WaitHeld
<1> QED BY <1>7, <1>9, <1>11, <1>14 DEF TaskIInv, RunInv, InOrder, Walking, Chained, Open, Wanted

\* A worker leaves: it holds no frame.
LEMMA LeaveInv ==
    ASSUME TaskAssumption, TaskIInv, NEW w \in Threads, Leave(w)
    PROVE  TaskIInv'
<1>0. /\ run \in [Drivers -> Runs] /\ \A e \in Drivers : RunInv(run[e])
      /\ QueueOK /\ OneHolder /\ WaitHeld
  BY DEF TaskIInv
<1>1. /\ worker[w] = Idle /\ worker' = [worker EXCEPT ![w] = Gone] /\ UNCHANGED <<run, queue, pools, mapped>>
      /\ worker \in [Threads -> Drivers \cup {Idle, Gone}]
  BY <1>0 DEF Leave, QueueOK
<1>2. Idle \notin Drivers /\ Gone \notin Drivers
  BY DEF TaskAssumption
<1>3. /\ worker' \in [Threads -> Drivers \cup {Idle, Gone}]
      /\ \A e \in Drivers, v \in Threads : worker'[v] = e <=> worker[v] = e
  BY <1>1, <1>2
<1>4. QueueOK'
  BY <1>0, <1>1, <1>3 DEF QueueOK
<1>5. OneHolder'
  <2>1. \A v \in Threads, k \in Keys : \A i \in DOMAIN queue[k] : worker'[v] # queue[k][i]
    BY <1>0, <1>3 DEF OneHolder, QueueOK
  <2>2. \A u, v \in Threads : worker'[u] = worker'[v] /\ worker'[u] \in Drivers => u = v
    BY <1>0, <1>3 DEF OneHolder
  <2> QED BY <1>0, <1>1, <2>1, <2>2 DEF OneHolder
<1>6. \A e \in Drivers : Held(e)' <=> Held(e)
  BY <1>1, <1>3 DEF Held
<1>7. WaitHeld'
  BY <1>0, <1>1, <1>6 DEF WaitHeld
<1>8. (\A e \in Drivers : RunInv(run'[e])) /\ run' \in [Drivers -> Runs]
  BY <1>0, <1>1, SMTT(60)
<1> QED BY <1>4, <1>5, <1>7, <1>8 DEF TaskIInv, RunInv, InOrder, Walking, Chained, Open, Wanted

\* The pools and what leads to them: no run and no queue changes.
LEMMA PoolsInv ==
    ASSUME TaskIInv, UNCHANGED <<run, queue, worker>>, mapped' \subseteq pools'
    PROVE  TaskIInv'
<1>0. /\ run \in [Drivers -> Runs] /\ \A e \in Drivers : RunInv(run[e])
      /\ QueueOK /\ OneHolder /\ WaitHeld
  BY DEF TaskIInv
<1>1. QueueOK' /\ OneHolder'
  BY <1>0 DEF QueueOK, OneHolder
<1>2. WaitHeld'
  BY <1>0 DEF WaitHeld, Held
<1>3. (\A e \in Drivers : RunInv(run'[e])) /\ run' \in [Drivers -> Runs]
  BY <1>0
<1> QED BY <1>1, <1>2, <1>3 DEF TaskIInv, RunInv, InOrder, Walking, Chained, Open, Wanted

LEMMA TaskStepInv ==
    ASSUME TaskAssumption, TaskIInv, [TaskNext]_taskVars
    PROVE  TaskIInv'
<1>1. CASE \E keys \in SUBSET Keys \ {{}} : Allocate(keys)
  <2>1. UNCHANGED <<run, queue, worker>> /\ mapped' \subseteq pools'
    BY <1>1 DEF Allocate
  <2> QED BY <2>1, PoolsInv
<1>2. CASE Deallocate
  <2>1. UNCHANGED <<run, queue, worker>> /\ mapped' \subseteq pools'
    BY <1>2 DEF Deallocate
  <2> QED BY <2>1, PoolsInv
<1>3. CASE Cancel \/ Close \/ UNCHANGED taskVars
  <2>1. UNCHANGED <<run, queue, worker>> /\ mapped' \subseteq pools'
    BY <1>3 DEF Cancel, Close, taskVars, TaskIInv, QueueOK
  <2> QED BY <2>1, PoolsInv
<1>4. ASSUME NEW d \in Drivers, Drive(d) PROVE TaskIInv'
  BY <1>4, DriveInv, DispatchInv DEF Drive
<1>5. ASSUME NEW d \in Drivers, NEW job \in Jobs, Start(d, job[1], job[2]) PROVE TaskIInv'
  BY <1>5, StartInv
<1>6. ASSUME NEW w \in Threads, Work(w) \/ Leave(w) PROVE TaskIInv'
  BY <1>6, TakeInv, SignalInv, LeaveInv DEF Work
<1> QED BY <1>1, <1>2, <1>3, <1>4, <1>5, <1>6 DEF TaskNext

LEMMA TaskInitInv ==
    ASSUME TaskAssumption, TaskInit
    PROVE  TaskIInv
<1>1. /\ run = [d \in Drivers |-> NoRun] /\ queue = [k \in Keys |-> <<>>]
      /\ worker = [w \in Threads |-> Idle] /\ mapped = {} /\ pools = {}
  BY DEF TaskInit
<1>2. run \in [Drivers -> Runs] /\ \A d \in Drivers : RunInv(run[d]) /\ run[d].pc = "idle"
  BY <1>1, IdleRun DEF RunInv, NoRun
<1>3. \A k \in Keys : queue[k] = <<>> /\ Len(queue[k]) = 0 /\ DOMAIN queue[k] = {}
  BY <1>1
<1>4. QueueOK
  <2>1. queue \in [Keys -> Seq(Drivers)] /\ worker \in [Threads -> Drivers \cup {Idle, Gone}]
    BY <1>1
  <2> QED BY <1>1, <1>3, <2>1 DEF QueueOK, TaskAssumption
<1>5. \A w \in Threads : worker[w] \notin Drivers
  BY <1>1 DEF TaskAssumption
<1>6. OneHolder
  BY <1>3, <1>5 DEF OneHolder
<1>7. WaitHeld
  BY <1>2, <1>3, <1>5 DEF WaitHeld, Held
<1> QED BY <1>2, <1>4, <1>6, <1>7 DEF TaskIInv

\* A run's frame is in as many places as it has frames: one while it waits, none otherwise.
LEMMA OnePlace ==
    ASSUME TaskAssumption, TaskIInv, NEW d \in Drivers
    PROVE  Places(d) = IF run[d].pc = "wait" THEN 1 ELSE 0
<1> DEFINE workers == {w \in Threads : worker[w] = d}
           queued == {p \in Keys \X (1..Capacity) : p[2] \in DOMAIN queue[p[1]] /\ queue[p[1]][p[2]] = d}
<1>0. QueueOK /\ OneHolder /\ WaitHeld
  BY DEF TaskIInv
<1>1. \A k \in Keys : DOMAIN queue[k] = 1 .. Len(queue[k]) /\ Len(queue[k]) \in Nat /\ Len(queue[k]) <= Capacity
  BY <1>0 DEF QueueOK
<1>2. Places(d) = Cardinality(workers) + Cardinality(queued)
  BY DEF Places
<1>3. CASE run[d].pc # "wait"
  <2>1. ~Held(d)
    BY <1>0, <1>3 DEF WaitHeld
  <2>2. workers = {} /\ queued = {}
    BY <2>1 DEF Held
  <2> HIDE DEF workers, queued
  <2>3. Cardinality(workers) = 0 /\ Cardinality(queued) = 0
    BY <2>2, FS_EmptySet
  <2> QED BY <1>2, <1>3, <2>3
<1>4. CASE run[d].pc = "wait" /\ \E w \in Threads : worker[w] = d
  <2>1. PICK w \in Threads : worker[w] = d
    BY <1>4
  <2>2. workers = {w} /\ queued = {}
    BY <1>0, <2>1 DEF OneHolder
  <2> HIDE DEF workers, queued
  <2>3. Cardinality(workers) = 1 /\ Cardinality(queued) = 0
    BY <2>2, FS_EmptySet, FS_Singleton
  <2> QED BY <1>2, <1>4, <2>3
<1>5. CASE run[d].pc = "wait" /\ \E k \in Keys : \E i \in DOMAIN queue[k] : queue[k][i] = d
  <2>1. PICK k \in Keys : \E i \in DOMAIN queue[k] : queue[k][i] = d
    BY <1>5
  <2>2. PICK i \in DOMAIN queue[k] : queue[k][i] = d
    BY <2>1
  <2>3. workers = {}
    BY <1>0, <2>2 DEF OneHolder
  <2>4. i \in 1 .. Capacity
    BY <1>1 DEF TaskAssumption
  <2>5. \A p \in queued : p = <<k, i>>
    BY <1>0, <2>2 DEF OneHolder
  <2>6. <<k, i>> \in queued
    BY <2>2, <2>4
  <2> HIDE DEF workers, queued
  <2>7. queued = {<<k, i>>}
    BY <2>5, <2>6
  <2>8. Cardinality(workers) = 0 /\ Cardinality(queued) = 1
    BY <2>3, <2>7, FS_EmptySet, FS_Singleton
  <2> QED BY <1>2, <1>5, <2>8
<1> QED BY <1>0, <1>3, <1>4, <1>5 DEF WaitHeld, Held

LEMMA TaskIInvImplies ==
    ASSUME TaskAssumption, TaskIInv
    PROVE  TaskInv
<1>1. \A k \in Keys : Len(queue[k]) <= Capacity
  BY DEF TaskIInv, QueueOK
<1>2. mapped \subseteq pools
  BY DEF TaskIInv, QueueOK
<1>3. ASSUME NEW d \in Drivers
      PROVE  /\ run[d].pc \in {"idle", "walk", "wait", "returned", "failed", "ok"}
             /\ run[d].frames = Places(d) /\ run[d].frames = (IF run[d].pc = "wait" THEN 1 ELSE 0)
             /\ IsInjective(run[d].ran)
             /\ \A i \in DOMAIN run[d].ran :
                  ToSet(run[d].graph.deps[run[d].ran[i]]) \subseteq {run[d].ran[j] : j \in 1..(i - 1)}
             /\ run[d].pc = "ok" => run[d].done = Nodes(d)
  <2>1. RunInv(run[d])
    BY DEF TaskIInv
  <2>2. run[d].frames = (IF run[d].pc = "wait" THEN 1 ELSE 0)
    BY <2>1 DEF RunInv
  <2>3. run[d].frames = Places(d)
    BY <2>2, OnePlace
  <2>4. run[d].pc \in {"idle", "walk", "wait", "returned", "failed", "ok"}
    BY <2>1 DEF RunInv, Runs
  <2>5. IsInjective(run[d].ran) /\ (run[d].pc = "ok" => run[d].done = Nodes(d))
    BY <2>1 DEF RunInv, InOrder, Nodes
  <2>6. DepsFirst(run[d].ran, run[d].graph.deps)
    BY <2>1 DEF RunInv, InOrder
  <2> QED BY <2>2, <2>3, <2>4, <2>5, <2>6 DEF DepsFirst
<1> QED BY <1>1, <1>2, <1>3 DEF TaskInv

\* RunToCompletion (task_graph.h:181, task.h:11-13), however many drivers, pools,
\* threads and places a queue has, and whatever the graphs: a node's work runs once,
\* after all it depends on has succeeded; a complete run has run every node; a waiting
\* run's coroutine frame is in one place, and no queue exceeds its capacity.  A cycle
\* cannot run a node before what it depends on: the walk goes round and runs none.
THEOREM TaskGraphsRun ==
    ASSUME TaskAssumption
    PROVE  TaskInit /\ [][TaskNext]_taskVars => []TaskInv
<1>1. TaskInit => TaskIInv
  BY TaskInitInv
<1>2. TaskIInv /\ [TaskNext]_taskVars => TaskIInv'
  BY TaskStepInv
<1>3. TaskIInv => TaskInv
  BY TaskIInvImplies
<1> QED BY <1>1, <1>2, <1>3, PTL

-----------------------------------------------------------------------------
(* ConfigStore: the last known good tree.                                   *)
CONSTANTS Versions, Valid
VARIABLES file, writing, written, root, loader, watch, parsed, events, stopping

Conf == INSTANCE ConfigStore

\* At least the file there is at first; versions are numbered from 1.
ConfAssumption == Versions \in Nat \ {0} /\ Valid \subseteq 1 .. Versions

ConfIInv == /\ root \in Valid \cup {Conf!None, Conf!Torn} /\ (watch # "off" => root # Conf!None)
            /\ written \in 1 .. Versions
            /\ \/ writing = Conf!None /\ file \in 1 .. Versions
               \/ writing = written + 1 /\ writing <= Versions /\ file = Conf!Torn
            /\ loader \in Valid \cup {Conf!None}
            /\ watch = "store" => parsed \in Valid \cup {Conf!Torn}

\* ConfigStore (config_store_inotify.cpp:77-80), for every number of versions and whichever of
\* them are valid: a tree in use stays one that parsed and passed the schema, whatever
\* is written to the file, or half written, before, during and after a reload.
THEOREM TreeInUseIsGood ==
    ASSUME ConfAssumption
    PROVE  Conf!ConfSpec => []Conf!ConfInv
<1> USE DEF Conf!None, Conf!Torn, ConfAssumption
<1>1. Conf!ConfInit => ConfIInv
  BY DEF Conf!ConfInit, ConfIInv
<1>2. ConfIInv /\ [Conf!ConfNext]_(Conf!confVars) => ConfIInv'
  <2> SUFFICES ASSUME ConfIInv, [Conf!ConfNext]_(Conf!confVars) PROVE ConfIInv'
    OBVIOUS
  <2> USE DEF ConfIInv
  <2>1. CASE Conf!ReplaceFile
    BY <2>1 DEF Conf!ReplaceFile
  <2>2. CASE Conf!OpenFile
    BY <2>2 DEF Conf!OpenFile
  <2>3. CASE Conf!CloseFile
    BY <2>3 DEF Conf!CloseFile
  <2>4. CASE Conf!LoadParse
    BY <2>4 DEF Conf!LoadParse, Conf!Validate
  <2>5. CASE Conf!LoadStore
    BY <2>5 DEF Conf!LoadStore
  <2>6. CASE Conf!EnableHotReload
    BY <2>6 DEF Conf!EnableHotReload
  <2>7. CASE Conf!Poll
    BY <2>7 DEF Conf!Poll
  <2>8. CASE Conf!Parse
    BY <2>8 DEF Conf!Parse, Conf!MayLoad, Conf!Validate
  <2>9. CASE Conf!Store
    BY <2>9 DEF Conf!Store
  <2>10. CASE Conf!Stop
    BY <2>10 DEF Conf!Stop
  <2>11. CASE UNCHANGED Conf!confVars
    BY <2>11 DEF Conf!confVars
  <2> QED BY <2>1, <2>2, <2>3, <2>4, <2>5, <2>6, <2>7, <2>8, <2>9, <2>10, <2>11 DEF Conf!ConfNext, Conf!WatchStep
<1>3. ConfIInv => Conf!ConfInv
  BY DEF ConfIInv, Conf!ConfInv
<1> QED BY <1>1, <1>2, <1>3, PTL DEF Conf!ConfSpec

-----------------------------------------------------------------------------
(* Lifecycle: the plugins' loading and shutdown, the modules' hooks.        *)
CONSTANTS Plugins, Modules, Manifests, MaxLoads
VARIABLES phase, handles, stack, order, loads, loadFailed, stopped, context, modules

Life == INSTANCE Lifecycle

\* A manifest is a plugin's; it lists its dependencies, and a version is a triple of numbers.
SemVers == [1 .. 3 -> Nat]
LifeAssumption ==
  /\ DOMAIN Manifests \subseteq Plugins
  /\ \A p \in DOMAIN Manifests :
       /\ Manifests[p].needs \in Seq(Life!Needs(p)) /\ Manifests[p].version \in SemVers
       /\ \A dep \in Life!Needs(p) : dep.min \in SemVers /\ dep.max \in SemVers

Deps == UNION {Life!Needs(p) : p \in DOMAIN Manifests}
Calls == [plugin : DOMAIN Manifests, todo : Seq(Deps)]
Hooked == [name : Modules, hook : {"none", "initialized", "started", "stopped"}]

PluginType == /\ phase \in [Plugins -> {"absent", "registered", "initialized", "running", "stopped", "destroyed"}]
              /\ Life!Registered \subseteq DOMAIN Manifests
              /\ stack \in Seq(Calls) /\ order \in Seq(DOMAIN Manifests)

\* What a plugin needs is registered, in a version its manifest accepts.
Met(dep) == dep.name \in Life!Registered /\ Life!CheckVersion(dep, Manifests[dep.name].version)

\* A plugin in progress is not registered, it is entered once, and what it needs is met
\* or still to do.
SoundCalls == {f \in Calls : /\ f.plugin \notin Life!Registered
                             /\ Life!ToSet(f.todo) \subseteq Life!Needs(f.plugin)
                             /\ \A dep \in Life!Needs(f.plugin) : dep \in Life!ToSet(f.todo) \/ Met(dep)}
StackInv == /\ \A i \in 1 .. Len(stack) : stack[i] \in SoundCalls
            /\ \A i, j \in 1 .. Len(stack) : stack[i].plugin = stack[j].plugin => i = j

\* A started plugin is registered, started once, and after what it needs.
OrderInv == /\ \A i \in 1 .. Len(order) :
                 /\ order[i] \in Life!Registered
                 /\ \A dep \in Life!Needs(order[i]) :
                      Met(dep) /\ \A j \in 1 .. Len(order) : order[j] = dep.name => j < i
            /\ \A i, j \in 1 .. Len(order) : order[i] = order[j] => i = j
            /\ ~loadFailed => \A p \in Life!Registered : \E i \in 1 .. Len(order) : order[i] = p
\* The plugins stop once, with no load in progress, the last started first.
StoppedInv == stopped # <<>> => stack = <<>> /\ stopped = Life!Reverse(order)

PluginInv == PluginType /\ StackInv /\ OrderInv /\ StoppedInv

ModulesInv == /\ modules \in Seq(Hooked)
              /\ context = "Running" => \A i \in DOMAIN modules : modules[i].hook = "started"
              /\ context = "Stopped" => \A i \in DOMAIN modules : modules[i].hook = "stopped"

\* A sequence's elements are its head and those of its tail.
LEMMA HeadAndRest ==
    ASSUME NEW S, NEW s \in Seq(S), s # <<>>
    PROVE  /\ Tail(s) \in Seq(S) /\ Head(s) \in Life!ToSet(s)
           /\ Life!ToSet(s) = {Head(s)} \cup Life!ToSet(Tail(s))
<1>1. /\ Len(s) \in Nat \ {0} /\ Tail(s) \in Seq(S) /\ Len(Tail(s)) = Len(s) - 1
      /\ \A i \in 1 .. Len(s) - 1 : Tail(s)[i] = s[i + 1]
      /\ Head(s) = s[1] /\ DOMAIN s = 1 .. Len(s) /\ DOMAIN Tail(s) = 1 .. Len(s) - 1
  OBVIOUS
<1>2. ASSUME NEW x \in Life!ToSet(s) PROVE x = Head(s) \/ x \in Life!ToSet(Tail(s))
  <2>1. PICK i \in 1 .. Len(s) : x = s[i]
    BY <1>1, <1>2 DEF Life!ToSet
  <2>2. CASE i # 1
    <3>1. i - 1 \in 1 .. Len(s) - 1 /\ (i - 1) + 1 = i
      BY <1>1, <2>2
    <3>2. Tail(s)[i - 1] = x
      BY <1>1, <2>1, <3>1
    <3> QED BY <1>1, <3>1, <3>2 DEF Life!ToSet
  <2> QED BY <1>1, <2>1, <2>2
<1>3. ASSUME NEW x \in Life!ToSet(Tail(s)) PROVE x \in Life!ToSet(s)
  <2>1. PICK i \in 1 .. Len(s) - 1 : x = Tail(s)[i]
    BY <1>1, <1>3 DEF Life!ToSet
  <2>2. i + 1 \in 1 .. Len(s)
    BY <1>1
  <2> QED BY <1>1, <2>1, <2>2 DEF Life!ToSet
<1>4. Head(s) \in Life!ToSet(s)
  <2>1. 1 \in 1 .. Len(s)
    BY <1>1
  <2> QED BY <1>1, <2>1 DEF Life!ToSet
<1> QED BY <1>1, <1>2, <1>3, <1>4

\* A sequence without its last element.
LEMMA FrontAndLast ==
    ASSUME NEW S, NEW s \in Seq(S), s # <<>>
    PROVE  /\ Len(s) \in Nat \ {0} /\ Life!Last(s) = s[Len(s)] /\ Life!Last(s) \in S
           /\ Life!Front(s) \in Seq(S) /\ Len(Life!Front(s)) = Len(s) - 1
           /\ \A i \in 1 .. Len(s) - 1 : Life!Front(s)[i] = s[i]
<1>1. Len(s) \in Nat \ {0} /\ s[Len(s)] \in S
  OBVIOUS
<1>2. \A i \in 1 .. Len(s) - 1 : s[i] \in S
  BY <1>1
<1>3. /\ SubSeq(s, 1, Len(s) - 1) \in Seq(S)
      /\ Len(SubSeq(s, 1, Len(s) - 1)) = IF 1 <= Len(s) - 1 THEN (Len(s) - 1) - 1 + 1 ELSE 0
      /\ \A i \in 1 .. (Len(s) - 1) - 1 + 1 : SubSeq(s, 1, Len(s) - 1)[i] = s[1 + i - 1]
  <2>1. 1 \in Int /\ Len(s) - 1 \in Int
    BY <1>1
  <2> QED BY <1>2, <2>1, SubSeqProperties
<1>4. (Len(s) - 1) - 1 + 1 = Len(s) - 1 /\ (~(1 <= Len(s) - 1) => Len(s) - 1 = 0)
  BY <1>1, SMTT(60)
<1>5. \A i \in 1 .. Len(s) - 1 : 1 + i - 1 = i
  BY <1>1
<1>6. Len(SubSeq(s, 1, Len(s) - 1)) = Len(s) - 1
  BY <1>3, <1>4
<1>7. \A i \in 1 .. Len(s) - 1 : SubSeq(s, 1, Len(s) - 1)[i] = s[i]
  BY <1>3, <1>4, <1>5
<1> QED BY <1>1, <1>3, <1>6, <1>7 DEF Life!Front, Life!Last

\* A sequence with one element replaced.
LEMMA Replaced ==
    ASSUME NEW S, NEW s \in Seq(S), NEW n \in 1 .. Len(s), NEW x \in S
    PROVE  /\ [s EXCEPT ![n] = x] \in Seq(S) /\ Len([s EXCEPT ![n] = x]) = Len(s)
           /\ [s EXCEPT ![n] = x][n] = x /\ \A i \in 1 .. Len(s) : i # n => [s EXCEPT ![n] = x][i] = s[i]
<1>1. Len(s) \in Nat /\ DOMAIN s = 1 .. Len(s) /\ s \in [1 .. Len(s) -> S]
  OBVIOUS
<1>2. [s EXCEPT ![n] = x] \in [1 .. Len(s) -> S]
  BY <1>1
<1>3. [s EXCEPT ![n] = x] \in Seq(S) /\ Len([s EXCEPT ![n] = x]) = Len(s)
  BY <1>1, <1>2
<1> QED BY <1>1, <1>3

\* What is being entered: all that its plugin needs is to do.
LEMMA CallOf ==
    ASSUME LifeAssumption, NEW p \in DOMAIN Manifests
    PROVE  /\ Life!Call(p) \in Calls /\ Life!Call(p).plugin = p
           /\ Life!ToSet(Life!Call(p).todo) = Life!Needs(p)
<1>1. Manifests[p].needs \in Seq(Life!Needs(p)) /\ Life!Needs(p) \subseteq Deps
  BY DEF LifeAssumption, Deps
<1>2. Manifests[p].needs \in Seq(Deps)
  BY <1>1
<1> QED BY <1>2 DEF Life!Call, Calls, Life!Needs

\* Where the same plugins are registered, the same needs are met; and met they stay.
LEMMA StaysMet ==
    ASSUME Life!Registered \subseteq Life!Registered', NEW dep, Met(dep) PROVE Met(dep)'
BY DEF Met, Life!CheckVersion, Life!Below

\* A failed load: nothing is in progress, and the plugin that failed may be registered.
LEMMA FailedLoad ==
    ASSUME PluginInv, Life!LoadError, order' = order, stopped' = stopped, stack # <<>> \/ stopped = <<>>,
           Life!Registered \subseteq Life!Registered',
           phase' \in [Plugins -> {"absent", "registered", "initialized", "running", "stopped", "destroyed"}],
           Life!Registered' \subseteq DOMAIN Manifests
    PROVE  PluginInv'
<1>1. stack' = <<>> /\ loadFailed' = TRUE
  BY DEF Life!LoadError
<1>2. stack' \in Seq(Calls) /\ Len(stack') = 0
  BY <1>1
<1>3. PluginType'
  BY <1>2 DEF PluginInv, PluginType
<1>4. StackInv'
  BY <1>2 DEF StackInv
<1>5. OrderInv'
  <2>1. \A i \in 1 .. Len(order) : \A dep \in Life!Needs(order[i]) : Met(dep)'
    BY StaysMet DEF PluginInv, OrderInv
  <2>2. \A i \in 1 .. Len(order) : order[i] \in Life!Registered'
    BY DEF PluginInv, OrderInv
  <2> QED BY <1>1, <2>1, <2>2 DEF PluginInv, OrderInv, Life!Needs
<1>6. StoppedInv'
  BY <1>1 DEF PluginInv, StoppedInv
<1> QED BY <1>3, <1>4, <1>5, <1>6 DEF PluginInv

\* The same plugins stay registered, and none is entered or left.
LEMMA SamePlugins ==
    ASSUME PluginInv, UNCHANGED <<stack, order, loadFailed>>, Life!Registered' = Life!Registered,
           phase' \in [Plugins -> {"absent", "registered", "initialized", "running", "stopped", "destroyed"}],
           StoppedInv'
    PROVE  PluginInv'
<1>1. \A dep : Met(dep)' <=> Met(dep)
  BY DEF Met, Life!CheckVersion, Life!Below
<1>2. PluginType'
  BY DEF PluginInv, PluginType
<1>3. SoundCalls' = SoundCalls
  BY <1>1 DEF SoundCalls, Life!Needs, Life!ToSet
<1>4. StackInv'
  BY <1>3 DEF PluginInv, StackInv
<1>5. OrderInv'
  BY <1>1 DEF PluginInv, OrderInv, Life!Needs
<1> QED BY <1>2, <1>4, <1>5 DEF PluginInv

\* A plugin is entered: it is not in progress and not registered.
LEMMA Entered ==
    ASSUME LifeAssumption, PluginInv, NEW p \in DOMAIN Manifests, p \notin Life!Registered,
           \A i \in 1 .. Len(stack) : stack[i].plugin # p, stopped = <<>>,
           stack' = Append(stack, Life!Call(p)), UNCHANGED <<phase, order, loadFailed, stopped>>
    PROVE  PluginInv'
<1> DEFINE c == Life!Call(p)
           n == Len(stack)
<1>1. c \in Calls /\ c.plugin = p /\ Life!ToSet(c.todo) = Life!Needs(p)
  BY CallOf
<1> HIDE DEF c
<1>2. stack \in Seq(Calls) /\ n \in Nat
  BY DEF PluginInv, PluginType
<1>3. /\ stack' \in Seq(Calls) /\ Len(stack') = n + 1 /\ stack'[n + 1] = c
      /\ \A i \in 1 .. n : stack'[i] = stack[i]
  BY <1>1, <1>2 DEF c
<1> HIDE DEF n
<1>4. Life!Registered' = Life!Registered
  BY DEF Life!Registered
<1>5. \A dep : Met(dep)' <=> Met(dep)
  BY <1>4 DEF Met, Life!CheckVersion, Life!Below
<1>6. SoundCalls' = SoundCalls
  BY <1>4, <1>5 DEF SoundCalls, Life!Needs, Life!ToSet
<1>7. PluginType'
  BY <1>3, <1>4 DEF PluginInv, PluginType
<1>8. c \in SoundCalls
  BY <1>1 DEF SoundCalls
<1>9. \A i \in 1 .. n : stack[i] \in SoundCalls
  BY DEF PluginInv, StackInv, n
<1>10. \A i \in 1 .. n + 1 : i = n + 1 \/ i \in 1 .. n
  BY <1>2
<1>11. \A i \in 1 .. n + 1 : stack'[i] \in SoundCalls'
  BY <1>3, <1>6, <1>8, <1>9, <1>10
<1>12. \A i, j \in 1 .. n + 1 : stack'[i].plugin = stack'[j].plugin => i = j
  <2>1. \A i \in 1 .. n : stack[i].plugin # p
    BY DEF n
  <2>2. \A i, j \in 1 .. n : stack[i].plugin = stack[j].plugin => i = j
    BY DEF PluginInv, StackInv, n
  <2> QED BY <1>1, <1>3, <1>10, <2>1, <2>2
<1>13. StackInv'
  BY <1>3, <1>11, <1>12 DEF StackInv
<1>14. OrderInv' /\ StoppedInv'
  BY <1>4, <1>5 DEF PluginInv, OrderInv, StoppedInv, Life!Needs
<1> QED BY <1>7, <1>13, <1>14 DEF PluginInv

\* The next need of the last plugin entered is met.
LEMMA Resolved ==
    ASSUME PluginInv, stack # <<>>, Life!Last(stack).todo # <<>>, Met(Head(Life!Last(stack).todo)),
           stack' = [stack EXCEPT ![Len(stack)].todo = Tail(@)], UNCHANGED <<phase, order, loadFailed, stopped>>
    PROVE  PluginInv'
<1> DEFINE n == Len(stack)
           f == stack[n]
           g == [f EXCEPT !.todo = Tail(f.todo)]
<1>1. stack \in Seq(Calls) /\ n \in Nat \ {0} /\ f \in Calls /\ Life!Last(stack) = f
  BY FrontAndLast, ZenonT(60) DEF PluginInv, PluginType
<1>2. f.todo \in Seq(Deps) /\ f.todo # <<>> /\ Met(Head(f.todo))
  BY <1>1 DEF Calls
<1>3. /\ Tail(f.todo) \in Seq(Deps)
      /\ Life!ToSet(f.todo) = {Head(f.todo)} \cup Life!ToSet(Tail(f.todo))
  BY <1>2, HeadAndRest
<1>4. stack' = [stack EXCEPT ![n] = g]
  OBVIOUS
<1> HIDE DEF n
<1>5. g \in Calls /\ g.plugin = f.plugin /\ g.todo = Tail(f.todo)
  BY <1>1, <1>3 DEF Calls
<1> HIDE DEF f, g
<1>6. /\ stack' \in Seq(Calls) /\ Len(stack') = n /\ stack'[n] = g
      /\ \A i \in 1 .. n : i # n => stack'[i] = stack[i]
  <2>1. Len(stack) = n /\ n \in 1 .. Len(stack)
    BY <1>1 DEF n
  <2>2. /\ stack' \in Seq(Calls) /\ Len(stack') = Len(stack) /\ stack'[n] = g
        /\ \A i \in 1 .. Len(stack) : i # n => stack'[i] = stack[i]
    <3>1. stack \in Seq(Calls) /\ g \in Calls /\ n \in 1 .. Len(stack)
      BY <1>1, <1>5, <2>1
    <3>2. /\ [stack EXCEPT ![n] = g] \in Seq(Calls) /\ Len([stack EXCEPT ![n] = g]) = Len(stack)
          /\ [stack EXCEPT ![n] = g][n] = g
          /\ \A i \in 1 .. Len(stack) : i # n => [stack EXCEPT ![n] = g][i] = stack[i]
      BY <3>1, Replaced
    <3> QED BY <1>4, <3>2
  <2> QED BY <2>1, <2>2
<1>7. Life!Registered' = Life!Registered
  BY DEF Life!Registered
<1>8. \A dep : Met(dep)' <=> Met(dep)
  BY <1>7 DEF Met, Life!CheckVersion, Life!Below
<1>9. SoundCalls' = SoundCalls
  BY <1>7, <1>8 DEF SoundCalls, Life!Needs, Life!ToSet
<1>10. PluginType'
  BY <1>6, <1>7 DEF PluginInv, PluginType
<1>11. \A i \in 1 .. n : stack[i] \in SoundCalls
  BY DEF PluginInv, StackInv, n
<1>12. g \in SoundCalls
  <2>1. n \in 1 .. n
    BY <1>1
  <2>2. f \in SoundCalls
    BY <1>11, <2>1 DEF f
  <2> QED BY <1>2, <1>3, <1>5, <2>2 DEF SoundCalls
<1>13. \A i \in 1 .. n : stack'[i] \in SoundCalls'
  <2> SUFFICES ASSUME NEW i \in 1 .. n PROVE stack'[i] \in SoundCalls
    BY <1>9
  <2>1. CASE i = n
    BY <1>6, <1>12, <2>1
  <2>2. CASE i # n
    BY <1>6, <1>11, <2>2
  <2> QED BY <2>1, <2>2
<1>14. \A i \in 1 .. n : stack'[i].plugin = stack[i].plugin
  BY <1>5, <1>6 DEF f
<1>15. \A i, j \in 1 .. n : stack'[i].plugin = stack'[j].plugin => i = j
  <2>1. \A i, j \in 1 .. n : stack[i].plugin = stack[j].plugin => i = j
    BY DEF PluginInv, StackInv, n
  <2> QED BY <1>14, <2>1
<1>16. StackInv'
  BY <1>6, <1>13, <1>15 DEF StackInv
<1>17. stack' # <<>>
  BY <1>1, <1>6
<1>18. OrderInv' /\ StoppedInv'
  BY <1>7, <1>8 DEF PluginInv, OrderInv, StoppedInv, Life!Needs
<1> QED BY <1>10, <1>16, <1>18 DEF PluginInv

\* The last plugin entered is started, with all that it needs met.
LEMMA Started ==
    ASSUME PluginInv, stack # <<>>, Life!Last(stack).todo = <<>>,
           phase' = [phase EXCEPT ![Life!Last(stack).plugin] = "running"],
           order' = Append(order, Life!Last(stack).plugin), stack' = Life!Front(stack),
           UNCHANGED <<loadFailed, stopped>>, LifeAssumption
    PROVE  PluginInv'
<1> DEFINE n == Len(stack)
           f == stack[n]
           p == f.plugin
           k == Len(order)
<1>1. /\ stack \in Seq(Calls) /\ n \in Nat \ {0} /\ Life!Last(stack) = f /\ f \in Calls
      /\ Life!Front(stack) \in Seq(Calls) /\ Len(Life!Front(stack)) = n - 1
      /\ \A i \in 1 .. n - 1 : Life!Front(stack)[i] = stack[i]
  BY FrontAndLast, ZenonT(60) DEF PluginInv, PluginType
<1>2. p \in DOMAIN Manifests /\ p \in Plugins /\ f.todo = <<>>
  BY <1>1 DEF Calls, LifeAssumption
<1>3. n \in 1 .. n
  BY <1>1
<1> HIDE DEF n
<1>4. \A i \in 1 .. n : stack[i] \in SoundCalls
  BY DEF PluginInv, StackInv, n
<1>5. p \notin Life!Registered /\ \A dep \in Life!Needs(p) : Met(dep)
  BY <1>2, <1>3, <1>4 DEF SoundCalls, Life!ToSet
<1>6. \A i, j \in 1 .. n : stack[i].plugin = stack[j].plugin => i = j
  BY DEF PluginInv, StackInv, n
<1>7. \A i \in 1 .. n - 1 : stack[i].plugin # p
  <2> SUFFICES ASSUME NEW i \in 1 .. n - 1, stack[i].plugin = p PROVE FALSE
    OBVIOUS
  <2>1. i \in 1 .. n /\ i # n
    BY <1>1
  <2> QED BY <1>3, <1>6, <2>1
<1> HIDE DEF f, p
<1>8. phase' = [phase EXCEPT ![p] = "running"] /\ order' = Append(order, p)
  BY <1>1 DEF p
<1>9. Life!Registered' = Life!Registered \cup {p}
  BY <1>2, <1>8 DEF Life!Registered, PluginInv, PluginType
<1>10. \A dep : Met(dep) => Met(dep)'
  BY <1>9, StaysMet
<1>11. order \in Seq(DOMAIN Manifests) /\ k \in Nat
  BY DEF PluginInv, PluginType
<1>12. /\ order' \in Seq(DOMAIN Manifests) /\ Len(order') = k + 1 /\ order'[k + 1] = p
       /\ \A i \in 1 .. k : order'[i] = order[i]
  BY <1>2, <1>8, <1>11
<1> HIDE DEF k
<1>13. PluginType'
  BY <1>1, <1>2, <1>8, <1>9, <1>12 DEF PluginInv, PluginType
<1>14. StackInv'
  <2>1. stack' = Life!Front(stack) /\ Len(stack') = n - 1
    BY <1>1
  <2>2. \A i \in 1 .. n - 1 : stack'[i] = stack[i] /\ i \in 1 .. n
    BY <1>1, <2>1
  <2>3. \A i \in 1 .. n - 1 : stack[i] \in SoundCalls'
    BY <1>4, <1>7, <1>9, <1>10, <2>2 DEF SoundCalls, Life!Needs, Life!ToSet
  <2>4. \A i \in 1 .. n - 1 : stack'[i] \in SoundCalls'
    BY <2>2, <2>3
  <2>5. \A i, j \in 1 .. n - 1 : stack'[i].plugin = stack'[j].plugin => i = j
    BY <1>6, <2>2
  <2> QED BY <2>1, <2>4, <2>5 DEF StackInv
<1>15. /\ \A i \in 1 .. k : order[i] \in Life!Registered
       /\ \A i \in 1 .. k : \A dep \in Life!Needs(order[i]) :
            Met(dep) /\ \A j \in 1 .. k : order[j] = dep.name => j < i
       /\ \A i, j \in 1 .. k : order[i] = order[j] => i = j
       /\ ~loadFailed => \A q \in Life!Registered : \E i \in 1 .. k : order[i] = q
  BY DEF PluginInv, OrderInv, k
<1>16. \A i \in 1 .. k + 1 : i = k + 1 \/ (i \in 1 .. k /\ i < k + 1)
  BY <1>11
<1>17. OrderInv'
  <2>1. \A i \in 1 .. k + 1 : order'[i] \in Life!Registered'
    BY <1>9, <1>12, <1>15, <1>16
  <2>2. \A i \in 1 .. k + 1 : \A dep \in Life!Needs(order'[i]) : Met(dep)'
    BY <1>5, <1>10, <1>12, <1>15, <1>16
  <2>3. ASSUME NEW i \in 1 .. k + 1, NEW dep \in Life!Needs(order'[i]), NEW j \in 1 .. k + 1, order'[j] = dep.name
        PROVE  j < i
    <3>1. dep.name \in Life!Registered
      BY <1>5, <1>12, <1>15, <1>16 DEF Met
    <3>2. j \in 1 .. k /\ order[j] = dep.name /\ j < k + 1
      BY <1>5, <1>12, <1>16, <2>3, <3>1
    <3>3. CASE i = k + 1
      BY <3>2, <3>3
    <3>4. CASE i \in 1 .. k
      BY <1>12, <1>15, <3>2, <3>4
    <3> QED BY <1>16, <3>3, <3>4
  <2>4. \A i, j \in 1 .. k + 1 : order'[i] = order'[j] => i = j
    BY <1>5, <1>12, <1>15, <1>16
  <2>5. ~loadFailed => \A q \in Life!Registered' : \E i \in 1 .. k + 1 : order'[i] = q
    <3>1. k + 1 \in 1 .. k + 1 /\ \A i \in 1 .. k : i \in 1 .. k + 1
      BY <1>11
    <3> QED BY <1>9, <1>12, <1>15, <3>1
  <2> QED BY <1>12, <2>1, <2>2, <2>3, <2>4, <2>5, SMTT(60) DEF OrderInv, Life!Needs
<1>18. StoppedInv'
  BY DEF PluginInv, StoppedInv
<1> QED BY <1>13, <1>14, <1>17, <1>18 DEF PluginInv

Phases == {"absent", "registered", "initialized", "running", "stopped", "destroyed"}

LEMMA LoadInv ==
    ASSUME LifeAssumption, PluginInv, NEW p \in Plugins, Life!Load(p) PROVE PluginInv'
<1>1. stack = <<>> /\ stopped = <<>> /\ UNCHANGED <<phase, order, stopped>> /\ Len(stack) = 0
  BY DEF Life!Load
<1>2. Life!Registered' = Life!Registered /\ phase' \in [Plugins -> Phases] /\ Life!Registered \subseteq DOMAIN Manifests
  BY <1>1 DEF Life!Registered, PluginInv, PluginType, Phases
<1>3. CASE UNCHANGED <<stack, loadFailed>>
  BY <1>1, <1>2, <1>3, SamePlugins DEF StoppedInv, Phases
<1>4. CASE p \notin Life!Registered /\ Life!MayEnter(p) /\ stack' = <<Life!Call(p)>> /\ UNCHANGED loadFailed
  <2>1. stack' = Append(stack, Life!Call(p))
    BY <1>1, <1>4
  <2>2. p \in DOMAIN Manifests /\ \A i \in 1 .. Len(stack) : stack[i].plugin # p
    BY <1>1, <1>4 DEF Life!MayEnter
  <2> QED BY <1>1, <1>4, <2>1, <2>2, Entered
<1>5. CASE Life!LoadError
  BY <1>1, <1>2, <1>5, FailedLoad DEF Phases
<1> QED BY <1>3, <1>4, <1>5 DEF Life!Load

LEMMA ResolveNextInv ==
    ASSUME LifeAssumption, PluginInv, Life!ResolveNext PROVE PluginInv'
<1> DEFINE dep == Head(Life!Last(stack).todo)
<1>1. /\ stack # <<>> /\ Life!Last(stack).todo # <<>> /\ UNCHANGED <<phase, order, stopped>>
      /\ stopped = <<>> /\ stack \in Seq(Calls)
  BY DEF Life!ResolveNext, PluginInv, PluginType, StoppedInv
<1>2. Life!Registered' = Life!Registered /\ phase' \in [Plugins -> Phases] /\ Life!Registered \subseteq DOMAIN Manifests
  BY <1>1 DEF Life!Registered, PluginInv, PluginType, Phases
<1>3. CASE Met(dep) /\ stack' = [stack EXCEPT ![Len(stack)].todo = Tail(@)] /\ UNCHANGED loadFailed
  BY <1>1, <1>3, Resolved
<1>4. CASE /\ dep.name \notin Life!Registered /\ Life!MayEnter(dep.name)
           /\ stack' = Append(stack, Life!Call(dep.name)) /\ UNCHANGED loadFailed
  <2>1. \A i \in 1 .. Len(stack) : stack[i].plugin # dep.name
    BY <1>1, <1>4 DEF Life!MayEnter, Life!Visiting
  <2>2. dep.name \in DOMAIN Manifests
    BY <1>4 DEF Life!MayEnter
  <2> HIDE DEF dep
  <2> QED BY <1>1, <1>4, <2>1, <2>2, Entered
<1>5. CASE Life!LoadError
  BY <1>1, <1>2, <1>5, FailedLoad DEF Phases
<1> HIDE DEF dep
<1> QED BY <1>3, <1>4, <1>5 DEF Life!ResolveNext, Met, dep

LEMMA LoadSingleInv ==
    ASSUME LifeAssumption, PluginInv, Life!LoadSingle PROVE PluginInv'
<1> DEFINE p == Life!Last(stack).plugin
<1>1. /\ stack # <<>> /\ Life!Last(stack).todo = <<>> /\ UNCHANGED stopped /\ stack \in Seq(Calls)
      /\ phase \in [Plugins -> Phases] /\ Life!Registered \subseteq DOMAIN Manifests
  BY DEF Life!LoadSingle, PluginInv, PluginType, Phases
<1>2. p \in DOMAIN Manifests
  <2>1. Life!Last(stack) \in Calls
    BY <1>1, FrontAndLast
  <2> QED BY <2>1 DEF Calls
<1> HIDE DEF p
<1>3. CASE Life!LoadError /\ UNCHANGED <<phase, order>>
  <2>1. Life!Registered' = Life!Registered
    BY <1>3 DEF Life!Registered
  <2> QED BY <1>1, <1>3, <2>1, FailedLoad DEF Phases
<1>4. CASE /\ UNCHANGED order /\ Life!LoadError
           /\ \E reached \in {"registered", "initialized"} : phase' = [phase EXCEPT ![p] = reached]
  <2>1. PICK reached \in {"registered", "initialized"} : phase' = [phase EXCEPT ![p] = reached]
    BY <1>4
  <2>2. phase' \in [Plugins -> Phases]
    BY <1>1, <2>1 DEF Phases
  <2>3. Life!Registered \subseteq Life!Registered' /\ Life!Registered' \subseteq Life!Registered \cup {p}
    BY <1>1, <2>1 DEF Life!Registered
  <2> QED BY <1>1, <1>2, <1>4, <2>2, <2>3, FailedLoad DEF Phases
<1>5. CASE /\ phase' = [phase EXCEPT ![p] = "running"] /\ order' = Append(order, p)
           /\ stack' = Life!Front(stack) /\ UNCHANGED loadFailed
  BY <1>1, <1>5, Started DEF p
<1> QED BY <1>3, <1>4, <1>5 DEF Life!LoadSingle, p

LEMMA ShutdownInv ==
    ASSUME LifeAssumption, PluginInv, Life!Shutdown \/ Life!DestroyManager PROVE PluginInv'
<1>1. /\ phase \in [Plugins -> Phases] /\ Life!Registered \subseteq DOMAIN Manifests
      /\ order \in Seq(DOMAIN Manifests) /\ stack = <<>>
      /\ UNCHANGED <<stack, order, loadFailed>>
  BY DEF PluginInv, PluginType, Phases, Life!Shutdown, Life!DestroyManager
<1>2. \A p \in Life!ToSet(order) : p \in Life!Registered
  BY <1>1 DEF PluginInv, OrderInv, Life!ToSet
<1>3. CASE Life!Shutdown
  <2>1. /\ phase' = [p \in Plugins |-> IF p \in Life!ToSet(order) THEN "stopped" ELSE phase[p]]
        /\ stopped' = Life!Reverse(order)
    BY <1>3 DEF Life!Shutdown, Life!ShutdownOrder
  <2>2. phase' \in [Plugins -> Phases] /\ Life!Registered' = Life!Registered
    BY <1>1, <1>2, <2>1 DEF Phases, Life!Registered
  <2>3. StoppedInv'
    BY <1>1, <2>1 DEF StoppedInv, Life!Reverse
  <2> QED BY <1>1, <2>2, <2>3, SamePlugins DEF Phases
<1>4. CASE Life!DestroyManager
  <2>1. /\ phase' = [p \in Plugins |-> IF p \in Life!Registered THEN "destroyed" ELSE phase[p]]
        /\ UNCHANGED stopped
    BY <1>4 DEF Life!DestroyManager
  <2>2. phase' \in [Plugins -> Phases] /\ Life!Registered' = Life!Registered
    BY <1>1, <2>1 DEF Phases, Life!Registered
  <2>3. StoppedInv'
    BY <1>1, <2>1 DEF PluginInv, StoppedInv, Life!Reverse
  <2> QED BY <1>1, <2>2, <2>3, SamePlugins DEF Phases
<1> QED BY <1>3, <1>4

LEMMA HookSet ==
    ASSUME NEW m \in Hooked, NEW hook \in {"none", "initialized", "started", "stopped"}
    PROVE  [m EXCEPT !.hook = hook] \in Hooked /\ [m EXCEPT !.hook = hook].hook = hook
BY DEF Hooked

\* Initialize and Start reach the next state only when every module's hook succeeded.
LEMMA RunHooksInv ==
    ASSUME ModulesInv, NEW hook \in {"initialized", "started"}, NEW next \in {"Initialized", "Running"},
           next = "Running" => hook = "started", context \in {"Created", "Initialized"}, Life!RunHooks(hook, next)
    PROVE  ModulesInv'
<1>1. PICK n \in 0 .. Len(modules) :
        /\ modules' = [i \in DOMAIN modules |-> IF i <= n THEN [modules[i] EXCEPT !.hook = hook] ELSE modules[i]]
        /\ context' = IF n = Len(modules) THEN next ELSE context
  BY DEF Life!RunHooks
<1>2. modules \in Seq(Hooked) /\ Len(modules) \in Nat /\ DOMAIN modules = 1 .. Len(modules)
  BY DEF ModulesInv
<1>3. \A i \in 1 .. Len(modules) : [modules[i] EXCEPT !.hook = hook] \in Hooked /\ modules[i] \in Hooked
  <2>1. \A i \in 1 .. Len(modules) : modules[i] \in Hooked
    BY <1>2
  <2> QED BY <2>1, HookSet
<1>4. modules' \in [1 .. Len(modules) -> Hooked]
  BY <1>1, <1>2, <1>3
<1>5. modules' \in Seq(Hooked) /\ DOMAIN modules' = 1 .. Len(modules)
  BY <1>2, <1>4
<1>6. context' = "Running" => \A i \in 1 .. Len(modules) : modules'[i].hook = "started"
  <2> SUFFICES ASSUME context' = "Running", NEW i \in 1 .. Len(modules) PROVE modules'[i].hook = "started"
    OBVIOUS
  <2>1. n = Len(modules) /\ next = "Running"
    BY <1>1
  <2>2. modules'[i] = [modules[i] EXCEPT !.hook = "started"]
    BY <1>1, <1>2, <2>1
  <2> QED BY <1>3, <2>2 DEF Hooked
<1>7. context' # "Stopped"
  BY <1>1
<1> QED BY <1>5, <1>6, <1>7 DEF ModulesInv

LEMMA ModulesStepInv ==
    ASSUME ModulesInv,
           (\E m \in Modules : Life!RegisterModule(m)) \/ Life!Initialize \/ Life!StartModules \/ Life!StopModules
    PROVE  ModulesInv'
<1>1. CASE \E m \in Modules : Life!RegisterModule(m)
  <2>1. PICK m \in Modules : Life!RegisterModule(m)
    BY <1>1
  <2>2. context' = "Created" /\ modules' = Append(modules, [name |-> m, hook |-> "none"])
    BY <2>1 DEF Life!RegisterModule
  <2>3. [name |-> m, hook |-> "none"] \in Hooked
    BY DEF Hooked
  <2>4. modules' \in Seq(Hooked)
    BY <2>2, <2>3 DEF ModulesInv
  <2> QED BY <2>2, <2>4 DEF ModulesInv
<1>2. CASE Life!Initialize
  BY <1>2, RunHooksInv DEF Life!Initialize
<1>3. CASE Life!StartModules
  BY <1>3, RunHooksInv DEF Life!StartModules
<1>4. CASE Life!StopModules
  <2>1. context' = "Stopped" /\ modules' = [i \in DOMAIN modules |-> [modules[i] EXCEPT !.hook = "stopped"]]
    BY <1>4 DEF Life!StopModules
  <2>2. modules \in Seq(Hooked) /\ Len(modules) \in Nat /\ DOMAIN modules = 1 .. Len(modules)
    BY DEF ModulesInv
  <2>3. \A i \in 1 .. Len(modules) : /\ [modules[i] EXCEPT !.hook = "stopped"] \in Hooked
                                     /\ [modules[i] EXCEPT !.hook = "stopped"].hook = "stopped"
    <3>1. \A i \in 1 .. Len(modules) : modules[i] \in Hooked
      BY <2>2
    <3> QED BY <3>1, HookSet
  <2>4. modules' \in [1 .. Len(modules) -> Hooked]
    BY <2>1, <2>2, <2>3
  <2>5. modules' \in Seq(Hooked)
    BY <2>2, <2>4
  <2> QED BY <2>1, <2>2, <2>3, <2>5 DEF ModulesInv
<1> QED BY <1>1, <1>2, <1>3, <1>4

LEMMA LifeStepInv ==
    ASSUME LifeAssumption, PluginInv, ModulesInv, [Life!LifeNext]_(Life!lifeVars) PROVE PluginInv' /\ ModulesInv'
<1>1. CASE (\E p \in Plugins : Life!Load(p)) \/ Life!ResolveNext \/ Life!LoadSingle \/ Life!Shutdown \/ Life!DestroyManager
  <2>1. PluginInv'
    BY <1>1, LoadInv, ResolveNextInv, LoadSingleInv, ShutdownInv
  <2>2. UNCHANGED <<context, modules>>
    BY <1>1 DEF Life!Load, Life!ResolveNext, Life!LoadSingle, Life!Shutdown, Life!DestroyManager
  <2>3. ModulesInv'
    BY <2>2 DEF ModulesInv
  <2> QED BY <2>1, <2>3
<1>2. CASE (\E m \in Modules : Life!RegisterModule(m)) \/ Life!Initialize \/ Life!StartModules \/ Life!StopModules
  <2>1. ModulesInv'
    BY <1>2, ModulesStepInv
  <2>2. UNCHANGED Life!pluginVars
    BY <1>2 DEF Life!RegisterModule, Life!Initialize, Life!StartModules, Life!StopModules
  <2>3. UNCHANGED <<phase, stack, order, loadFailed, stopped>>
    BY <2>2 DEF Life!pluginVars
  <2>4. Life!Registered' = Life!Registered /\ StoppedInv'
    BY <2>3 DEF Life!Registered, PluginInv, StoppedInv, Life!Reverse
  <2>5. phase' \in [Plugins -> Phases]
    BY <2>3 DEF PluginInv, PluginType, Phases
  <2> QED BY <2>1, <2>3, <2>4, <2>5, SamePlugins DEF Phases
<1>3. CASE UNCHANGED Life!lifeVars
  <2>1. UNCHANGED <<phase, stack, order, loadFailed, stopped, context, modules>>
    BY <1>3 DEF Life!lifeVars
  <2>2. Life!Registered' = Life!Registered /\ StoppedInv' /\ ModulesInv'
    BY <2>1 DEF Life!Registered, PluginInv, StoppedInv, Life!Reverse, ModulesInv
  <2>3. phase' \in [Plugins -> Phases]
    BY <2>1 DEF PluginInv, PluginType, Phases
  <2> QED BY <2>1, <2>2, <2>3, SamePlugins DEF Phases
<1> QED BY <1>1, <1>2, <1>3 DEF Life!LifeNext

LEMMA LifeInitInv ==
    ASSUME LifeAssumption, Life!LifeInit PROVE PluginInv /\ ModulesInv
<1>1. /\ phase = [p \in Plugins |-> "absent"] /\ stack = <<>> /\ order = <<>> /\ stopped = <<>>
      /\ context = "Created" /\ modules = <<>>
  BY DEF Life!LifeInit
<1>2. Life!Registered = {} /\ phase \in [Plugins -> Phases]
  BY <1>1 DEF Life!Registered, Phases
<1>3. PluginType
  BY <1>1, <1>2 DEF PluginType, Phases
<1>4. Len(stack) = 0 /\ Len(order) = 0
  BY <1>1
<1>5. StackInv /\ OrderInv /\ StoppedInv
  BY <1>1, <1>2, <1>4 DEF StackInv, OrderInv, StoppedInv
<1>6. ModulesInv
  BY <1>1 DEF ModulesInv
<1> QED BY <1>3, <1>5, <1>6 DEF PluginInv

LEMMA LifeInvHolds ==
    ASSUME LifeAssumption, PluginInv, ModulesInv PROVE Life!LifeInv
<1>1. stack \in Seq(Calls) /\ order \in Seq(DOMAIN Manifests) /\ Len(stack) \in Nat /\ Len(order) \in Nat
  BY DEF PluginInv, PluginType
<1>2. DOMAIN stack = 1 .. Len(stack) /\ DOMAIN order = 1 .. Len(order)
  BY <1>1
<1>3. Life!Cardinality(Life!Visiting) = Len(stack)
  <2> DEFINE f == [i \in 1 .. Len(stack) |-> stack[i].plugin]
  <2>1. f \in [1 .. Len(stack) -> Life!Visiting] /\ \A q \in Life!Visiting : \E i \in 1 .. Len(stack) : f[i] = q
    BY <1>2 DEF Life!Visiting
  <2>2. \A i, j \in 1 .. Len(stack) : f[i] = f[j] => i = j
    BY DEF PluginInv, StackInv
  <2>3. f \in Bijection(1 .. Len(stack), Life!Visiting)
    BY <2>1, <2>2, Fun_IsBij
  <2>4. ExistsBijection(1 .. Len(stack), Life!Visiting)
    BY <2>3, Fun_ExistsBij
  <2>5. Cardinality(Life!Visiting) = Len(stack)
    BY <1>1, <2>4, FS_CountingElements
  <2>6. Life!Cardinality(Life!Visiting) = Cardinality(Life!Visiting)
    BY DEF Life!Cardinality, Cardinality, Life!IsFiniteSet, IsFiniteSet
  <2> QED BY <2>5, <2>6
<1>4. Life!Visiting \cap Life!Registered = {}
  BY <1>2 DEF Life!Visiting, PluginInv, StackInv, SoundCalls
<1>5. Life!IsInjective(order) /\ Life!ToSet(order) \subseteq Life!Registered
  BY <1>2 DEF Life!IsInjective, Life!ToSet, PluginInv, OrderInv
<1>6. ASSUME NEW p \in Life!ToSet(order), NEW dep \in Life!Needs(p)
      PROVE  LET v == Manifests[dep.name].version IN
             /\ dep.name \in Life!Registered
             /\ v[1] > dep.min[1] \/ (v[1] = dep.min[1] /\ v[2] >= dep.min[2])
             /\ v[1] < dep.max[1] \/ (v[1] = dep.max[1] /\ v[2] < dep.max[2])
             /\ ~loadFailed => Life!Precedes(order, dep.name, p)
  <2>1. PICK i \in 1 .. Len(order) : order[i] = p
    BY <1>2 DEF Life!ToSet
  <2>2. Met(dep) /\ \A j \in 1 .. Len(order) : order[j] = dep.name => j < i
    BY <2>1 DEF PluginInv, OrderInv
  <2>3. ~loadFailed => Life!Precedes(order, dep.name, p)
    BY <1>2, <2>1, <2>2 DEF PluginInv, OrderInv, Met, Life!Precedes
  <2>4. p \in DOMAIN Manifests /\ dep.name \in DOMAIN Manifests
    BY <1>1, <2>1, <2>2 DEF Met, PluginInv, PluginType
  <2> DEFINE v == Manifests[dep.name].version
  <2>5. v \in SemVers /\ dep.min \in SemVers /\ dep.max \in SemVers
    BY <2>4 DEF LifeAssumption
  <2>6. Life!CheckVersion(dep, v)
    BY <2>2 DEF Met
  <2> HIDE DEF v
  <2>7. /\ v[1] \in Nat /\ v[2] \in Nat /\ dep.min[1] \in Nat /\ dep.min[2] \in Nat
        /\ dep.max[1] \in Nat /\ dep.max[2] \in Nat
    BY <2>5, SMTT(60) DEF SemVers
  <2>8. /\ v[1] > dep.min[1] \/ (v[1] = dep.min[1] /\ v[2] >= dep.min[2])
        /\ v[1] < dep.max[1] \/ (v[1] = dep.max[1] /\ v[2] < dep.max[2])
    BY <2>6, <2>7, SMTT(60) DEF Life!CheckVersion, Life!Below
  <2> QED BY <2>2, <2>3, <2>8 DEF Met, v
<1>7. ASSUME NEW p \in Life!ToSet(stopped), NEW q \in Life!ToSet(stopped), NEW dep \in Life!Needs(p), dep.name = q
      PROVE  Life!Precedes(stopped, p, q)
  <2>1. stopped # <<>>
    BY DEF Life!ToSet
  <2>2. stopped = [i \in 1 .. Len(order) |-> order[(Len(order) - i) + 1]] /\ DOMAIN stopped = 1 .. Len(order)
    BY <2>1 DEF PluginInv, StoppedInv, Life!Reverse
  <2>3. PICK i \in 1 .. Len(order) : p = stopped[i]
    BY <2>2 DEF Life!ToSet
  <2>4. PICK j \in 1 .. Len(order) : q = stopped[j]
    BY <2>2 DEF Life!ToSet
  <2>5. /\ (Len(order) - i) + 1 \in 1 .. Len(order) /\ (Len(order) - j) + 1 \in 1 .. Len(order)
        /\ order[(Len(order) - i) + 1] = p /\ order[(Len(order) - j) + 1] = q
    BY <1>1, <2>2, <2>3, <2>4
  <2>6. (Len(order) - j) + 1 < (Len(order) - i) + 1
    BY <1>7, <2>5 DEF PluginInv, OrderInv
  <2>7. i < j
    BY <1>1, <2>6
  <2> QED BY <2>2, <2>3, <2>4, <2>7 DEF Life!Precedes
<1> QED BY <1>3, <1>4, <1>5, <1>6, <1>7 DEF Life!LifeInv, ModulesInv

\* Lifecycle (plugin_manager.cpp:178), for every set of plugins and whatever their manifests
\* need of each other, cycles and missing plugins included: no plugin is entered twice, what
\* a started plugin needs is registered in a version of the range, started before it while
\* no load has failed, and stopped after it.
THEOREM PluginsInOrder ==
    ASSUME LifeAssumption PROVE Life!LifeSpec => []Life!LifeInv
<1>1. Life!LifeInit => PluginInv /\ ModulesInv
  BY LifeInitInv
<1>2. (PluginInv /\ ModulesInv) /\ [Life!LifeNext]_(Life!lifeVars) => (PluginInv /\ ModulesInv)'
  BY LifeStepInv
<1>3. PluginInv /\ ModulesInv => Life!LifeInv
  BY LifeInvHolds
<1> QED BY <1>1, <1>2, <1>3, PTL DEF Life!LifeSpec

-----------------------------------------------------------------------------
(* LogSink: what the files hold, and in which order.                        *)
CONSTANTS MaxSize, MaxFiles, Messages, Days
VARIABLES files, exists, size, day, today, logged, kept

Log == INSTANCE LogSink WITH written <- logged

LogAssumption == MaxSize \in Nat /\ MaxFiles \in Nat

Written == [id : Nat, day : Int]

\* The sums that FileSize makes of a file, one for each of its beginnings.
Sums(s, sum) == /\ sum \in [0 .. Len(s) -> Nat] /\ sum[0] = 0
                /\ \A i \in 1 .. Len(s) : sum[i] = sum[i - 1] + Log!MessageSize(s[i].id)

LEMMA MessageSizes == \A n \in Nat : Log!MessageSize(n) \in Nat
  BY DEF Log!MessageSize

LEMMA FileSizeSums ==
    ASSUME NEW s \in Seq(Written)
    PROVE  \E sum : Sums(s, sum) /\ Log!FileSize(s) = sum[Len(s)]
<1> DEFINE n == Len(s)
           step == [i \in Nat |-> [y \in Nat |-> IF i \in 1 .. n THEN y + Log!MessageSize(s[i].id) ELSE y]]
           Rec(g) == g = [i \in 0 .. n |-> IF i = 0 THEN 0 ELSE g[i - 1] + Log!MessageSize(s[i].id)]
           sum == CHOOSE g : Rec(g)
<1>1. n \in Nat /\ \A i \in 1 .. n : s[i].id \in Nat
  <2>1. \A i \in 1 .. n : s[i] \in Written
    OBVIOUS
  <2> QED BY <2>1 DEF Written
<1>2. \A i \in 1 .. n : Log!MessageSize(s[i].id) \in Nat
  BY <1>1, MessageSizes
<1>3. Log!FileSize(s) = sum[n]
  BY DEF Log!FileSize
<1> HIDE DEF n
<1>4. \A i \in Nat : \A y \in Nat : step[i][y] \in Nat
  BY <1>2
<1>5. \A i \in 1 .. n : \A y \in Nat : step[i][y] = y + Log!MessageSize(s[i].id)
  BY <1>1
<1> HIDE DEF step
<1>6. PICK f : Recurs(f, 0, n, Nat, 0, step)
  <2> DEFINE zero == 0
  <2>1. zero \in Nat /\ n \in Nat /\ zero <= n
    BY <1>1
  <2> HIDE DEF zero, Rec, sum
  <2>2. \E f : Recurs(f, zero, n, Nat, zero, step)
    BY <1>4, <2>1, RecursionDefines, Zenon
  <2> QED BY <2>2 DEF zero
<1>7. f \in [0 .. n -> Nat] /\ f[0] = 0 /\ \A i \in 0 + 1 .. n : f[i] = step[i][f[i - 1]]
  BY <1>6 DEF Recurs
<1>8. Rec(f)
  <2>1. ASSUME NEW i \in 0 .. n, i # 0 PROVE f[i] = f[i - 1] + Log!MessageSize(s[i].id)
    <3>1. i \in 0 + 1 .. n /\ i \in 1 .. n /\ i - 1 \in 0 .. n
      BY <1>1, <2>1
    <3> QED BY <1>5, <1>7, <3>1
  <2> QED BY <1>7, <2>1
<1>9. Rec(sum)
  BY <1>8
<1> HIDE DEF sum
<1>10. sum[0] = 0 /\ \A i \in 1 .. n : sum[i] = sum[i - 1] + Log!MessageSize(s[i].id)
  <2>1. 0 \in 0 .. n /\ \A i \in 1 .. n : i \in 0 .. n /\ i # 0
    BY <1>1
  <2> QED BY <1>9, <2>1
<1>11. \A i \in 0 .. n : sum[i] \in Nat
  <2> DEFINE T == {i \in 0 .. n : sum[i] \in Nat}
  <2>1. 0 \in T
    BY <1>1, <1>10
  <2>2. ASSUME NEW i \in 0 .. n, i + 1 <= n, i \in T PROVE i + 1 \in T
    <3>1. i + 1 \in 0 .. n /\ i + 1 \in 1 .. n /\ (i + 1) - 1 = i
      BY <1>1, <2>2
    <3>2. sum[i + 1] = sum[i] + Log!MessageSize(s[i + 1].id)
      BY <1>10, <3>1
    <3> QED BY <1>2, <2>2, <3>1, <3>2
  <2> HIDE DEF T
  <2>3. \A i \in 0 .. n : i \in T
    <3>1. 0 \in Nat
      OBVIOUS
    <3> QED BY <1>1, <2>1, <2>2, <3>1, StepByStep
  <2> QED BY <2>3 DEF T
<1>12. Sums(s, sum)
  <2>1. sum = [i \in 0 .. n |-> sum[i]]
    BY <1>9
  <2>2. sum \in [0 .. n -> Nat]
    BY <1>11, <2>1
  <2> QED BY <1>10, <2>2 DEF Sums, n
<1> QED BY <1>3, <1>12 DEF n

\* Sums agree on the beginning that two files share.
LEMMA SumsAgree ==
    ASSUME NEW s \in Seq(Written), NEW t \in Seq(Written), Len(s) <= Len(t), \A i \in 1 .. Len(s) : s[i] = t[i],
           NEW a, Sums(s, a), NEW b, Sums(t, b)
    PROVE  a[Len(s)] = b[Len(s)]
<1> DEFINE n == Len(s)
           T == {i \in 0 .. n : a[i] = b[i]}
<1>1. n \in Nat /\ Len(t) \in Nat
  OBVIOUS
<1>2. 0 \in T
  BY <1>1 DEF Sums
<1>3. ASSUME NEW i \in 0 .. n, i + 1 <= n, i \in T PROVE i + 1 \in T
  <2>1. i + 1 \in 0 .. n /\ i + 1 \in 1 .. n /\ i + 1 \in 1 .. Len(t) /\ (i + 1) - 1 = i
    BY <1>1, <1>3
  <2>2. a[i + 1] = a[i] + Log!MessageSize(s[i + 1].id)
    BY <2>1 DEF Sums
  <2>3. b[i + 1] = b[i] + Log!MessageSize(t[i + 1].id)
    BY <2>1 DEF Sums
  <2>4. a[i] = b[i] /\ s[i + 1] = t[i + 1]
    BY <1>3, <2>1
  <2> QED BY <2>1, <2>2, <2>3, <2>4
<1> HIDE DEF T
<1>4. \A i \in 0 .. n : i \in T
  <2>1. 0 \in Nat
    OBVIOUS
  <2> HIDE DEF n
  <2> QED BY <1>1, <1>2, <1>3, <2>1, StepByStep
<1>5. n \in 0 .. n
  BY <1>1
<1> QED BY <1>4, <1>5 DEF T

LEMMA FileSizes ==
    ASSUME NEW s \in Seq(Written)
    PROVE  /\ Log!FileSize(s) \in Nat /\ (s = <<>> => Log!FileSize(s) = 0)
           /\ \A m \in Written : Log!FileSize(Append(s, m)) = Log!FileSize(s) + Log!MessageSize(m.id)
<1>1. PICK a : Sums(s, a) /\ Log!FileSize(s) = a[Len(s)]
  BY FileSizeSums
<1>2. Len(s) \in Nat /\ Len(s) \in 0 .. Len(s)
  OBVIOUS
<1>3. Log!FileSize(s) \in Nat
  BY <1>1, <1>2 DEF Sums
<1>4. s = <<>> => Log!FileSize(s) = 0
  BY <1>1 DEF Sums
<1>5. ASSUME NEW m \in Written PROVE Log!FileSize(Append(s, m)) = Log!FileSize(s) + Log!MessageSize(m.id)
  <2> DEFINE t == Append(s, m)
             n == Len(s)
  <2>1. t \in Seq(Written) /\ Len(t) = n + 1 /\ t[n + 1] = m /\ \A i \in 1 .. n : s[i] = t[i]
    OBVIOUS
  <2> HIDE DEF t
  <2>2. PICK b : Sums(t, b) /\ Log!FileSize(t) = b[Len(t)]
    BY <2>1, FileSizeSums
  <2>3. a[n] = b[n]
    BY <1>1, <1>2, <2>1, <2>2, SumsAgree
  <2>4. n + 1 \in 1 .. Len(t) /\ (n + 1) - 1 = n
    BY <1>2, <2>1
  <2>5. b[n + 1] = b[n] + Log!MessageSize(m.id)
    BY <2>1, <2>2, <2>4 DEF Sums
  <2> QED BY <1>1, <2>1, <2>2, <2>3, <2>5 DEF t
<1> QED BY <1>3, <1>4, <1>5

-----------------------------------------------------------------------------
\* Files in a row, each continuing the numbers of the one before: starts[i] is the
\* number that follows file i.
InARow(ss, starts) ==
  /\ starts \in [0 .. Len(ss) -> Nat]
  /\ \A i \in 1 .. Len(ss) : Len(ss[i]) = starts[i] - starts[i - 1] /\ \A j \in 1 .. Len(ss[i]) : ss[i][j].id = starts[i - 1] + j - 1

LEMMA FlattenedInOrder ==
    ASSUME NEW ss \in Seq(Seq(Written)), Len(ss) # 0, NEW starts, InARow(ss, starts)
    PROVE  LET all == Log!FlattenSeq(ss)
           IN  /\ all \in Seq(Written) /\ Len(all) = starts[Len(ss)] - starts[0]
               /\ \A j \in 1 .. Len(all) : all[j].id = starts[0] + j - 1
<1> DEFINE n == Len(ss)
           D == Seq(Written)
           step == [i \in Nat |-> [y \in D |-> IF i \in 1 .. n THEN y \o ss[i] ELSE y]]
           Rec(g) == g = [i \in 1 .. n |-> IF i = 1 THEN ss[i] ELSE g[i - 1] \o ss[i]]
           joined == CHOOSE g : Rec(g)
<1>1. n \in Nat /\ \A i \in 1 .. n : ss[i] \in D
  OBVIOUS
<1>2. Log!FlattenSeq(ss) = joined[n]
  <2>1. Log!FlattenSeq(ss) = IF n = 0 THEN ss ELSE joined[n]
    BY DEF Log!FlattenSeq
  <2> QED BY <2>1
<1>5. \A y, e \in D : y \o e \in D
  OBVIOUS
<1>a. starts \in [0 .. n -> Nat] /\ \A i \in 1 .. n : Len(ss[i]) = starts[i] - starts[i - 1] /\ \A j \in 1 .. Len(ss[i]) : ss[i][j].id = starts[i - 1] + j - 1
  BY DEF InARow
<1>b. n # 0
  OBVIOUS
<1> HIDE DEF D, n
<1>6. \A i \in Nat : \A y \in D : step[i][y] \in D
  BY <1>1, <1>5
<1>7. \A i \in 1 .. n : \A y \in D : step[i][y] = y \o ss[i]
  BY <1>1, SMTT(60)
<1> HIDE DEF step
<1>8. 1 \in 1 .. n /\ 1 <= n /\ ss[1] \in D
  BY <1>1, <1>b
<1>9. PICK f : Recurs(f, 1, n, D, ss[1], step)
  <2> DEFINE one == 1
             start == ss[1]
  <2>1. one \in Nat /\ n \in Nat /\ one <= n /\ start \in D
    BY <1>1, <1>8
  <2> HIDE DEF one, start, Rec, joined
  <2>2. \E f : Recurs(f, one, n, D, start, step)
    BY <1>6, <2>1, RecursionDefines, Zenon
  <2> QED BY <2>2 DEF one, start
<1>10. f \in [1 .. n -> D] /\ f[1] = ss[1] /\ \A i \in 1 + 1 .. n : f[i] = step[i][f[i - 1]]
  BY <1>9 DEF Recurs
<1>11. Rec(f)
  <2>1. ASSUME NEW i \in 1 .. n, i # 1 PROVE f[i] = f[i - 1] \o ss[i]
    <3>1. i \in 1 + 1 .. n /\ i - 1 \in 1 .. n
      BY <1>1, <2>1
    <3> QED BY <1>7, <1>10, <3>1
  <2> QED BY <1>10, <2>1
<1>12. Rec(joined)
  BY <1>11
<1> HIDE DEF joined
<1> DEFINE Good(i) == /\ joined[i] \in D /\ Len(joined[i]) = starts[i] - starts[0]
                      /\ \A j \in 1 .. Len(joined[i]) : joined[i][j].id = starts[0] + j - 1
           T == {i \in 1 .. n : Good(i)}
<1>13. 1 \in T
  <2>1. joined[1] = ss[1]
    BY <1>8, <1>12
  <2>2. Len(ss[1]) = starts[1] - starts[1 - 1] /\ \A j \in 1 .. Len(ss[1]) : ss[1][j].id = starts[1 - 1] + j - 1
    BY <1>8, <1>a
  <2>3. 1 - 1 = 0
    OBVIOUS
  <2> QED BY <1>8, <2>1, <2>2, <2>3
<1>14. ASSUME NEW i \in 1 .. n, i + 1 <= n, i \in T PROVE i + 1 \in T
  <2> DEFINE a == joined[i]
             b == ss[i + 1]
             c == joined[i + 1]
  <2>1. i + 1 \in 1 .. n /\ i + 1 # 1 /\ (i + 1) - 1 = i
    BY <1>1, <1>14, SMTT(60)
  <2>2. c = a \o b
    BY <1>12, <2>1
  <2>3. a \in D /\ Len(a) = starts[i] - starts[0] /\ \A j \in 1 .. Len(a) : a[j].id = starts[0] + j - 1
    BY <1>14
  <2>4. b \in D /\ Len(b) = starts[i + 1] - starts[i] /\ \A j \in 1 .. Len(b) : b[j].id = starts[i] + j - 1
    BY <1>1, <1>a, <2>1
  <2>5. starts[i] \in Nat /\ starts[i + 1] \in Nat /\ starts[0] \in Nat
    <3>1. i \in 0 .. n /\ i + 1 \in 0 .. n /\ 0 \in 0 .. n
      BY <1>1, <2>1
    <3> QED BY <1>a, <3>1
  <2> HIDE DEF a, b, c
  <2>6. c \in D
    BY <1>5, <2>2, <2>3, <2>4
  <2>c. a \in Seq(Written) /\ b \in Seq(Written)
    BY <2>3, <2>4 DEF D
  <2>7. Len(c) = Len(a) + Len(b) /\ Len(a) \in Nat /\ Len(b) \in Nat
    BY <2>2, <2>c
  <2>8. Len(c) = starts[i + 1] - starts[0]
    BY <2>3, <2>4, <2>5, <2>7, SMTT(60)
  <2>9. ASSUME NEW j \in 1 .. Len(c) PROVE c[j].id = starts[0] + j - 1
    <3>1. CASE j <= Len(a)
      <4>1. j \in 1 .. Len(a) /\ c[j] = a[j]
        BY <2>2, <2>7, <2>c, <3>1
      <4> QED BY <2>3, <4>1
    <3>2. CASE ~(j <= Len(a))
      <4>1. j - Len(a) \in 1 .. Len(b)
        BY <2>7, <3>2
      <4>2. c[j] = b[j - Len(a)]
        BY <2>2, <2>7, <2>c, <3>2
      <4>3. c[j].id = starts[i] + (j - Len(a)) - 1
        BY <2>4, <4>1, <4>2
      <4>4. starts[i] = starts[0] + Len(a)
        BY <2>3, <2>5, <2>7, SMTT(60)
      <4>5. starts[i] + (j - Len(a)) - 1 = starts[0] + j - 1
        BY <2>5, <2>7, <4>4, SMTT(30)
      <4> QED BY <4>3, <4>5
    <3> QED BY <3>1, <3>2
  <2>10. Good(i + 1)
    BY <2>6, <2>8, <2>9 DEF c
  <2> HIDE DEF Good
  <2> QED BY <2>1, <2>10
<1>15. n \in T
  <2> HIDE DEF T
  <2>1. \A i \in 1 .. n : i \in T
    <3>1. 1 \in Nat
      OBVIOUS
    <3> QED BY <1>1, <1>13, <1>14, <3>1, StepByStep
  <2> QED BY <1>1, <1>8, <2>1
<1>16. Good(n)
  BY <1>15
<1> QED BY <1>2, <1>16 DEF D, n

-----------------------------------------------------------------------------
(* The inductive invariant: the files that exist are the first ones, and   *)
(* each holds the numbers that lie between two bounds.                     *)
LogTypes == /\ files \in [Log!Indices -> Seq(Written)] /\ day \in Int /\ today \in Int /\ logged \in Nat /\ kept \in Nat
            /\ \E top \in Log!Indices : exists = 0 .. top
            /\ \A i \in Log!Indices : i \notin exists => files[i] = <<>>

Bounded(e, f, final, first) ==
  /\ e \in [0 .. MaxFiles + 1 -> Nat] /\ e[0] = final + 1 /\ e[MaxFiles + 1] = first
  /\ \A i \in Log!Indices : Len(f[i]) = e[i] - e[i + 1] /\ \A j \in 1 .. Len(f[i]) : f[i][j].id = e[i + 1] + j - 1

Small(f) == \A i \in Log!Indices : Log!FileSize(f[i]) <= MaxSize \/ Len(f[i]) = 1

FilesInv == /\ LogTypes
            /\ \E e : Bounded(e, files, logged, kept)
            /\ size = Log!FileSize(files[0]) /\ Small(files)

LEMMA Bounds ==
    ASSUME NEW e, NEW f, NEW final, NEW first, Bounded(e, f, final, first), LogAssumption
    PROVE  \A i \in Log!Indices : i \in 0 .. MaxFiles + 1 /\ i + 1 \in 0 .. MaxFiles + 1 /\ e[i] \in Nat /\ e[i + 1] \in Nat
<1>1. \A i \in Log!Indices : i \in 0 .. MaxFiles + 1 /\ i + 1 \in 0 .. MaxFiles + 1
  BY DEF LogAssumption, Log!Indices
<1> QED BY <1>1 DEF Bounded

LEMMA NoFiles ==
    ASSUME LogAssumption, Log!LogInit
    PROVE  FilesInv
<1>1. \A i \in Log!Indices : files[i] = <<>> /\ files[i] \in Seq(Written)
  BY DEF Log!LogInit
<1>2. 0 \in Log!Indices
  BY DEF Log!Indices, LogAssumption
<1>3. Log!FileSize(<<>>) = 0
  <2>1. <<>> \in Seq(Written)
    OBVIOUS
  <2> QED BY <2>1, FileSizes
<1>4. LogTypes
  <2>1. files \in [Log!Indices -> Seq(Written)]
    BY <1>1 DEF Log!LogInit
  <2>2. exists = 0 .. 0
    BY DEF Log!LogInit
  <2> QED BY <1>1, <1>2, <2>1, <2>2 DEF LogTypes, Log!LogInit
<1>5. \E e : Bounded(e, files, logged, kept)
  <2> DEFINE e == [i \in 0 .. MaxFiles + 1 |-> 1]
  <2>1. e \in [0 .. MaxFiles + 1 -> Nat] /\ e[0] = 1 /\ e[MaxFiles + 1] = 1 /\ \A i \in Log!Indices : e[i] = 1 /\ e[i + 1] = 1
    BY DEF LogAssumption, Log!Indices
  <2>2. logged = 0 /\ kept = 1
    BY DEF Log!LogInit
  <2> HIDE DEF e
  <2>3. Bounded(e, files, logged, kept)
    <3>1. \A i \in Log!Indices : Len(files[i]) = 0
      BY <1>1
    <3> QED BY <2>1, <2>2, <3>1 DEF Bounded
  <2> QED BY <2>3
<1>6. size = Log!FileSize(files[0]) /\ Small(files)
  BY <1>1, <1>2, <1>3 DEF Log!LogInit, Small, LogAssumption
<1> QED BY <1>4, <1>5, <1>6 DEF FilesInv

LEMMA FilesRotate ==
    ASSUME LogAssumption, LogTypes
    PROVE  LET f == Log!Cascade(files)
           IN  /\ f \in [Log!Indices -> Seq(Written)] /\ f[0] = <<>>
               /\ \A i \in Log!Indices : i # 0 => i - 1 \in Log!Indices /\ f[i] = files[i - 1]
<1> DEFINE f == Log!Cascade(files)
<1>1. PICK top \in Log!Indices : exists = 0 .. top
  BY DEF LogTypes
<1>2. 0 \in Log!Indices /\ \A i \in Log!Indices : i \in Nat /\ (i # 0 => i - 1 \in Log!Indices)
  BY DEF LogAssumption, Log!Indices
<1>3. f = [i \in Log!Indices |-> IF i = 0 THEN <<>> ELSE IF i - 1 \in exists THEN files[i - 1] ELSE IF i \in exists THEN files[i] ELSE <<>>]
  BY DEF Log!Cascade
<1> HIDE DEF f
<1>4. f[0] = <<>>
  BY <1>2, <1>3
<1>5. ASSUME NEW i \in Log!Indices, i # 0 PROVE f[i] = files[i - 1]
  <2>1. CASE i - 1 \in exists
    BY <1>3, <1>5, <2>1
  <2>2. CASE i - 1 \notin exists
    <3>1. i \notin exists
      <4>1. top \in Nat /\ i \in Nat /\ i # 0 /\ i - 1 \notin 0 .. top
        BY <1>1, <1>2, <1>5, <2>2
      <4> QED BY <1>1, <4>1
    <3>2. f[i] = <<>> /\ files[i - 1] = <<>>
      BY <1>2, <1>3, <1>5, <2>2, <3>1 DEF LogTypes
    <3> QED BY <3>2
  <2> QED BY <2>1, <2>2
<1>6. f \in [Log!Indices -> Seq(Written)]
  <2>1. <<>> \in Seq(Written) /\ \A i \in Log!Indices : files[i] \in Seq(Written)
    BY DEF LogTypes
  <2>2. \A i \in Log!Indices : f[i] \in Seq(Written)
    BY <1>2, <1>4, <1>5, <2>1
  <2> QED BY <1>3, <2>2
<1> QED BY <1>2, <1>4, <1>5, <1>6 DEF f

\* What a write leaves, on what the rotation, or no rotation, gives.
LEMMA MessageAppended ==
    ASSUME LogAssumption, logged \in Nat, NEW base \in [Log!Indices -> Seq(Written)], NEW m \in Written, m.id = logged + 1,
           NEW e, NEW first, Bounded(e, base, logged, first), Small(base),
           base[0] = <<>> \/ Log!FileSize(base[0]) + Log!MessageSize(m.id) <= MaxSize
    PROVE  LET f == [base EXCEPT ![0] = Append(@, m)]
           IN  /\ f \in [Log!Indices -> Seq(Written)] /\ \A i \in Log!Indices : i # 0 => f[i] = base[i]
               /\ \E d : Bounded(d, f, logged + 1, first)
               /\ Log!FileSize(f[0]) = Log!FileSize(base[0]) + Log!MessageSize(m.id)
               /\ Small(f)
<1> DEFINE f == [base EXCEPT ![0] = Append(@, m)]
           s == base[0]
           d == [i \in 0 .. MaxFiles + 1 |-> IF i = 0 THEN logged + 2 ELSE e[i]]
<1>1. 0 \in Log!Indices /\ s \in Seq(Written)
  BY DEF LogAssumption, Log!Indices
<1>2. f[0] = Append(s, m) /\ \A i \in Log!Indices : i # 0 => f[i] = base[i]
  BY <1>1
<1>3. f \in [Log!Indices -> Seq(Written)]
  <2>1. Append(s, m) \in Seq(Written)
    BY <1>1
  <2> QED BY <1>1, <2>1
<1> HIDE DEF f, s
<1>4. Log!FileSize(f[0]) = Log!FileSize(s) + Log!MessageSize(m.id)
  BY <1>1, <1>2, FileSizes
<1>5. Small(f)
  <2>1. CASE s = <<>>
    <3>1. Len(f[0]) = 1
      BY <1>2, <2>1
    <3> QED BY <1>2, <3>1 DEF Small
  <2>2. CASE Log!FileSize(s) + Log!MessageSize(m.id) <= MaxSize
    BY <1>2, <1>4, <2>2 DEF Small
  <2> QED BY <2>1, <2>2 DEF s
<1>6. Bounded(d, f, logged + 1, first)
  <2>1. \A i \in Log!Indices : i \in 0 .. MaxFiles + 1 /\ i + 1 \in 0 .. MaxFiles + 1 /\ i + 1 # 0 /\ e[i] \in Nat /\ e[i + 1] \in Nat
    <3>1. \A i \in Log!Indices : i + 1 # 0
      BY DEF LogAssumption, Log!Indices
    <3> QED BY <3>1, Bounds
  <2>2. e \in [0 .. MaxFiles + 1 -> Nat] /\ e[0] = logged + 1 /\ e[MaxFiles + 1] = first
    BY DEF Bounded
  <2>3. d \in [0 .. MaxFiles + 1 -> Nat] /\ d[0] = logged + 2 /\ d[MaxFiles + 1] = first
    BY <2>2 DEF LogAssumption
  <2>4. \A i \in Log!Indices : d[i + 1] = e[i + 1] /\ (i # 0 => d[i] = e[i])
    BY <2>1
  <2> HIDE DEF d
  <2>5. ASSUME NEW i \in Log!Indices
        PROVE  Len(f[i]) = d[i] - d[i + 1] /\ \A j \in 1 .. Len(f[i]) : f[i][j].id = d[i + 1] + j - 1
    <3>1. Len(base[i]) = e[i] - e[i + 1] /\ \A j \in 1 .. Len(base[i]) : base[i][j].id = e[i + 1] + j - 1
      BY DEF Bounded
    <3>2. CASE i # 0
      BY <1>2, <2>4, <3>1, <3>2
    <3>3. CASE i = 0
      <4>1. Len(s) = (logged + 1) - e[1] /\ e[1] \in Nat /\ d[1] = e[1] /\ \A j \in 1 .. Len(s) : s[j].id = e[1] + j - 1
        <5>1. i + 1 = 1
          BY <3>3
        <5> QED BY <2>1, <2>2, <2>4, <3>1, <3>3, <5>1 DEF s
      <4>2. Len(f[0]) = Len(s) + 1 /\ Len(s) \in Nat /\ \A j \in 1 .. Len(s) + 1 : f[0][j] = IF j = Len(s) + 1 THEN m ELSE s[j]
        BY <1>1, <1>2
      <4>3. Len(f[0]) = d[0] - d[1]
        BY <2>3, <4>1, <4>2, SMTT(60)
      <4>4. ASSUME NEW j \in 1 .. Len(f[0]) PROVE f[0][j].id = d[1] + j - 1
        <5>1. j \in 1 .. Len(s) \/ j = Len(s) + 1
          BY <4>2
        <5>2. CASE j = Len(s) + 1
          <6>1. f[0][j].id = logged + 1
            BY <4>2, <5>2
          <6> QED BY <4>1, <4>2, <5>2, <6>1, SMTT(60)
        <5>3. CASE j \in 1 .. Len(s)
          <6>1. j # Len(s) + 1 /\ j \in 1 .. Len(s) + 1
            BY <4>2, <5>3
          <6>2. f[0][j] = s[j]
            BY <4>2, <6>1
          <6> QED BY <4>1, <5>3, <6>2
        <5> QED BY <5>1, <5>2, <5>3
      <4>5. i + 1 = 1
        BY <3>3
      <4> QED BY <3>3, <4>3, <4>4, <4>5
    <3> QED BY <3>2, <3>3
  <2>6. d[0] = (logged + 1) + 1
    BY <2>3
  <2> QED BY <2>3, <2>5, <2>6 DEF Bounded
<1> QED BY <1>2, <1>3, <1>4, <1>5, <1>6 DEF f, s

LEMMA FilesAfterWrite ==
    ASSUME LogAssumption, FilesInv, Log!Write
    PROVE  FilesInv'
<1> DEFINE m == [id |-> logged + 1, day |-> today]
           rotate == day # today \/ size + Log!MessageSize(m.id) > MaxSize
           base == IF rotate THEN Log!Cascade(files) ELSE files
           gone == Log!Dropped
<1>1. /\ logged' = logged + 1 /\ files' = [base EXCEPT ![0] = Append(@, m)]
      /\ size' = Log!MessageSize(m.id) + (IF rotate THEN 0 ELSE size) /\ day' = today /\ today' = today
      /\ exists' = IF rotate THEN {0} \cup {i + 1 : i \in exists \ {MaxFiles}} ELSE exists
      /\ kept' = IF rotate THEN kept + gone ELSE kept
  BY DEF Log!Write
<1>2. LogTypes /\ Small(files) /\ size = Log!FileSize(files[0]) /\ LogAssumption
  BY DEF FilesInv
<1>3. PICK e : Bounded(e, files, logged, kept)
  BY DEF FilesInv
<1>4. m \in Written /\ m.id = logged + 1 /\ Log!MessageSize(m.id) \in Nat /\ logged + 1 \in Nat
  BY <1>2, MessageSizes, SMTT(60) DEF LogTypes, Written
<1>5. 0 \in Log!Indices /\ MaxFiles \in Log!Indices /\ \A i \in Log!Indices : i \in Nat /\ i <= MaxFiles
  BY <1>2 DEF LogAssumption, Log!Indices
<1>6. files \in [Log!Indices -> Seq(Written)] /\ size \in Nat /\ logged \in Nat
  <2>1. files[0] \in Seq(Written) /\ files \in [Log!Indices -> Seq(Written)] /\ logged \in Nat
    BY <1>2, <1>5 DEF LogTypes
  <2> QED BY <1>2, <2>1, FileSizes
<1>7. PICK top \in Log!Indices : exists = 0 .. top
  BY <1>2 DEF LogTypes
<1> HIDE DEF m, gone
<1>8. CASE ~rotate
  <2>1. base = files /\ size + Log!MessageSize(m.id) <= MaxSize
    BY <1>2, <1>4, <1>6, <1>8 DEF LogAssumption
  <2> HIDE DEF base, rotate
  <2>2. /\ files' \in [Log!Indices -> Seq(Written)] /\ \A i \in Log!Indices : i # 0 => files'[i] = files[i]
        /\ \E d : Bounded(d, files', logged + 1, kept)
        /\ Log!FileSize(files'[0]) = Log!FileSize(files[0]) + Log!MessageSize(m.id)
        /\ Small(files')
    <3>1. files' = [files EXCEPT ![0] = Append(@, m)]
      BY <1>1, <2>1
    <3>2. Log!FileSize(files[0]) + Log!MessageSize(m.id) <= MaxSize
      BY <1>2, <2>1
    <3> QED BY <1>2, <1>3, <1>4, <1>6, <3>1, <3>2, MessageAppended
  <2>3. exists' = exists /\ kept' = kept /\ size' = Log!FileSize(files'[0])
    <3>1. exists' = exists /\ kept' = kept /\ size' = Log!MessageSize(m.id) + size
      BY <1>1, <1>8
    <3> QED BY <1>2, <1>4, <1>6, <2>2, <3>1
  <2>4. LogTypes'
    <3>1. 0 \in exists
      BY <1>5, <1>7
    <3>2. \A i \in Log!Indices : i \notin exists' => files'[i] = <<>>
      BY <1>2, <2>2, <2>3, <3>1 DEF LogTypes
    <3>3. day' \in Int /\ today' \in Int /\ logged' \in Nat /\ kept' \in Nat
      BY <1>1, <1>2, <1>4, <2>3 DEF LogTypes
    <3> QED BY <1>7, <2>2, <2>3, <3>2, <3>3 DEF LogTypes, Log!Indices
  <2>5. (\E c : Bounded(c, files, logged, kept))'
    <3>1. PICK c : Bounded(c, files', logged + 1, kept)
      BY <2>2
    <3>2. Bounded(c, files', logged', kept')
      BY <1>1, <2>3, <3>1
    <3>3. Bounded(c, files, logged, kept)'
      BY <3>2, SMTT(60) DEF Bounded, Log!Indices
    <3> QED BY <3>3
  <2>6. Small(files)' /\ (size = Log!FileSize(files[0]))'
    BY <2>2, <2>3 DEF Small, Log!Indices, Log!FileSize, Log!MessageSize
  <2> QED BY <2>4, <2>5, <2>6 DEF FilesInv
<1>9. CASE rotate
  <2> DEFINE f == Log!Cascade(files)
             first == e[MaxFiles]
             d == [i \in 0 .. MaxFiles + 1 |-> IF i = 0 THEN logged + 1 ELSE e[i - 1]]
  <2>1. base = f
    BY <1>9
  <2> HIDE DEF base
  <2>2. f \in [Log!Indices -> Seq(Written)] /\ f[0] = <<>> /\ \A i \in Log!Indices : i # 0 => i - 1 \in Log!Indices /\ f[i] = files[i - 1]
    BY <1>2, FilesRotate
  <2> HIDE DEF f
  <2>3. e \in [0 .. MaxFiles + 1 -> Nat] /\ e[0] = logged + 1 /\ e[MaxFiles + 1] = kept
    BY <1>3 DEF Bounded
  <2>4. kept' = first /\ first \in Nat
    <3>1. first \in Nat /\ kept \in Nat /\ Len(files[MaxFiles]) = first - kept
      BY <1>2, <1>3, <1>5, <2>3, Bounds DEF Bounded
    <3>2. gone = Len(files[MaxFiles])
      <4>1. CASE MaxFiles \in exists
        <5>1. MaxFiles = 0 \/ MaxFiles - 1 \in exists
          BY <1>2, <1>5, <1>7, <4>1 DEF LogAssumption
        <5> QED BY <4>1, <5>1 DEF gone, Log!Dropped
      <4>2. CASE MaxFiles \notin exists
        <5>1. files[MaxFiles] = <<>>
          BY <1>2, <1>5, <4>2 DEF LogTypes
        <5> QED BY <4>2, <5>1 DEF gone, Log!Dropped
      <4> QED BY <4>1, <4>2
    <3>3. kept' = kept + gone
      BY <1>1, <1>9
    <3> QED BY <3>1, <3>2, <3>3
  <2>5. Bounded(d, f, logged, first)
    <3>1. \A i \in 0 .. MaxFiles + 1 : i # 0 => i - 1 \in 0 .. MaxFiles + 1
      BY <1>2 DEF LogAssumption
    <3>2. d \in [0 .. MaxFiles + 1 -> Nat] /\ d[0] = logged + 1 /\ d[MaxFiles + 1] = first
      BY <1>2, <1>4, <2>3, <3>1 DEF LogAssumption
    <3>3. \A i \in Log!Indices : d[i + 1] = e[i] /\ (i # 0 => d[i] = e[i - 1])
      <4>1. \A i \in Log!Indices : i \in 0 .. MaxFiles + 1 /\ i + 1 \in 0 .. MaxFiles + 1 /\ i + 1 # 0 /\ (i + 1) - 1 = i
        BY <1>2 DEF LogAssumption, Log!Indices
      <4> QED BY <4>1
    <3> HIDE DEF d, first
    <3>4. ASSUME NEW i \in Log!Indices
          PROVE  Len(f[i]) = d[i] - d[i + 1] /\ \A j \in 1 .. Len(f[i]) : f[i][j].id = d[i + 1] + j - 1
      <4>1. CASE i = 0
        <5>1. d[0] = d[0 + 1] /\ d[0] = logged + 1
          BY <1>5, <2>3, <3>2, <3>3
        <5>2. Len(f[0]) = 0 /\ logged + 1 \in Nat
          BY <1>4, <2>2
        <5> QED BY <4>1, <5>1, <5>2
      <4>2. CASE i # 0
        <5>1. i - 1 \in Log!Indices /\ f[i] = files[i - 1] /\ (i - 1) + 1 = i
          BY <1>5, <2>2, <4>2
        <5>2. Len(files[i - 1]) = e[i - 1] - e[i] /\ \A j \in 1 .. Len(files[i - 1]) : files[i - 1][j].id = e[i] + j - 1
          BY <1>3, <5>1 DEF Bounded
        <5> QED BY <3>3, <4>2, <5>1, <5>2
      <4> QED BY <4>1, <4>2
    <3> QED BY <3>2, <3>4 DEF Bounded
  <2>6. Small(f)
    <3>1. Log!FileSize(f[0]) <= MaxSize
      <4>1. f[0] \in Seq(Written)
        BY <1>5, <2>2
      <4>2. Log!FileSize(f[0]) = 0
        BY <2>2, <4>1, FileSizes
      <4> QED BY <1>2, <4>2 DEF LogAssumption
    <3>2. \A i \in Log!Indices : i # 0 => Log!FileSize(f[i]) <= MaxSize \/ Len(f[i]) = 1
      BY <1>2, <2>2, SMTT(60) DEF Small
    <3> QED BY <3>1, <3>2 DEF Small
  <2> HIDE DEF d, first, rotate
  <2>7. /\ files' \in [Log!Indices -> Seq(Written)] /\ \A i \in Log!Indices : i # 0 => files'[i] = f[i]
        /\ \E c : Bounded(c, files', logged + 1, first)
        /\ Log!FileSize(files'[0]) = Log!FileSize(f[0]) + Log!MessageSize(m.id)
        /\ Small(files')
    <3>1. files' = [f EXCEPT ![0] = Append(@, m)]
      BY <1>1, <2>1
    <3> QED BY <1>2, <1>4, <1>6, <2>2, <2>5, <2>6, <3>1, MessageAppended, ZenonT(60)
  <2>8. size' = Log!FileSize(files'[0])
    <3>1. size' = Log!MessageSize(m.id) + 0
      BY <1>1, <1>9
    <3>2. f[0] \in Seq(Written)
      BY <1>5, <2>2
    <3>3. Log!FileSize(f[0]) = 0
      BY <2>2, <3>2, FileSizes
    <3> QED BY <1>4, <2>7, <3>1, <3>3
  <2>9. exists' = {0} \cup {i + 1 : i \in exists \ {MaxFiles}}
    BY <1>1, <1>9
  <2>10. \E t \in Log!Indices : exists' = 0 .. t
    <3>1. CASE top = MaxFiles
      <4>1. exists' = 0 .. MaxFiles
        <5>1. ASSUME NEW x \in exists' PROVE x \in 0 .. MaxFiles
          BY <1>2, <1>5, <1>7, <2>9, <3>1 DEF LogAssumption
        <5>2. ASSUME NEW x \in 0 .. MaxFiles PROVE x \in exists'
          <6>1. CASE x = 0
            BY <2>9, <6>1
          <6>2. CASE x # 0
            <7>1. x - 1 \in exists \ {MaxFiles} /\ x = (x - 1) + 1
              BY <1>2, <1>7, <3>1, <6>2 DEF LogAssumption
            <7> QED BY <2>9, <7>1
          <6> QED BY <6>1, <6>2
        <5> QED BY <5>1, <5>2
      <4> QED BY <1>5, <4>1
    <3>2. CASE top # MaxFiles
      <4>1. top \in Nat /\ top < MaxFiles /\ top + 1 \in Log!Indices
        BY <1>2, <1>5, <3>2 DEF LogAssumption, Log!Indices
      <4>2. exists' = 0 .. top + 1
        <5>1. ASSUME NEW x \in exists' PROVE x \in 0 .. top + 1
          BY <1>7, <2>9, <4>1
        <5>2. ASSUME NEW x \in 0 .. top + 1 PROVE x \in exists'
          <6>1. CASE x = 0
            BY <2>9, <6>1
          <6>2. CASE x # 0
            <7>1. x - 1 \in exists \ {MaxFiles} /\ x = (x - 1) + 1
              BY <1>2, <1>7, <4>1, <6>2 DEF LogAssumption
            <7> QED BY <2>9, <7>1
          <6> QED BY <6>1, <6>2
        <5> QED BY <5>1, <5>2
      <4> QED BY <4>1, <4>2
    <3> QED BY <3>1, <3>2
  <2>11. ASSUME NEW i \in Log!Indices, i \notin exists' PROVE files'[i] = <<>>
    <3>1. i # 0 /\ 0 \in exists'
      BY <2>9, <2>11
    <3>2. i - 1 \in Log!Indices /\ files'[i] = files[i - 1]
      BY <2>2, <2>7, <3>1
    <3>3. i - 1 \notin exists
      <4>1. i - 1 # MaxFiles /\ (i - 1) + 1 = i
        BY <1>2, <1>5, <3>1 DEF LogAssumption
      <4> QED BY <2>9, <2>11, <4>1
    <3> QED BY <1>2, <3>2, <3>3 DEF LogTypes
  <2>12. LogTypes'
    <3>1. day' \in Int /\ today' \in Int /\ logged' \in Nat /\ kept' \in Nat
      BY <1>1, <1>2, <1>4, <2>4 DEF LogTypes
    <3> QED BY <2>7, <2>10, <2>11, <3>1, SMTT(60) DEF LogTypes, Log!Indices
  <2>13. (\E c : Bounded(c, files, logged, kept))'
    <3>1. PICK c : Bounded(c, files', logged + 1, first)
      BY <2>7
    <3>2. Bounded(c, files', logged', kept')
      BY <1>1, <2>4, <3>1
    <3>3. Bounded(c, files, logged, kept)'
      BY <3>2, SMTT(60) DEF Bounded, Log!Indices
    <3> QED BY <3>3
  <2>14. Small(files)' /\ (size = Log!FileSize(files[0]))'
    BY <2>7, <2>8 DEF Small, Log!Indices, Log!FileSize, Log!MessageSize
  <2> QED BY <2>12, <2>13, <2>14 DEF FilesInv
<1> QED BY <1>8, <1>9

LEMMA FilesStep ==
    ASSUME LogAssumption, FilesInv, [Log!LogNext]_(Log!logVars)
    PROVE  FilesInv'
<1> USE DEF FilesInv, LogTypes, Bounded, Small, Log!Indices
<1>1. CASE Log!Write
  BY <1>1, FilesAfterWrite
<1>2. CASE Log!Midnight
  <2>1. today' = today + 1 /\ files' = files /\ exists' = exists /\ size' = size /\ day' = day /\ logged' = logged /\ kept' = kept
    BY <1>2 DEF Log!Midnight
  <2>2. today' \in Int
    BY <2>1
  <2> QED BY <2>1, <2>2
<1>3. CASE Log!Restart
  <2>1. size' = Log!FileSize(files[0]) /\ day' = today
        /\ files' = files /\ exists' = exists /\ today' = today /\ logged' = logged /\ kept' = kept
    BY <1>3 DEF Log!Restart
  <2> QED BY <2>1, ZenonT(60)
<1>4. CASE UNCHANGED Log!logVars
  <2>1. /\ size' = size /\ day' = day
        /\ files' = files /\ exists' = exists /\ today' = today /\ logged' = logged /\ kept' = kept
    BY <1>4 DEF Log!logVars
  <2> QED BY <2>1
<1> QED BY <1>1, <1>2, <1>3, <1>4 DEF Log!LogNext

\* Read from the oldest file on, the files are what was not dropped, in order.
LEMMA HistoryInOrder ==
    ASSUME LogAssumption, FilesInv
    PROVE  Log!LogInv
<1> DEFINE n == MaxFiles + 1
           ss == [i \in 1 .. n |-> files[n - i]]
           all == Log!FlattenSeq(ss)
<1>1. PICK e : Bounded(e, files, logged, kept)
  BY DEF FilesInv
<1> DEFINE starts == [i \in 0 .. n |-> e[n - i]]
<1>2. n \in Nat /\ n # 0 /\ n - 1 = MaxFiles /\ \A i \in 1 .. n : n - i \in Log!Indices
  BY DEF LogAssumption, Log!Indices
<1>3. \A i \in 0 .. n : n - i \in 0 .. MaxFiles + 1
  BY DEF LogAssumption
<1>4. ss \in Seq(Seq(Written)) /\ Len(ss) = n /\ \A i \in 1 .. n : ss[i] = files[n - i]
  <2>1. \A i \in 1 .. n : files[n - i] \in Seq(Written)
    BY <1>2 DEF FilesInv, LogTypes
  <2> QED BY <1>2, <2>1
<1>5. starts \in [0 .. n -> Nat] /\ starts[0] = kept /\ starts[n] = logged + 1
  <2>1. e \in [0 .. MaxFiles + 1 -> Nat] /\ e[0] = logged + 1 /\ e[MaxFiles + 1] = kept
    BY <1>1 DEF Bounded
  <2>2. starts \in [0 .. n -> Nat]
    BY <1>3, <2>1
  <2>3. 0 \in 0 .. n /\ n \in 0 .. n /\ n - 0 = MaxFiles + 1 /\ n - n = 0
    BY <1>2
  <2> QED BY <2>1, <2>2, <2>3
<1>6. ASSUME NEW i \in 1 .. n
      PROVE  Len(ss[i]) = starts[i] - starts[i - 1] /\ \A j \in 1 .. Len(ss[i]) : ss[i][j].id = starts[i - 1] + j - 1
  <2>1. i \in 0 .. n /\ i - 1 \in 0 .. n /\ n - (i - 1) = (n - i) + 1
    BY <1>2
  <2>2. starts[i] = e[n - i] /\ starts[i - 1] = e[(n - i) + 1]
    BY <2>1
  <2>3. Len(files[n - i]) = e[n - i] - e[(n - i) + 1] /\ \A j \in 1 .. Len(files[n - i]) : files[n - i][j].id = e[(n - i) + 1] + j - 1
    BY <1>1, <1>2 DEF Bounded
  <2> HIDE DEF starts
  <2> QED BY <1>4, <2>2, <2>3
<1> HIDE DEF starts
<1>7. Log!History = all
  <2> DEFINE rr == [i \in 1 .. (MaxFiles + 1) |-> files[MaxFiles + 1 - i]]
  <2>1. Log!History = Log!FlattenSeq(rr)
    BY DEF Log!History
  <2>2. DOMAIN rr = 1 .. n /\ DOMAIN ss = 1 .. n /\ \A i \in 1 .. n : rr[i] = ss[i]
    <3>1. \A i \in 1 .. n : MaxFiles + 1 - i = n - i
      BY DEF LogAssumption
    <3> QED BY <3>1
  <2>3. rr = ss
    BY <2>2
  <2> HIDE DEF rr, ss
  <2> QED BY <2>1, <2>3
<1> HIDE DEF ss
<1>8. InARow(ss, starts)
  BY <1>4, <1>5, <1>6 DEF InARow
<1>9. all \in Seq(Written) /\ Len(all) = (logged + 1) - kept /\ \A j \in 1 .. Len(all) : all[j].id = kept + j - 1
  <2>1. Len(ss) # 0 /\ ss \in Seq(Seq(Written))
    BY <1>2, <1>4
  <2>2. /\ Log!FlattenSeq(ss) \in Seq(Written) /\ Len(Log!FlattenSeq(ss)) = starts[Len(ss)] - starts[0]
        /\ \A j \in 1 .. Len(Log!FlattenSeq(ss)) : Log!FlattenSeq(ss)[j].id = starts[0] + j - 1
    BY <1>8, <2>1, FlattenedInOrder, Zenon
  <2>3. starts[Len(ss)] = logged + 1 /\ starts[0] = kept
    BY <1>4, <1>5
  <2> QED BY <2>2, <2>3
<1> HIDE DEF all, n
<1>10. [i \in DOMAIN Log!History |-> Log!History[i].id] = [i \in 1 .. (logged - kept + 1) |-> kept + i - 1]
  <2>1. logged \in Nat /\ kept \in Nat
    BY DEF FilesInv, LogTypes
  <2>2. DOMAIN all = 1 .. Len(all) /\ (logged + 1) - kept = logged - kept + 1
    BY <1>9, <2>1
  <2> QED BY <1>7, <1>9, <2>2
<1> QED BY <1>10 DEF Log!LogInv, FilesInv, Small

\* Whatever the sizes and the days, and however often the sink is reopened: the
\* files, from the oldest one to the active one, are the messages that no rotation
\* dropped, in order and without a gap (daily_and_size_sink.h:18-28).
THEOREM LogComplete == ASSUME LogAssumption PROVE Log!LogSpec => []Log!LogInv
<1>1. Log!LogInit => FilesInv
  BY NoFiles
<1>2. FilesInv /\ [Log!LogNext]_(Log!logVars) => FilesInv'
  BY FilesStep
<1>3. FilesInv => Log!LogInv
  BY HistoryInOrder
<1> QED BY <1>1, <1>2, <1>3, PTL DEF Log!LogSpec
=============================================================================
