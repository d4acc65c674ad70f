------------------------- MODULE Application_proofs -------------------------
(***************************************************************************)
(* Proofs about what decides on a frame and what adjusts the decision.     *)
(*                                                                         *)
(*   TuningScheduler  the module itself: for any vectors, costs and number *)
(*                 of attempts, and whatever fails, the tree in use is the *)
(*                 one for the parameters the scheduler believes in, and   *)
(*                 the audit log's outcomes follow their proposals         *)
(*   TuningSearch  what the optimizer answers with (SearchIsSound)         *)
(*   Reasoning     the frame a verdict is of (VerdictsAreOfFrames), what is*)
(*                 recorded (FramesRecordedOnce)                           *)
(*   Knowledge     what the evolution log says (LogTellsStore)             *)
(*                                                                         *)
(* Each section but the first declares the parameters of its component and *)
(* takes the component's module as an instance.                            *)
(***************************************************************************)
EXTENDS TuningScheduler, Numbers, FiniteSetTheorems, FunctionTheorems

USE TuningAssumption DEF Vectors

Events == [kind : {"PROPOSED", "APPLIED", "ROLLBACK"}, params : Vectors]
LastEvent == audit[Len(audit)]

AuditInv ==
    /\ audit \in Seq(Events)
    /\ pc \in {"apply", "undo", "monitor", "rollback", "rolledBack", "commit"} =>
          audit # <<>> /\ LastEvent = Event("PROPOSED", best)
    /\ AuditOrder

\* What a step of a cycle relies on: which vector the tree is for, which one
\* current_params_ holds, and that a rollback has attempts left.
CycleInv ==
    /\ pc \in {"none", "loop", "test", "sleep", "asleep", "clear", "evaluate", "optimize", "propose",
               "monitor", "commit", "exited"} /\ current # Unset /\ ~lost => tree = current
    /\ pc \in {"apply", "undo"} => current = old
    /\ pc \in {"apply", "undo", "rolledBack"} /\ old # Unset /\ ~lost => tree = old
    /\ pc \in {"monitor", "rollback", "rolledBack", "commit"} => current = best
    /\ pc \in {"undo", "rollback"} => attempts < Retries

IInv == TypeOK /\ CycleInv /\ AuditInv

-----------------------------------------------------------------------------
\* The log keeps the event before the new one.
LEMMA LogFacts ==
    ASSUME AuditInv, NEW e \in Events, Log(e)
    PROVE  /\ audit' \in Seq(Events) /\ Len(audit') \in {1, 2} /\ Len(audit') <= 2
           /\ audit' # <<>> /\ LastEvent' = e
           /\ Len(audit') = 2 => audit # <<>> /\ audit'[1] = LastEvent /\ audit'[2] = e
<1> USE DEF AuditInv, LastEvent
<1>1. CASE audit = <<>>
  <2>1. audit' = <<e>>
    BY <1>1 DEF Log
  <2> QED BY <1>1, <2>1
<1>2. CASE audit # <<>>
  <2>1. PICK d \in Events : d = audit[Len(audit)]
    BY <1>2
  <2>2. audit' = <<d>> \o <<e>>
    BY <1>2, <2>1 DEF Log
  <2>3. /\ <<d>> \o <<e>> \in Seq(Events) /\ Len(<<d>> \o <<e>>) = 2
        /\ <<d>> \o <<e>> # <<>>
        /\ (<<d>> \o <<e>>)[1] = d /\ (<<d>> \o <<e>>)[2] = e
    OBVIOUS
  <2>4. /\ audit' \in Seq(Events) /\ Len(audit') = 2 /\ audit' # <<>>
        /\ audit'[1] = d /\ audit'[2] = e
    BY <2>2, <2>3
  <2>5. audit' # <<>> /\ audit'[Len(audit')] = e
    <3>1. Len(audit') = 2
      BY <2>4
    <3> QED BY <2>4, <3>1
  <2>6. Len(audit') \in {1, 2} /\ Len(audit') <= 2
    BY <2>4
  <2> QED BY <1>2, <2>1, <2>4, <2>5, <2>6
<1> QED BY <1>1, <1>2

\* A step that writes no event and keeps best keeps the log's invariant.
LEMMA AuditKept ==
    ASSUME AuditInv, audit' = audit,
           \/ pc' \notin {"apply", "undo", "monitor", "rollback", "rolledBack", "commit"}
           \/ /\ pc \in {"apply", "undo", "monitor", "rollback", "rolledBack", "commit"}
              /\ best' = best
    PROVE  AuditInv'
  BY DEF AuditInv, AuditOrder, LastEvent

LEMMA InitIInv ==
    ASSUME Init PROVE IInv
<1>1. TypeOK
  <2>1. Init => Len(audit) <= 2 /\ attempts \in 0 .. Retries
    BY DEF Init
  <2> QED BY <2>1 DEF Init, TypeOK
<1>2. CycleInv
  BY DEF Init, CycleInv
<1>3. AuditInv
  BY DEF Init, AuditInv, AuditOrder
<1> QED BY <1>1, <1>2, <1>3 DEF IInv

\* Calls from other threads, and the worker's wait.
LEMMA WaitInv ==
    ASSUME IInv, Start \/ TriggerOnce \/ StopToken \/ JoinCall \/ JoinReturn
                 \/ Loop \/ Test \/ Sleep \/ Wake \/ Clear
    PROVE  IInv'
<1> USE DEF IInv, callVars, paramVars, histVars, Start, TriggerOnce, StopToken, JoinCall, JoinReturn,
            Loop, Test, Sleep, Wake, Clear, NotifyAll
<1>1. UNCHANGED <<paramVars, histVars>>
  OBVIOUS
<1>2. TypeOK'
  BY ZenonT(60) DEF TypeOK
<1>3. CycleInv'
  BY DEF CycleInv
<1>4. AuditInv'
  BY AuditKept
<1> QED BY <1>2, <1>3, <1>4

\* The first half of a cycle changes neither parameters nor tree.
LEMMA SearchInv ==
    ASSUME IInv, Evaluate \/ Optimize
    PROVE  IInv'
<1> USE DEF IInv, callVars, histVars
<1>1. TypeOK'
  <2>1. CASE Evaluate
    BY <2>1 DEF TypeOK, Evaluate
  <2>2. CASE Optimize
    BY <2>2, SMTT(60) DEF TypeOK, Optimize
  <2> QED BY <2>1, <2>2
<1>2. CycleInv'
  BY DEF CycleInv, Evaluate, Optimize
<1>3. AuditInv'
  BY AuditKept DEF Evaluate, Optimize
<1> QED BY <1>1, <1>2, <1>3

\* The proposal is logged before it is applied.
LEMMA ProposeInv ==
    ASSUME IInv, Propose
    PROVE  IInv'
<1> USE DEF IInv, callVars, Propose
<1>1. Event("PROPOSED", best) \in Events
  BY DEF Event, Events, TypeOK
<1>2. /\ audit' \in Seq(Events) /\ Len(audit') \in {1, 2} /\ Len(audit') <= 2
      /\ audit' # <<>> /\ LastEvent' = Event("PROPOSED", best)
      /\ Len(audit') = 2 => audit'[2] = Event("PROPOSED", best)
  BY <1>1, LogFacts
<1>3. TypeOK'
  <2>1. Len(audit') <= 2
    BY <1>2
  <2> QED BY <2>1 DEF TypeOK
<1>4. CycleInv'
  BY DEF CycleInv
<1>5. AuditOrder'
  BY <1>2 DEF AuditOrder, Event
<1>6. AuditInv'
  BY <1>2, <1>5 DEF AuditInv
<1> QED BY <1>3, <1>4, <1>6

\* What the applier writes is a vector or what the file held.
LEMMA WrittenFacts ==
    ASSUME TypeOK, NEW p \in Vectors
    PROVE  Written(p) \in Vectors \cup {Shipped} /\ (p # Unset => Written(p) = p)
  BY DEF Written, TypeOK

\* A failing applier leaves the tree, one that succeeds makes it the vector's.
LEMMA ApplyInv ==
    ASSUME IInv, Apply
    PROVE  IInv'
<1> USE DEF IInv, callVars, histVars, Apply
<1>1. Written(best) \in Vectors \cup {Shipped} /\ (best # Unset => Written(best) = best)
  BY WrittenFacts DEF TypeOK
<1>2. TypeOK'
  BY <1>1 DEF TypeOK, ApplyOk, ApplyFails
<1>3. CycleInv'
  BY <1>1 DEF CycleInv, TypeOK, ApplyOk, ApplyFails
<1>4. AuditInv'
  BY AuditKept
<1> QED BY <1>2, <1>3, <1>4

\* A rollback succeeds at some attempt, or the tree is lost.
LEMMA RollbackInv ==
    ASSUME IInv, Undo \/ Rollback
    PROVE  IInv'
<1> USE DEF IInv, callVars
<1>1. Written(old) \in Vectors \cup {Shipped} /\ (old # Unset => Written(old) = old)
  BY WrittenFacts DEF TypeOK
<1>2. attempts < Retries /\ attempts \in Nat
  BY DEF CycleInv, Undo, Rollback, TypeOK
<1>3. PICK next \in {"loop", "rolledBack"} :
        /\ Attempt(next)
        /\ \/ next = "loop" /\ Undo
           \/ next = "rolledBack" /\ Rollback
  BY DEF Undo, Rollback
<1>4. /\ file' \in Vectors \cup {Shipped} /\ tree' \in Vectors \cup {Shipped}
      /\ attempts' \in 0 .. Retries /\ lost' \in BOOLEAN /\ pc' \in {pc, next}
      /\ pc' = pc => attempts' < Retries
      /\ pc' = next /\ ~lost' /\ old # Unset => tree' = old
      /\ tree' = tree \/ tree' = Written(old)
      /\ lost => lost'
  <2>1. pc \in {"undo", "rollback"} /\ pc # next
    BY <1>3 DEF Undo, Rollback
  <2>2. CASE ApplyOk(old) /\ pc' = next /\ UNCHANGED <<attempts, lost>>
    BY <1>1, <1>2, <2>1, <2>2 DEF ApplyOk, TypeOK
  <2>3. CASE /\ ApplyFails(old)
             /\ attempts' = attempts + 1
             /\ pc' = IF attempts + 1 = Retries THEN next ELSE pc
             /\ lost' = (lost \/ attempts + 1 = Retries)
    <3>1. /\ file' \in Vectors \cup {Shipped} /\ tree' = tree
      BY <1>1, <2>3 DEF ApplyFails, TypeOK
    <3>2. attempts' \in 0 .. Retries /\ (attempts + 1 # Retries => attempts' < Retries)
      BY <1>2, <2>3
    <3> QED BY <2>1, <2>3, <3>1, <3>2 DEF TypeOK
  <2> QED BY <1>3, <2>2, <2>3 DEF Attempt
<1>5. TypeOK'
  <2>1. CASE next = "loop" /\ Undo
    BY <1>4, <2>1, SMTT(60) DEF TypeOK, Undo
  <2>2. CASE next = "rolledBack" /\ Rollback
    BY <1>4, <2>2, SMTT(60) DEF TypeOK, Rollback
  <2> QED BY <1>3, <2>1, <2>2
<1>6. CycleInv'
  <2>1. CASE next = "loop" /\ Undo
    BY <1>1, <1>4, <2>1 DEF CycleInv, Undo
  <2>2. CASE next = "rolledBack" /\ Rollback
    BY <1>4, <2>2 DEF CycleInv, Rollback
  <2> QED BY <1>3, <2>1, <2>2
<1>7. AuditInv'
  BY AuditKept DEF Undo, Rollback, Attempt
<1> QED BY <1>5, <1>6, <1>7

\* The monitoring window ends in one of three ways.
LEMMA MonitorInv ==
    ASSUME IInv, Monitor
    PROVE  IInv'
<1> USE DEF IInv, callVars, histVars, Monitor
<1>1. TypeOK'
  BY SMTT(60) DEF TypeOK
<1>2. CycleInv'
  BY SMTT(60) DEF CycleInv, TypeOK
<1>3. AuditInv'
  BY AuditKept
<1> QED BY <1>1, <1>2, <1>3

\* The outcome is logged for the vector that was proposed.
LEMMA OutcomeInv ==
    ASSUME IInv, RolledBack \/ Commit
    PROVE  IInv'
<1> USE DEF IInv, callVars, paramVars
<1>1. PICK k \in {"APPLIED", "ROLLBACK"} : Log(Event(k, best))
  BY DEF RolledBack, Commit, CycleInv
<1>2. Event(k, best) \in Events
  BY DEF Event, Events, TypeOK
<1>3. /\ audit' \in Seq(Events) /\ Len(audit') \in {1, 2} /\ Len(audit') <= 2
      /\ Len(audit') = 2 => audit'[1] = LastEvent /\ audit'[2] = Event(k, best)
  BY <1>1, <1>2, LogFacts
<1>4. LastEvent = Event("PROPOSED", best)
  BY DEF AuditInv, RolledBack, Commit
<1>5. TypeOK'
  <2>1. Len(audit') <= 2
    BY <1>3
  <2>2. CASE RolledBack
    BY <2>1, <2>2, SMTT(60) DEF TypeOK, RolledBack
  <2>3. CASE Commit
    BY <2>1, <2>3 DEF TypeOK, Commit
  <2> QED BY <2>2, <2>3
<1>6. CycleInv'
  BY DEF CycleInv, RolledBack, Commit
<1>7. AuditOrder'
  BY <1>3, <1>4 DEF AuditOrder, Event
<1>8. AuditInv'
  BY <1>3, <1>7 DEF AuditInv, RolledBack, Commit
<1> QED BY <1>5, <1>6, <1>8

-----------------------------------------------------------------------------
LEMMA NextIInv ==
    ASSUME IInv, [Next]_vars PROVE IInv'
<1>1. CASE UNCHANGED vars
  BY <1>1, AuditKept DEF IInv, vars, callVars, paramVars, histVars, TypeOK, CycleInv, AuditInv,
                         AuditOrder, LastEvent
<1> QED BY <1>1, WaitInv, SearchInv, ProposeInv, ApplyInv, RollbackInv, MonitorInv, OutcomeInv DEF Next, Work

\* Between cycles the reasoner's tree is the one for current_params_, unless a
\* rollback has failed for good (tuning_scheduler.cpp, MainLoop and RetryRollback).
THEOREM TreeIsCurrent == Spec => []SchedulerInv
<1>1. Init => IInv
  BY InitIInv
<1>2. IInv /\ [Next]_vars => IInv'
  BY NextIInv
<1>3. IInv => SchedulerInv
  BY DEF IInv, CycleInv, SchedulerInv, TreeMatchesCurrent
<1> QED BY <1>1, <1>2, <1>3, PTL DEF Spec

\* An APPLIED or ROLLBACK event directly follows the PROPOSED event of the same
\* vector, whatever failed before.
THEOREM OutcomesFollowProposals == Spec => []AuditOrder
<1>1. Init => IInv
  BY InitIInv
<1>2. IInv /\ [Next]_vars => IInv'
  BY NextIInv
<1>3. IInv => AuditOrder
  BY DEF IInv, AuditInv
<1> QED BY <1>1, <1>2, <1>3, PTL DEF Spec

HIDE TuningAssumption DEF Vectors

-----------------------------------------------------------------------------
(* TuningSearch: what the optimizer observes, and what it answers with.     *)
CONSTANTS Space, Constraints, NgIndex, FpCost, FnCost, Unit, GroundTruths, MaxNodes, Settings, MaxTime, MaxObserved
VARIABLES setting, nodes, since, applied, cost, observations, hyper, cache, at, point, left, flat, result

Tune == INSTANCE TuningSearch WITH current <- applied

\* Bounds and scores are numbers, and no cost is less than nothing.
TuneAssumption ==
  /\ Space \in Seq([min : Int, max : Int, step : Nat])
  /\ FpCost \in Nat /\ FnCost \in Nat /\ Unit \in Nat
  /\ \A n \in GroundTruths : n.score \in Int

\* A vector within the declared ranges.
InRanges(x) == \A j \in DOMAIN Space : x[j] \in Space[j].min .. Space[j].max

\* What may be observed: the scheduler's first vector, or a clamped one.
Clamped == Tune!RandomPoints \cup {setting.first}
Observed == [params : Clamped, cost : Nat]

SearchType == /\ nodes \in Seq(GroundTruths) /\ observations \in Seq(Observed)
              /\ applied \in Clamped
              /\ cache \in [valid : BOOLEAN, seen : Nat, hyper : {0, 1}]
\* A call observes the current vector first, and answers as it ends.
CallInv == /\ at \in {"random", "improve", "propose"} => point \in Tune!RandomPoints
           /\ at \notin {"idle", "current", "crashed"} => observations # <<>>
           /\ result # Tune!NoResult => at = "idle" /\ result \in Observed
TuningInv == SearchType /\ hyper \in {0, 1} /\ CallInv /\ Tune!CacheFits /\ Tune!ReturnsBest

LEMMA TuneCardinality == \A T : Tune!Cardinality(T) = Cardinality(T)
  BY DEF Tune!Cardinality, Cardinality, Tune!IsFiniteSet, IsFiniteSet

Ranges == [min : Int, max : Int, step : Nat]
LEMMA SpaceRanges ==
    ASSUME TuneAssumption, NEW i \in DOMAIN Space
    PROVE  Space[i] \in Ranges
<1>1. Space \in Seq(Ranges)
  BY DEF TuneAssumption, Ranges
<1> QED BY <1>1

\* A clamped value lies in its range, whatever the rounding to steps made of it.
LEMMA ClampedInRange ==
    ASSUME NEW p \in [min : Int, max : Int, step : Nat], NEW v \in p.min .. p.max
    PROVE  Tune!ClampTo(p, v) \in p.min .. p.max
<1>1. p.min \in Int /\ p.max \in Int /\ p.step \in Nat /\ v \in Int /\ p.min <= v /\ v <= p.max
  OBVIOUS
<1>2. \A w \in Int : Tune!Clamp(w, p.min, p.max) \in p.min .. p.max
  BY <1>1 DEF Tune!Clamp
<1>3. Tune!Clamp(v, p.min, p.max) = v
  BY <1>1 DEF Tune!Clamp
<1>4. ASSUME p.step > 0 PROVE Tune!Snapped(p, v) \in Int
  <2>1. 2 * (v - p.min) + p.step \in Int /\ 2 * p.step \in Int /\ 2 * p.step > 0
    BY <1>1, <1>4
  <2>2. \A a, b \in Int : b > 0 => a \div b \in Int
    OBVIOUS
  <2> DEFINE a == 2 * (v - p.min) + p.step
             b == 2 * p.step
  <2>3. a \div b \in Int
    <3>1. a \in Int /\ b \in Int /\ b > 0
      BY <2>1
    <3> HIDE DEF a, b
    <3> QED BY <2>2, <3>1
  <2>4. Tune!Rounded(v - p.min, p.step) \in Int
    BY <2>3 DEF Tune!Rounded
  <2>5. Tune!Rounded(v - p.min, p.step) * p.step \in Int
    BY <1>1, <2>4
  <2> QED BY <1>1, <2>5 DEF Tune!Snapped
<1>5. CASE p.step > 0
  BY <1>2, <1>3, <1>4, <1>5 DEF Tune!ClampTo
<1>6. CASE ~(p.step > 0)
  BY <1>3, <1>6 DEF Tune!ClampTo
<1> QED BY <1>5, <1>6

LEMMA PointsInRanges ==
    ASSUME TuneAssumption, NEW x \in Tune!RandomPoints
    PROVE  DOMAIN x = DOMAIN Space /\ InRanges(x)
<1>1. DOMAIN x = DOMAIN Space /\ \A i \in DOMAIN Space : x[i] \in Tune!Values(Space[i])
  BY DEF Tune!RandomPoints
<1>2. ASSUME NEW i \in DOMAIN Space PROVE x[i] \in Space[i].min .. Space[i].max
  <2>1. Space[i] \in Ranges
    BY SpaceRanges
  <2>2. PICK v \in Space[i].min .. Space[i].max : x[i] = Tune!ClampTo(Space[i], v)
    BY <1>1 DEF Tune!Values
  <2> QED BY <2>1, <2>2, ClampedInRange DEF Ranges
<1> QED BY <1>1, <1>2 DEF InRanges

\* Best answers with an observation, and no other costs less.
LEMMA BestIsLeast ==
    ASSUME NEW V, NEW obs \in Seq([params : V, cost : Nat]), obs # <<>>
    PROVE  \E i \in DOMAIN obs : Tune!Best(obs) = obs[i] /\ \A j \in DOMAIN obs : obs[i].cost <= obs[j].cost
<1> DEFINE D == DOMAIN obs
           Costs == {obs[i].cost : i \in D}
           Least(i) == /\ \A j \in DOMAIN obs : obs[i].cost <= obs[j].cost
                       /\ \A j \in 1 .. i - 1 : obs[j].cost > obs[i].cost
<1>1. D = 1 .. Len(obs) /\ Len(obs) \in Nat /\ Len(obs) > 0 /\ \A i \in D : obs[i].cost \in Nat
  <2>1. D = 1 .. Len(obs) /\ Len(obs) \in Nat /\ Len(obs) > 0
    OBVIOUS
  <2> DEFINE R == [params : V, cost : Nat]
  <2>2. \A i \in D : obs[i] \in R
    <3>1. obs \in Seq(R)
      OBVIOUS
    <3> HIDE DEF R
    <3> QED BY <3>1
  <2>3. \A i \in D : obs[i].cost \in Nat
    BY <2>2
  <2> QED BY <2>1, <2>3
<1> HIDE DEF D
<1>2. \E m \in Costs : \A n \in Costs : m <= n
  <2>1. Costs \in SUBSET Nat /\ Costs # {}
    BY <1>1
  <2> HIDE DEF Costs
  <2> QED BY <2>1, LeastNumber
<1>3. PICK m \in Nat : /\ \A i \in D : m <= obs[i].cost
                       /\ \E i \in D : obs[i].cost = m
  <2>1. PICK m \in Costs : \A n \in Costs : m <= n
    BY <1>2
  <2>2. \A i \in D : obs[i].cost \in Costs
    OBVIOUS
  <2>3. \A i \in D : m <= obs[i].cost
    <3> HIDE DEF Costs
    <3> QED BY <2>1, <2>2
  <2>4. m \in Nat /\ \E i \in D : obs[i].cost = m
    BY <1>1, <2>1
  <2> QED BY <2>3, <2>4
<1> DEFINE T == {i \in D : obs[i].cost = m}
<1>4. \E i \in T : \A j \in T : i <= j
  <2>1. T \in SUBSET Nat /\ T # {}
    BY <1>1, <1>3, SMTT(60)
  <2> HIDE DEF T
  <2> QED BY <2>1, LeastNumber
<1>5. PICK i \in T : \A j \in T : i <= j
  BY <1>4
<1>6. \A j \in D : obs[i].cost <= obs[j].cost
  BY <1>3
<1>7. ASSUME NEW j \in 1 .. i - 1 PROVE obs[j].cost > obs[i].cost
  <2>1. i \in Nat /\ j \in D /\ j < i /\ j \in Nat
    BY <1>1
  <2>2. obs[j].cost # m
    BY <1>5, <2>1
  <2>3. obs[j].cost \in Nat /\ m <= obs[j].cost
    BY <1>1, <1>3, <2>1
  <2> QED BY <2>2, <2>3, SMTT(60)
<1>8. \E k \in D : Least(k)
  BY <1>6, <1>7 DEF D
<1> DEFINE b == CHOOSE k \in D : Least(k)
<1>9. b \in D /\ Least(b)
  BY <1>8
<1>10. Tune!Best(obs) = obs[b]
  BY DEF Tune!Best, D
<1> HIDE DEF b
<1> QED BY <1>9, <1>10 DEF D

\* A cost is a number that is not negative.
LEMMA CostIsNumber ==
    ASSUME TuneAssumption, nodes \in Seq(GroundTruths), NEW x
    PROVE  Tune!EvaluateCost(x) \in Nat
<1> DEFINE C == Tune!Counted(x)
           P == Tune!FalsePositives(x)
           N == Tune!FalseNegatives(x)
<1>1. IsFiniteSet(C) /\ P \in SUBSET C /\ N \in SUBSET C
  <2>1. C \in SUBSET (1 .. Len(nodes)) /\ Len(nodes) \in Int
    BY DEF Tune!Counted
  <2>2. IsFiniteSet(1 .. Len(nodes))
    BY <2>1, FS_Interval
  <2>3. P \in SUBSET C /\ N \in SUBSET C
    BY DEF Tune!FalsePositives, Tune!FalseNegatives
  <2> HIDE DEF C, P, N
  <2> QED BY <2>1, <2>2, <2>3, FS_Subset
<1>2. Tune!EvaluateCost(x) = IF C = {} THEN 0 ELSE (Unit * (FpCost * Cardinality(P) + FnCost * Cardinality(N))) \div Cardinality(C)
  BY TuneCardinality DEF Tune!EvaluateCost
<1> HIDE DEF C, P, N
<1>3. IsFiniteSet(P) /\ IsFiniteSet(N)
  BY <1>1, FS_Subset
<1>4. Cardinality(P) \in Nat /\ Cardinality(N) \in Nat /\ Cardinality(C) \in Nat
  BY <1>1, <1>3, FS_CardinalityType
<1>5. CASE C # {}
  <2>1. Cardinality(C) # 0
    BY <1>1, <1>5, FS_EmptySet
  <2>2. \A a, b \in Nat : a * b \in Nat /\ a + b \in Nat
    OBVIOUS
  <2> DEFINE a == FpCost * Cardinality(P)
             b == FnCost * Cardinality(N)
             n == Unit * (a + b)
  <2>3. a \in Nat /\ b \in Nat
    BY <1>4, <2>2 DEF TuneAssumption
  <2> HIDE DEF a, b
  <2>4. n \in Nat
    BY <2>2, <2>3 DEF TuneAssumption
  <2> HIDE DEF n
  <2> DEFINE d == Cardinality(C)
  <2>5. n \div d \in Nat
    <3>1. d \in Nat /\ d # 0
      BY <1>4, <2>1
    <3>2. \A e, k \in Nat : k # 0 => e \div k \in Nat
      OBVIOUS
    <3> HIDE DEF d
    <3> QED BY <2>4, <3>1, <3>2
  <2> QED BY <1>2, <1>5, <2>5 DEF n, a, b
<1> QED BY <1>2, <1>5

\* Raising the threshold finds less, whatever nodes there are.
LEMMA TradesOff ==
    ASSUME TuneAssumption, nodes \in Seq(GroundTruths)
    PROVE  Tune!ThresholdTradesOff
<1> SUFFICES ASSUME NEW x \in Tune!RandomPoints, NEW y \in Tune!RandomPoints, x[NgIndex] <= y[NgIndex]
             PROVE  /\ Tune!FalsePositives(y) \subseteq Tune!FalsePositives(x)
                    /\ Tune!FalseNegatives(x) \subseteq Tune!FalseNegatives(y)
  BY DEF Tune!ThresholdTradesOff
<1>1. DOMAIN x = DOMAIN Space /\ InRanges(x) /\ DOMAIN y = DOMAIN Space /\ InRanges(y)
  BY PointsInRanges
<1>2. Tune!Simulated(x) <=> Tune!Simulated(y)
  BY <1>1 DEF Tune!Simulated
<1>3. Tune!Counted(x) = Tune!Counted(y)
  BY <1>2 DEF Tune!Counted
<1>4. \A i \in Tune!Counted(x) : nodes[i].score \in Int
  <2>1. \A i \in DOMAIN nodes : nodes[i] \in GroundTruths
    OBVIOUS
  <2> QED BY <2>1 DEF TuneAssumption, Tune!Counted
<1>5. ASSUME Tune!Simulated(x) PROVE x[NgIndex] \in Int /\ y[NgIndex] \in Int
  <2>1. NgIndex \in DOMAIN Space
    BY <1>1, <1>5 DEF Tune!Simulated
  <2>2. Space[NgIndex].min \in Int /\ Space[NgIndex].max \in Int
    BY <2>1, SpaceRanges DEF Ranges
  <2> QED BY <1>1, <2>1, <2>2 DEF InRanges
<1>6. ASSUME NEW i \in Tune!Counted(x), Tune!FoundNg(nodes[i], y) PROVE Tune!FoundNg(nodes[i], x)
  <2>1. CASE Tune!Simulated(x) /\ nodes[i].score # Tune!NoScore
    <3>1. nodes[i].score > y[NgIndex]
      BY <1>2, <1>6, <2>1 DEF Tune!FoundNg
    <3>2. nodes[i].score > x[NgIndex]
      BY <1>4, <1>5, <2>1, <3>1, SMTT(60)
    <3> QED BY <2>1, <3>2 DEF Tune!FoundNg
  <2>2. CASE ~(Tune!Simulated(x) /\ nodes[i].score # Tune!NoScore)
    BY <1>2, <1>6, <2>2, SMTT(60) DEF Tune!FoundNg
  <2> QED BY <2>1, <2>2
<1> QED BY <1>3, <1>6 DEF Tune!FalsePositives, Tune!FalseNegatives

\* An observation invalidates the factor; what is answered was observed before.
LEMMA Observing ==
    ASSUME TuneAssumption, TuningInv, NEW x \in Clamped, Tune!Observe(x, Tune!EvaluateCost(x)), setting' = setting
    PROVE  /\ observations' \in Seq(Observed) /\ observations' # <<>> /\ Tune!CacheFits'
           /\ cache' \in [valid : BOOLEAN, seen : Nat, hyper : {0, 1}] /\ Clamped' = Clamped /\ Observed' = Observed
<1>1. Tune!EvaluateCost(x) \in Nat
  BY CostIsNumber DEF TuningInv, SearchType
<1> DEFINE o == [params |-> x, cost |-> Tune!EvaluateCost(x)]
<1>2. o \in Observed
  BY <1>1 DEF Observed
<1>3. observations' = Append(observations, o) /\ cache' = [cache EXCEPT !.valid = FALSE]
  BY DEF Tune!Observe
<1> HIDE DEF o
<1>4. observations \in Seq(Observed) /\ cache \in [valid : BOOLEAN, seen : Nat, hyper : {0, 1}]
  BY DEF TuningInv, SearchType
<1>5. observations' \in Seq(Observed) /\ observations' # <<>>
  BY <1>2, <1>3, <1>4
<1>6. cache' \in [valid : BOOLEAN, seen : Nat, hyper : {0, 1}] /\ ~cache'.valid
  BY <1>3, <1>4
<1> QED BY <1>5, <1>6 DEF Tune!CacheFits, Clamped, Observed, Tune!RandomPoints, Tune!Values, Tune!ClampTo

LEMMA SearchStep ==
    ASSUME TuneAssumption, TuningInv, Tune!SearchNext
    PROVE  TuningInv'
<1>1. setting' = setting
  BY DEF Tune!SearchNext, Tune!InsertNode, Tune!Cycle, Tune!ObserveCurrent, Tune!Initial, Tune!EvaluatePoint,
         Tune!Fit, Tune!Maximize, Tune!Improve, Tune!Return, Tune!Adopt
<1>2. Clamped' = Clamped /\ Observed' = Observed
  BY <1>1 DEF Clamped, Observed, Tune!RandomPoints, Tune!Values, Tune!ClampTo
<1>3. /\ nodes \in Seq(GroundTruths) /\ observations \in Seq(Observed) /\ applied \in Clamped
      /\ cache \in [valid : BOOLEAN, seen : Nat, hyper : {0, 1}]
  BY DEF TuningInv, SearchType
<1>4. CASE Tune!InsertNode
  <2>1. PICK n \in GroundTruths : nodes' = Append(nodes, n)
    BY <1>4 DEF Tune!InsertNode
  <2>2. UNCHANGED <<applied, observations, hyper, cache, at, point, result>>
    BY <1>4 DEF Tune!InsertNode, Tune!optimizerVars
  <2>3. nodes' \in Seq(GroundTruths)
    BY <1>3, <2>1
  <2> QED BY <1>1, <1>2, <2>2, <2>3
          DEF TuningInv, SearchType, CallInv, Tune!CacheFits, Tune!ReturnsBest, Tune!RandomPoints, Tune!Values
<1>5. CASE Tune!Cycle
  <2>1. /\ UNCHANGED <<nodes, applied, observations, hyper, cache, point>>
        /\ at' = "current" /\ result' = Tune!NoResult
    BY <1>5 DEF Tune!Cycle, Tune!optimizerVars
  <2> QED BY <1>1, <1>2, <2>1
          DEF TuningInv, SearchType, CallInv, Tune!CacheFits, Tune!ReturnsBest, Tune!RandomPoints, Tune!Values
<1>6. CASE Tune!ObserveCurrent
  <2>1. /\ at = "current" /\ UNCHANGED <<nodes, applied, hyper, point, result>>
        /\ \/ at' = "initial" /\ Tune!Observe(applied, Tune!EvaluateCost(applied))
           \/ at' = "idle" /\ UNCHANGED <<observations, cache>>
    BY <1>6 DEF Tune!ObserveCurrent
  <2>2. result = Tune!NoResult
    BY <2>1 DEF TuningInv, CallInv
  <2>3. CASE at' = "initial" /\ Tune!Observe(applied, Tune!EvaluateCost(applied))
    <3>1. /\ observations' \in Seq(Observed) /\ observations' # <<>> /\ Tune!CacheFits'
          /\ cache' \in [valid : BOOLEAN, seen : Nat, hyper : {0, 1}]
      BY <1>1, <1>3, <2>3, Observing
    <3> QED BY <1>2, <1>3, <2>1, <2>2, <2>3, <3>1 DEF TuningInv, SearchType, CallInv, Tune!ReturnsBest
  <2>4. CASE at' = "idle" /\ UNCHANGED <<observations, cache>>
    BY <1>2, <2>1, <2>2, <2>4, SMTT(60) DEF TuningInv, SearchType, CallInv, Tune!CacheFits, Tune!ReturnsBest
  <2> QED BY <2>1, <2>3, <2>4
<1>7. CASE Tune!Initial
  <2>1. /\ at = "initial" /\ UNCHANGED <<nodes, applied, observations, hyper, cache, result>>
        /\ \/ at' = "random" /\ point' \in Tune!RandomPoints
           \/ at' = "iterate"
    BY <1>7 DEF Tune!Initial, Tune!optimizerVars
  <2>2. Tune!RandomPoints' = Tune!RandomPoints
    BY DEF Tune!RandomPoints, Tune!Values
  <2> QED BY <1>2, <2>1, <2>2 DEF TuningInv, SearchType, CallInv, Tune!CacheFits, Tune!ReturnsBest
<1>8. CASE Tune!EvaluatePoint
  <2>1. /\ at \in {"random", "propose"} /\ UNCHANGED <<nodes, applied, hyper, point, result>>
        /\ \/ at' \in {"initial", "iterate"} /\ Tune!Observe(point, Tune!EvaluateCost(point))
           \/ at' = "idle" /\ UNCHANGED <<observations, cache>>
    BY <1>8 DEF Tune!EvaluatePoint
  <2>2. result = Tune!NoResult /\ point \in Clamped
    BY <2>1 DEF TuningInv, CallInv, Clamped
  <2>3. CASE at' \in {"initial", "iterate"} /\ Tune!Observe(point, Tune!EvaluateCost(point))
    <3>1. /\ observations' \in Seq(Observed) /\ observations' # <<>> /\ Tune!CacheFits'
          /\ cache' \in [valid : BOOLEAN, seen : Nat, hyper : {0, 1}]
      BY <1>1, <2>2, <2>3, Observing
    <3> QED BY <1>2, <1>3, <2>1, <2>2, <2>3, <3>1 DEF TuningInv, SearchType, CallInv, Tune!ReturnsBest
  <2>4. CASE at' = "idle" /\ UNCHANGED <<observations, cache>>
    BY <1>2, <2>1, <2>2, <2>4, SMTT(60) DEF TuningInv, SearchType, CallInv, Tune!CacheFits, Tune!ReturnsBest
  <2> QED BY <2>1, <2>3, <2>4
<1>9. CASE Tune!Fit
  <2>1. /\ at = "iterate" /\ UNCHANGED <<nodes, applied, observations, point, result>>
        /\ \/ at' = "crashed" /\ UNCHANGED <<hyper, cache>>
           \/ at' = "maximize" /\ cache' = [cache EXCEPT !.valid = FALSE] /\ hyper' \in {0, 1}
    BY <1>9 DEF Tune!Fit, TuningInv
  <2>2. result = Tune!NoResult /\ observations # <<>>
    BY <2>1 DEF TuningInv, CallInv
  <2>3. CASE at' = "crashed" /\ UNCHANGED <<hyper, cache>>
    BY <1>2, <2>1, <2>2, <2>3, SMTT(60) DEF TuningInv, SearchType, CallInv, Tune!CacheFits, Tune!ReturnsBest
  <2>4. CASE at' = "maximize" /\ cache' = [cache EXCEPT !.valid = FALSE] /\ hyper' \in {0, 1}
    <3>1. cache' \in [valid : BOOLEAN, seen : Nat, hyper : {0, 1}] /\ ~cache'.valid
      BY <1>3, <2>4
    <3> QED BY <1>2, <2>1, <2>2, <2>4, <3>1 DEF TuningInv, SearchType, CallInv, Tune!CacheFits, Tune!ReturnsBest
  <2> QED BY <2>1, <2>3, <2>4
<1>10. CASE Tune!Maximize
  <2>1. /\ at = "maximize" /\ UNCHANGED <<nodes, applied, observations, hyper, result>>
        /\ \/ at' = "crashed" /\ UNCHANGED <<cache, point>>
           \/ at' = "improve" /\ point' \in Tune!RandomPoints /\ Tune!EnsureCache
    BY <1>10 DEF Tune!Maximize
  <2>2. result = Tune!NoResult /\ observations # <<>> /\ Tune!RandomPoints' = Tune!RandomPoints
    BY <2>1 DEF TuningInv, CallInv, Tune!RandomPoints, Tune!Values
  <2>3. CASE at' = "crashed" /\ UNCHANGED <<cache, point>>
    BY <1>2, <2>1, <2>2, <2>3, SMTT(60) DEF TuningInv, SearchType, CallInv, Tune!CacheFits, Tune!ReturnsBest
  <2>4. CASE at' = "improve" /\ point' \in Tune!RandomPoints /\ Tune!EnsureCache
    <3>1. cache' \in [valid : BOOLEAN, seen : Nat, hyper : {0, 1}] /\ Tune!CacheFits'
      <4>1. Len(observations) \in Nat /\ hyper \in {0, 1}
        BY <1>3 DEF TuningInv, SearchType
      <4>2. CASE UNCHANGED cache
        BY <1>3, <2>1, <4>2 DEF TuningInv, Tune!CacheFits
      <4>3. CASE cache' = [valid |-> TRUE, seen |-> Len(observations), hyper |-> hyper]
        BY <2>1, <4>1, <4>3 DEF Tune!CacheFits
      <4>4. CASE cache' = [cache EXCEPT !.valid = FALSE]
        BY <1>3, <4>4 DEF Tune!CacheFits
      <4> QED BY <2>4, <4>2, <4>3, <4>4 DEF Tune!EnsureCache
    <3> QED BY <1>2, <2>1, <2>2, <2>4, <3>1, SMTT(60) DEF TuningInv, SearchType, CallInv, Tune!ReturnsBest
  <2> QED BY <2>1, <2>3, <2>4
<1>11. CASE Tune!Improve
  <2>1. /\ at = "improve" /\ at' \in {"return", "propose"}
        /\ UNCHANGED <<nodes, applied, observations, hyper, cache, point, result>>
    BY <1>11 DEF Tune!Improve, Tune!optimizerVars
  <2>2. result = Tune!NoResult /\ observations # <<>> /\ Tune!RandomPoints' = Tune!RandomPoints
        /\ point \in Tune!RandomPoints
    BY <2>1 DEF TuningInv, CallInv, Tune!RandomPoints, Tune!Values
  <2> QED BY <1>2, <2>1, <2>2 DEF TuningInv, SearchType, CallInv, Tune!CacheFits, Tune!ReturnsBest
<1>12. CASE Tune!Return
  <2>1. /\ at \in {"return", "iterate"} /\ at' = "idle" /\ result' = Tune!Best(observations)
        /\ UNCHANGED <<nodes, applied, observations, hyper, cache, point>>
    BY <1>12 DEF Tune!Return, Tune!optimizerVars
  <2>2. observations # <<>>
    BY <2>1 DEF TuningInv, CallInv
  <2>3. PICK i \in DOMAIN observations :
          /\ Tune!Best(observations) = observations[i]
          /\ \A j \in DOMAIN observations : observations[i].cost <= observations[j].cost
    BY <1>3, <2>2, BestIsLeast DEF Observed
  <2>4. observations[i] \in Observed
    BY <1>3
  <2>5. Tune!ReturnsBest'
    BY <2>1, <2>3 DEF Tune!ReturnsBest
  <2> QED BY <1>2, <2>1, <2>2, <2>3, <2>4, <2>5, SMTT(60) DEF TuningInv, SearchType, CallInv, Tune!CacheFits
<1>13. CASE Tune!Adopt
  <2>1. /\ at = "idle" /\ result # Tune!NoResult /\ applied' = result.params
        /\ UNCHANGED <<nodes, observations, hyper, cache, at, point, result>>
    BY <1>13 DEF Tune!Adopt, Tune!optimizerVars
  <2>2. applied' \in Clamped
    BY <2>1 DEF TuningInv, CallInv, Observed
  <2> QED BY <1>2, <2>1, <2>2 DEF TuningInv, SearchType, CallInv, Tune!CacheFits, Tune!ReturnsBest
<1> QED BY <1>4, <1>5, <1>6, <1>7, <1>8, <1>9, <1>10, <1>11, <1>12, <1>13 DEF Tune!SearchNext

\* TuningSearch (tuning_space.cpp, bayesian_optimizer.cpp, knowledge_graph_objective.cpp), for every
\* space, whatever nodes are inserted meanwhile and wherever the climbs end: no vector outside the
\* declared ranges is observed but the scheduler's first, a prediction's factor is one of all
\* observations, the answer was observed and nothing observed costs less, and a higher threshold
\* trades false positives for false negatives.
THEOREM SearchIsSound ==
    ASSUME TuneAssumption
    PROVE  Tune!SearchInit /\ [][Tune!SearchNext]_(Tune!searchVars) => []Tune!SearchSound
<1>1. Tune!SearchInit => TuningInv
  <2> SUFFICES ASSUME Tune!SearchInit PROVE TuningInv
    OBVIOUS
  <2>1. /\ nodes = <<>> /\ applied = setting.first /\ observations = <<>> /\ hyper = 0
        /\ cache = [valid |-> FALSE, seen |-> 0, hyper |-> 0] /\ at = "idle" /\ result = Tune!NoResult
    BY DEF Tune!SearchInit, Tune!NoCache
  <2>2. nodes \in Seq(GroundTruths) /\ observations \in Seq(Observed)
    BY <2>1
  <2>3. SearchType
    BY <2>1, <2>2 DEF SearchType, Clamped
  <2> QED BY <2>1, <2>3 DEF TuningInv, CallInv, Tune!CacheFits, Tune!ReturnsBest
<1>2. TuningInv /\ [Tune!SearchNext]_(Tune!searchVars) => TuningInv'
  <2> SUFFICES ASSUME TuningInv, [Tune!SearchNext]_(Tune!searchVars) PROVE TuningInv'
    OBVIOUS
  <2>1. CASE UNCHANGED Tune!searchVars
    <3>1. UNCHANGED <<setting, nodes, applied, observations, hyper, cache, at, point, result>>
      BY <2>1 DEF Tune!searchVars
    <3>2. Clamped' = Clamped /\ Observed' = Observed /\ Tune!RandomPoints' = Tune!RandomPoints
      BY <3>1 DEF Clamped, Observed, Tune!RandomPoints, Tune!Values, Tune!ClampTo
    <3> QED BY <3>1, <3>2 DEF TuningInv, SearchType, CallInv, Tune!CacheFits, Tune!ReturnsBest
  <2> QED BY <2>1, SearchStep
<1>3. TuningInv => Tune!SearchSound
  <2> SUFFICES ASSUME TuningInv PROVE Tune!SearchSound
    OBVIOUS
  <2>1. Tune!ThresholdTradesOff
    BY TradesOff DEF TuningInv, SearchType
  <2>2. ASSUME NEW i \in DOMAIN observations, observations[i].params # setting.first
        PROVE  \A j \in DOMAIN Space : observations[i].params[j] \in Space[j].min .. Space[j].max
    <3>1. observations[i] \in Observed
      BY DEF TuningInv, SearchType
    <3>2. observations[i].params \in Tune!RandomPoints
      BY <2>2, <3>1 DEF Observed, Clamped
    <3> QED BY <3>2, PointsInRanges DEF InRanges
  <2>3. Tune!StaysInBounds
    BY <2>2 DEF Tune!StaysInBounds
  <2> QED BY <2>1, <2>3 DEF TuningInv, Tune!SearchSound
<1> QED BY <1>1, <1>2, <1>3, PTL

-----------------------------------------------------------------------------
(* Reasoning: the frame that a verdict is of.                               *)

CONSTANTS Inspected, Batched, Graph, Trees, Epsilon, BufferSize, MaxInspected, MaxAdded, TreeNodes
VARIABLES used, evaluated, facts, descent, conclusion, samples, searched, neighbours, filling, flushing, recorded

Reas == INSTANCE Reasoning WITH tree <- used, Frames <- Inspected, MaxFrames <- MaxInspected, MaxSamples <- MaxAdded,
                                walk <- descent, result <- conclusion, bank <- samples, cache <- searched,
                                found <- neighbours, write <- filling, flush <- flushing

\* The nodes of the trees that are loaded: they ask for what is detected, and their children
\* are such nodes too.
NodeOK(m) ==
  /\ m.kind = "branch" => /\ m.field \in Reas!Keys /\ m.default \in TreeNodes
                          /\ DOMAIN m.branches \subseteq Nat
                          /\ \A i \in DOMAIN m.branches : m.branches[i].node \in TreeNodes
  /\ m.kind = "leaf" => \A i \in DOMAIN m.formulas : \A j \in DOMAIN m.formulas[i].features :
                          m.formulas[i].features[j] \in Reas!Keys

\* The path of a frame without a batch has an arrow; the tree there is at first has loaded.
ReasAssumption ==
  /\ Epsilon \in Nat \ {0} /\ \A f \in Inspected : f.query \in Int
  /\ \A f \in Inspected : f.surface \notin Batched => ~Reas!ResolveFails(f.paths)
  /\ \A m \in TreeNodes : NodeOK(m)
  /\ Trees[1].root \in TreeNodes
  /\ \A i \in DOMAIN Trees : Trees[i].root.kind # "error" => Trees[i].root \in TreeNodes

Own(f) == [k \in Reas!Keys |-> f[k[1]]]

\* The nodes after those of S.
Layer(S, fb) == UNION {Reas!Followed(m, fb) : m \in {x \in S : x.kind = "branch"}}
Layers(base, fb, n, reach) ==
  /\ reach[0] = {base} /\ \A k \in 1 .. n : reach[k] = Layer(reach[k - 1], fb)

LEMMA FollowedIsNode ==
    ASSUME ReasAssumption, NEW m \in TreeNodes, m.kind = "branch", NEW fb
    PROVE  Reas!Followed(m, fb) \subseteq TreeNodes
BY DEF ReasAssumption, NodeOK, Reas!Followed, Reas!Hits

LEMMA SupportedLayers ==
    ASSUME ReasAssumption, NEW base \in TreeNodes, NEW fb, NEW n \in Nat
    PROVE  \E reach : Layers(base, fb, n, reach) /\ Reas!Supported(base, fb, n) = reach[n]
<1> DEFINE D == SUBSET TreeNodes
           step == [i \in Nat |-> [S \in D |-> Layer(S, fb)]]
           Rec(g) == g = [k \in 0 .. n |-> IF k = 0 THEN {base}
                            ELSE UNION {Reas!Followed(m, fb) : m \in {x \in g[k - 1] : x.kind = "branch"}}]
           reach == CHOOSE g : Rec(g)
<1>1. Reas!Supported(base, fb, n) = reach[n]
  BY DEF Reas!Supported
<1>2. \A S \in D : Layer(S, fb) \in D
  BY FollowedIsNode DEF Layer
<1>3. {base} \in D
  OBVIOUS
<1> HIDE DEF D
<1>4. (\A i \in Nat : \A S \in D : step[i][S] \in D) /\ \A i \in Nat : \A S \in D : step[i][S] = Layer(S, fb)
  BY <1>2
<1> HIDE DEF step
<1>5. PICK f : Recurs(f, 0, n, D, {base}, step)
  <2> DEFINE zero == 0
             x == {base}
  <2>1. zero \in Nat /\ n \in Nat /\ zero <= n /\ x \in D
    BY <1>3
  <2> HIDE DEF zero, x, Rec, reach
  <2>2. \E f : Recurs(f, zero, n, D, x, step)
    BY <1>4, <2>1, RecursionDefines, Zenon
  <2> QED BY <2>2 DEF zero, x
<1>6. f \in [0 .. n -> D] /\ f[0] = {base} /\ \A i \in 0 + 1 .. n : f[i] = step[i][f[i - 1]]
  BY <1>5 DEF Recurs
<1>7. Rec(f)
  <2>1. ASSUME NEW i \in 0 .. n, i # 0 PROVE f[i] = Layer(f[i - 1], fb)
    <3>1. i \in 0 + 1 .. n /\ i \in Nat /\ i - 1 \in 0 .. n
      BY <2>1
    <3>2. f[i - 1] \in D
      BY <1>6, <3>1
    <3> QED BY <1>4, <1>6, <3>1, <3>2
  <2> QED BY <1>6, <2>1 DEF Layer
<1>8. Rec(reach)
  BY <1>7
<1> HIDE DEF reach
<1>9. Layers(base, fb, n, reach)
  <2>1. 0 \in 0 .. n /\ \A i \in 1 .. n : i \in 0 .. n /\ i # 0
    OBVIOUS
  <2>2. reach[0] = {base}
    BY <1>8, <2>1
  <2>3. ASSUME NEW i \in 1 .. n PROVE reach[i] = Layer(reach[i - 1], fb)
    BY <1>8, <2>1 DEF Layer
  <2> QED BY <2>2, <2>3 DEF Layers
<1> QED BY <1>1, <1>9

\* What is supported after one branch more.
LEMMA SupportedNext ==
    ASSUME ReasAssumption, NEW base \in TreeNodes, NEW fb
    PROVE  /\ Reas!Supported(base, fb, 0) = {base}
           /\ \A n \in Nat : Reas!Supported(base, fb, n + 1) = Layer(Reas!Supported(base, fb, n), fb)
<1>1. Reas!Supported(base, fb, 0) = {base}
  <2>1. PICK r : Layers(base, fb, 0, r) /\ Reas!Supported(base, fb, 0) = r[0]
    BY SupportedLayers
  <2> QED BY <2>1 DEF Layers
<1>2. ASSUME NEW n \in Nat PROVE Reas!Supported(base, fb, n + 1) = Layer(Reas!Supported(base, fb, n), fb)
  <2>1. PICK a : Layers(base, fb, n, a) /\ Reas!Supported(base, fb, n) = a[n]
    BY SupportedLayers
  <2> DEFINE m == n + 1
  <2>2. m \in Nat
    OBVIOUS
  <2> HIDE DEF m
  <2>3. PICK b : Layers(base, fb, m, b) /\ Reas!Supported(base, fb, m) = b[m]
    BY <2>2, SupportedLayers
  <2> DEFINE T == {k \in 0 .. n : a[k] = b[k]}
  <2>4. 0 \in T
    BY <2>1, <2>3 DEF Layers
  <2>5. ASSUME NEW k \in 0 .. n, k + 1 <= n, k \in T PROVE k + 1 \in T
    <3>1. k + 1 \in 0 .. n /\ k + 1 \in 1 .. n /\ k + 1 \in 1 .. m /\ (k + 1) - 1 = k
      BY <2>5 DEF m
    <3>2. a[k + 1] = Layer(a[k], fb) /\ b[k + 1] = Layer(b[k], fb)
      BY <2>1, <2>3, <3>1 DEF Layers
    <3> QED BY <2>5, <3>1, <3>2
  <2> HIDE DEF T
  <2>6. n \in T
    <3>1. 0 \in Nat /\ n \in 0 .. n
      OBVIOUS
    <3> QED BY <2>4, <2>5, <3>1, StepByStep
  <2>7. m \in 1 .. m /\ m - 1 = n
    BY DEF m
  <2>8. b[m] = Layer(b[n], fb)
    BY <2>3, <2>7 DEF Layers
  <2> QED BY <2>1, <2>3, <2>6, <2>8 DEF T, m
<1> QED BY <1>1, <1>2

\* The facts of a frame without a batch agree with its detection.
LEMMA FactsAreOwn ==
    ASSUME ReasAssumption, NEW f \in Inspected, f.surface \notin Batched
    PROVE  /\ Reas!Keys \subseteq DOMAIN Reas!BuildFacts(f)
           /\ \A k \in Reas!Keys : Reas!BuildFacts(f)[k] = Own(f)[k]
<1>1. Reas!GraphPaths(f) = f.paths
  BY DEF Reas!GraphPaths
<1>2. ~Reas!ResolveFails(Reas!GraphPaths(f))
  BY <1>1 DEF ReasAssumption
<1>3. DOMAIN Reas!MapDetection(f) = Reas!Keys /\ \A k \in Reas!Keys : Reas!MapDetection(f)[k] = Own(f)[k]
  BY DEF Reas!MapDetection, Own
<1> QED BY <1>2, <1>3 DEF Reas!BuildFacts

\* A node that asks for what is detected goes the same way.
LEMMA SameHits ==
    ASSUME NEW m, m.field \in Reas!Keys, NEW fb, NEW its,
           Reas!Keys \subseteq DOMAIN fb, Reas!Keys \subseteq DOMAIN its, \A k \in Reas!Keys : fb[k] = its[k]
    PROVE  Reas!Hits(m, fb) = Reas!Hits(m, its)
BY DEF Reas!Hits

LEMMA SameScore ==
    ASSUME ReasAssumption, NEW m \in TreeNodes, m.kind = "leaf", NEW fb, NEW its,
           Reas!Keys \subseteq DOMAIN fb, Reas!Keys \subseteq DOMAIN its, \A k \in Reas!Keys : fb[k] = its[k]
    PROVE  Reas!ComputeMax(m.formulas, fb) = Reas!ComputeMax(m.formulas, its)
<1>1. ASSUME NEW i \in DOMAIN m.formulas
      PROVE  Reas!Compute(m.formulas[i], fb) = Reas!Compute(m.formulas[i], its)
  <2> DEFINE f == m.formulas[i]
             terms(b) == [j \in DOMAIN f.features |->
                            IF f.features[j] \in DOMAIN b THEN f.weights[j] * b[f.features[j]] ELSE 0]
  <2>1. \A j \in DOMAIN f.features : f.features[j] \in Reas!Keys
    BY DEF ReasAssumption, NodeOK
  <2>2. terms(fb) = terms(its)
    BY <2>1
  <2> QED BY <2>2 DEF Reas!Compute
<1> QED BY <1>1 DEF Reas!ComputeMax

\* What the stages hold is of the frame they name, and a walk's node is one that its facts lead to.
ReasType == /\ evaluated \in Seq(Inspected)
            /\ used.root \in TreeNodes
FactsInv == facts # Reas!NoFacts => evaluated # <<>> /\ facts = Reas!BuildFacts(evaluated[Len(evaluated)])
DescentInv ==
  descent # Reas!NoWalk =>
    /\ DOMAIN descent = {"node", "steps", "tree", "facts", "frame", "gone"}
    /\ descent.frame \in DOMAIN evaluated /\ descent.facts = Reas!BuildFacts(evaluated[descent.frame])
    /\ descent.gone \in BOOLEAN
    /\ ~descent.gone => /\ descent.tree = used /\ descent.steps \in Nat /\ descent.node \in TreeNodes
                        /\ evaluated[descent.frame].surface \notin Batched =>
                             descent.node \in Reas!Supported(used.root, Own(evaluated[descent.frame]), descent.steps)
VerdictInv == /\ conclusion # Reas!NoResult => conclusion.frame \in DOMAIN evaluated
              /\ Reas!VerdictOfFrame
ReasInv == ReasType /\ FactsInv /\ DescentInv /\ VerdictInv /\ Reas!NeighboursNear

\* A frame that was evaluated stays the one of its number.
LEMMA FramesStay ==
    ASSUME ReasType, NEW f \in Inspected, evaluated' = Append(evaluated, f)
    PROVE  /\ evaluated' \in Seq(Inspected) /\ evaluated' # <<>> /\ evaluated'[Len(evaluated')] = f
           /\ \A i \in DOMAIN evaluated : i \in DOMAIN evaluated' /\ evaluated'[i] = evaluated[i]
           /\ Reas!Last(evaluated') = f
<1>1. evaluated \in Seq(Inspected) /\ Len(evaluated) \in Nat /\ DOMAIN evaluated = 1 .. Len(evaluated)
  BY DEF ReasType
<1>2. /\ evaluated' \in Seq(Inspected) /\ Len(evaluated') = Len(evaluated) + 1
      /\ DOMAIN evaluated' = 1 .. Len(evaluated) + 1
      /\ \A i \in 1 .. Len(evaluated) : evaluated'[i] = evaluated[i]
      /\ evaluated'[Len(evaluated) + 1] = f
  BY <1>1
<1> QED BY <1>1, <1>2 DEF Reas!Last

LEMMA RuleEvalStep ==
    ASSUME ReasAssumption, ReasInv, NEW f \in Inspected, Reas!RuleEval(f)
    PROVE  ReasInv'
<1>1. /\ evaluated' = Append(evaluated, f) /\ facts' = Reas!BuildFacts(f) /\ Reas!Retrieve(f.query)
      /\ used' = used /\ descent' = descent /\ conclusion' = conclusion
  BY DEF Reas!RuleEval
<1>2. /\ evaluated' \in Seq(Inspected) /\ evaluated' # <<>> /\ evaluated'[Len(evaluated')] = f
      /\ \A i \in DOMAIN evaluated : i \in DOMAIN evaluated' /\ evaluated'[i] = evaluated[i]
      /\ Reas!Last(evaluated') = f
  BY <1>1, FramesStay DEF ReasInv
<1>3. ReasType'
  BY <1>1, <1>2 DEF ReasInv, ReasType
<1>4. FactsInv'
  BY <1>1, <1>2 DEF FactsInv
<1>5. DescentInv'
  <2> SUFFICES ASSUME descent # Reas!NoWalk
               PROVE  /\ DOMAIN descent = {"node", "steps", "tree", "facts", "frame", "gone"}
                      /\ descent.frame \in DOMAIN evaluated'
                      /\ descent.facts = Reas!BuildFacts(evaluated'[descent.frame])
                      /\ descent.gone \in BOOLEAN
                      /\ ~descent.gone =>
                           /\ descent.tree = used /\ descent.steps \in Nat /\ descent.node \in TreeNodes
                           /\ evaluated'[descent.frame].surface \notin Batched =>
                                descent.node \in Reas!Supported(used.root, Own(evaluated'[descent.frame]), descent.steps)
    BY <1>1 DEF DescentInv
  <2>1. descent.frame \in DOMAIN evaluated
    BY DEF ReasInv, DescentInv
  <2>2. descent.frame \in DOMAIN evaluated' /\ evaluated'[descent.frame] = evaluated[descent.frame]
    BY <1>2, <2>1
  <2> QED BY <2>2 DEF ReasInv, DescentInv
<1>6. VerdictInv'
  <2>1. conclusion # Reas!NoResult => conclusion.frame \in DOMAIN evaluated' /\ evaluated'[conclusion.frame] = evaluated[conclusion.frame]
    BY <1>2 DEF ReasInv, VerdictInv
  <2>2. Reas!VerdictOfFrame'
    <3> SUFFICES ASSUME conclusion # Reas!NoResult, ~conclusion.gone, evaluated[conclusion.frame].surface \notin Batched
                 PROVE  LET its == [k \in Reas!Keys |-> evaluated[conclusion.frame][k[1]]]
                        IN  \E leaf \in Reas!Supported(conclusion.tree.root, its, conclusion.steps) :
                              leaf.kind = "leaf" /\ conclusion.label =
                                Reas!Verdict(leaf.label, Reas!ComputeMax(leaf.formulas, its), conclusion.tree.mapping)
      BY <1>1, <2>1 DEF Reas!VerdictOfFrame
    <3> QED BY DEF ReasInv, VerdictInv, Reas!VerdictOfFrame
  <2> QED BY <1>1, <2>1, <2>2 DEF VerdictInv
<1>7. Reas!NeighboursNear'
  <2>1. Epsilon \in Nat \ {0} /\ f.query \in Int
    BY DEF ReasAssumption
  <2>2. Reas!Near(f.query, f.query)
    <3> DEFINE q == f.query
    <3>1. q \in Int
      BY <2>1
    <3> HIDE DEF q
    <3>2. q - q = 0
      BY <3>1
    <3>3. 0 * 0 < Epsilon * Epsilon
      BY <2>1
    <3> QED BY <3>2, <3>3 DEF Reas!Near, q
  <2>3. neighbours' = Reas!Nothing \/ neighbours'.query = f.query \/ Reas!Near(neighbours'.query, f.query)
    BY <1>1 DEF Reas!Retrieve
  <2> QED BY <1>2, <2>2, <2>3 DEF Reas!NeighboursNear
<1> QED BY <1>3, <1>4, <1>5, <1>6, <1>7 DEF ReasInv

\* A walk starts at the base of the tree there is.
LEMMA ReasonStep ==
    ASSUME ReasAssumption, ReasInv, Reas!Reason
    PROVE  ReasInv'
<1>1. /\ facts # Reas!NoFacts /\ facts' = Reas!NoFacts
      /\ descent' = [node |-> used.root, steps |-> 0, tree |-> used, facts |-> facts, frame |-> Len(evaluated), gone |-> FALSE]
      /\ UNCHANGED <<used, evaluated, conclusion, neighbours>>
  BY DEF Reas!Reason
<1>2. evaluated \in Seq(Inspected) /\ used.root \in TreeNodes
  BY DEF ReasInv, ReasType
<1>3. evaluated # <<>> /\ facts = Reas!BuildFacts(evaluated[Len(evaluated)])
  BY <1>1 DEF ReasInv, FactsInv
<1>4. Len(evaluated) \in DOMAIN evaluated
  BY <1>2, <1>3
<1>5. \A fb : used.root \in Reas!Supported(used.root, fb, 0)
  BY <1>2, SupportedNext
<1>6. DescentInv'
  BY <1>1, <1>2, <1>3, <1>4, <1>5 DEF DescentInv
<1>7. ReasType' /\ FactsInv' /\ VerdictInv' /\ Reas!NeighboursNear'
  BY <1>1 DEF ReasInv, ReasType, FactsInv, VerdictInv, Reas!VerdictOfFrame, Reas!NeighboursNear
<1> QED BY <1>6, <1>7 DEF ReasInv

\* A branch goes to a child that its facts lead to.
LEMMA ChildFollows ==
    ASSUME ReasAssumption, NEW m \in TreeNodes, m.kind = "branch", NEW fb
    PROVE  Reas!Child(m, fb) \in Reas!Followed(m, fb)
<1> DEFINE hits == Reas!Hits(m, fb)
<1>1. CASE hits = {}
  BY <1>1 DEF Reas!Child, Reas!Followed
<1>2. CASE hits # {}
  <2>1. hits \in SUBSET Nat
    BY DEF ReasAssumption, NodeOK, Reas!Hits
  <2> HIDE DEF hits
  <2>2. PICK i \in hits : \A j \in hits : i <= j
    BY <1>2, <2>1, LeastNumber
  <2>3. Reas!Min(hits) \in hits
    BY <2>2 DEF Reas!Min
  <2> QED BY <1>2, <2>3 DEF hits, Reas!Child, Reas!Followed
<1> QED BY <1>1, <1>2

LEMMA DescendStep ==
    ASSUME ReasAssumption, ReasInv, Reas!Descend
    PROVE  ReasInv'
<1> DEFINE m == descent.node
           fb == descent.facts
           f == evaluated[descent.frame]
<1>1. /\ descent # Reas!NoWalk /\ ~descent.gone /\ m.kind = "branch"
      /\ descent' = [descent EXCEPT !.node = Reas!Child(m, fb), !.steps = @ + 1]
      /\ UNCHANGED <<used, evaluated, facts, conclusion, neighbours>>
  BY DEF Reas!Descend
<1>2. /\ DOMAIN descent = {"node", "steps", "tree", "facts", "frame", "gone"}
      /\ descent.frame \in DOMAIN evaluated /\ fb = Reas!BuildFacts(f)
      /\ descent.tree = used /\ descent.gone \in BOOLEAN /\ descent.steps \in Nat /\ m \in TreeNodes
      /\ f.surface \notin Batched => m \in Reas!Supported(used.root, Own(f), descent.steps)
  BY <1>1 DEF ReasInv, DescentInv
<1>3. /\ DOMAIN descent' = DOMAIN descent /\ descent'.node = Reas!Child(m, fb) /\ descent'.steps = descent.steps + 1
      /\ descent'.tree = descent.tree /\ descent'.facts = descent.facts /\ descent'.frame = descent.frame
      /\ descent'.gone = descent.gone
  BY <1>1, <1>2
<1> HIDE DEF m, fb, f
<1>4. Reas!Child(m, fb) \in Reas!Followed(m, fb)
  BY <1>1, <1>2, ChildFollows
<1>5. Reas!Child(m, fb) \in TreeNodes
  BY <1>1, <1>2, <1>4, FollowedIsNode
<1>6. ASSUME f.surface \notin Batched
      PROVE  Reas!Child(m, fb) \in Reas!Supported(used.root, Own(f), descent.steps + 1)
  <2>1. f \in Inspected
    <3>1. evaluated \in Seq(Inspected)
      BY DEF ReasInv, ReasType
    <3> QED BY <1>2, <3>1 DEF f
  <2>2. Reas!Keys \subseteq DOMAIN fb /\ \A k \in Reas!Keys : fb[k] = Own(f)[k]
    BY <1>2, <1>6, <2>1, FactsAreOwn
  <2>3. Reas!Keys \subseteq DOMAIN Own(f)
    BY DEF Own
  <2>4. m.field \in Reas!Keys
    BY <1>1, <1>2 DEF ReasAssumption, NodeOK
  <2>5. Reas!Hits(m, fb) = Reas!Hits(m, Own(f))
    BY <2>2, <2>3, <2>4, SameHits
  <2>6. Reas!Child(m, fb) \in Reas!Followed(m, Own(f))
    BY <1>4, <2>5 DEF Reas!Followed
  <2>7. Reas!Child(m, fb) \in Layer(Reas!Supported(used.root, Own(f), descent.steps), Own(f))
    BY <1>1, <1>2, <1>6, <2>6 DEF Layer
  <2>8. used.root \in TreeNodes
    BY DEF ReasInv, ReasType
  <2> QED BY <1>2, <2>7, <2>8, SupportedNext, SMTT(60)
<1>7. DescentInv'
  <2>1. descent'.steps \in Nat
    BY <1>2, <1>3
  <2>2. ~descent'.gone /\ evaluated'[descent'.frame] = f
    BY <1>1, <1>3 DEF f
  <2>3. /\ DOMAIN descent' = {"node", "steps", "tree", "facts", "frame", "gone"}
        /\ descent'.frame \in DOMAIN evaluated' /\ descent'.gone \in BOOLEAN
        /\ descent'.tree = used' /\ descent'.node \in TreeNodes
    BY <1>1, <1>2, <1>3, <1>5, <2>2
  <2>4. descent'.facts = Reas!BuildFacts(evaluated'[descent'.frame])
    BY <1>2, <1>3, <2>2 DEF fb
  <2>5. evaluated'[descent'.frame].surface \notin Batched =>
          descent'.node \in Reas!Supported(used'.root, Own(evaluated'[descent'.frame]), descent'.steps)
    BY <1>1, <1>3, <1>6, <2>2
  <2> QED BY <2>1, <2>3, <2>4, <2>5 DEF DescentInv
<1>8. ReasType' /\ FactsInv' /\ VerdictInv' /\ Reas!NeighboursNear'
  BY <1>1 DEF ReasInv, ReasType, FactsInv, VerdictInv, Reas!VerdictOfFrame, Reas!NeighboursNear
<1> QED BY <1>7, <1>8 DEF ReasInv

\* At a leaf the verdict is of the facts of its frame, and they are its detection's.
LEMMA ReachLeafStep ==
    ASSUME ReasAssumption, ReasInv, Reas!ReachLeaf
    PROVE  ReasInv'
<1> DEFINE m == descent.node
           fb == descent.facts
           f == evaluated[descent.frame]
           label == Reas!Verdict(m.label, Reas!ComputeMax(m.formulas, fb), used.mapping)
<1>1. /\ descent # Reas!NoWalk /\ ~descent.gone /\ m.kind = "leaf"
      /\ conclusion' = [label |-> label, frame |-> descent.frame, tree |-> descent.tree, steps |-> descent.steps,
                        gone |-> descent.gone]
      /\ descent' = Reas!NoWalk
      /\ UNCHANGED <<used, evaluated, facts, neighbours>>
  BY DEF Reas!ReachLeaf, Reas!Settle
<1>2. /\ descent.frame \in DOMAIN evaluated /\ fb = Reas!BuildFacts(f)
      /\ descent.tree = used /\ m \in TreeNodes
      /\ f.surface \notin Batched => m \in Reas!Supported(used.root, Own(f), descent.steps)
  BY <1>1 DEF ReasInv, DescentInv
<1> HIDE DEF m, fb, f, label
<1>3. ASSUME f.surface \notin Batched
      PROVE  \E leaf \in Reas!Supported(used.root, Own(f), descent.steps) :
               leaf.kind = "leaf" /\ label = Reas!Verdict(leaf.label, Reas!ComputeMax(leaf.formulas, Own(f)), used.mapping)
  <2>1. f \in Inspected
    <3>1. evaluated \in Seq(Inspected)
      BY DEF ReasInv, ReasType
    <3> QED BY <1>2, <3>1 DEF f
  <2>2. Reas!Keys \subseteq DOMAIN fb /\ \A k \in Reas!Keys : fb[k] = Own(f)[k]
    BY <1>2, <1>3, <2>1, FactsAreOwn
  <2>3. Reas!Keys \subseteq DOMAIN Own(f)
    BY DEF Own
  <2>4. Reas!ComputeMax(m.formulas, fb) = Reas!ComputeMax(m.formulas, Own(f))
    BY <1>1, <1>2, <2>2, <2>3, SameScore
  <2> QED BY <1>1, <1>2, <1>3, <2>4 DEF label
<1>4. Reas!VerdictOfFrame'
  <2>1. /\ conclusion'.label = label /\ conclusion'.frame = descent.frame /\ conclusion'.tree = used
        /\ conclusion'.steps = descent.steps /\ evaluated' = evaluated
    BY <1>1, <1>2
  <2>2. evaluated'[conclusion'.frame] = f /\ conclusion'.tree.root = used.root /\ conclusion'.tree.mapping = used.mapping
    BY <2>1 DEF f
  <2> QED BY <1>3, <2>1, <2>2 DEF Reas!VerdictOfFrame, Own
<1>5. VerdictInv'
  BY <1>1, <1>2, <1>4 DEF VerdictInv
<1>6. ReasType' /\ FactsInv' /\ DescentInv' /\ Reas!NeighboursNear'
  BY <1>1 DEF ReasInv, ReasType, FactsInv, DescentInv, Reas!NeighboursNear
<1> QED BY <1>5, <1>6 DEF ReasInv

\* After a reload nothing is said of the walk; the tree is one that has loaded.
LEMMA ReloadStep ==
    ASSUME ReasAssumption, ReasInv, NEW i \in DOMAIN Trees, Reas!ReloadTree(Trees[i])
    PROVE  ReasInv'
<1>1. CASE Trees[i].root.kind = "error"
  <2>1. UNCHANGED <<used, descent, evaluated, facts, conclusion, neighbours>>
    BY <1>1 DEF Reas!ReloadTree
  <2> QED BY <2>1 DEF ReasInv, ReasType, FactsInv, DescentInv, VerdictInv, Reas!VerdictOfFrame, Reas!NeighboursNear
<1>2. CASE Trees[i].root.kind # "error"
  <2>1. /\ used' = Trees[i] /\ UNCHANGED <<evaluated, facts, conclusion, neighbours>>
        /\ descent' = IF descent = Reas!NoWalk THEN descent
                      ELSE [descent EXCEPT !.gone = TRUE, !.node = used.root, !.steps = 0]
    BY <1>2 DEF Reas!ReloadTree
  <2>2. used'.root \in TreeNodes
    BY <1>2, <2>1 DEF ReasAssumption
  <2>3. DescentInv'
    <3>1. CASE descent = Reas!NoWalk
      <4>1. descent' = Reas!NoWalk
        BY <2>1, <3>1
      <4> QED BY <4>1 DEF DescentInv, Reas!NoWalk
    <3>2. CASE descent # Reas!NoWalk
      <4>1. /\ DOMAIN descent = {"node", "steps", "tree", "facts", "frame", "gone"}
            /\ descent.frame \in DOMAIN evaluated /\ descent.facts = Reas!BuildFacts(evaluated[descent.frame])
        BY <3>2 DEF ReasInv, DescentInv
      <4>2. /\ DOMAIN descent' = DOMAIN descent /\ descent'.gone = TRUE
            /\ descent'.frame = descent.frame /\ descent'.facts = descent.facts
        BY <2>1, <3>2, <4>1
      <4> QED BY <2>1, <4>1, <4>2 DEF DescentInv
    <3> QED BY <3>1, <3>2
  <2>4. ReasType' /\ FactsInv' /\ VerdictInv' /\ Reas!NeighboursNear'
    BY <2>1, <2>2 DEF ReasInv, ReasType, FactsInv, VerdictInv, Reas!VerdictOfFrame, Reas!NeighboursNear
  <2> QED BY <2>3, <2>4 DEF ReasInv
<1> QED BY <1>1, <1>2

LEMMA ReasInvStep ==
    ASSUME ReasAssumption, ReasInv, [Reas!ReasonNext]_(Reas!reasonVars)
    PROVE  ReasInv'
<1>1. ASSUME UNCHANGED <<used, descent, evaluated, facts, conclusion, neighbours>> PROVE ReasInv'
  BY <1>1 DEF ReasInv, ReasType, FactsInv, DescentInv, VerdictInv, Reas!VerdictOfFrame, Reas!NeighboursNear
<1>2. CASE UNCHANGED Reas!reasonVars \/ Reas!FlushSwap \/ Reas!FlushWrite \/ Reas!AddSample
  BY <1>1, <1>2 DEF Reas!reasonVars, Reas!FlushSwap, Reas!FlushWrite, Reas!AddSample
<1>3. CASE \E f \in Inspected : Reas!RuleEval(f)
  BY <1>3, RuleEvalStep
<1>4. CASE Reas!Reason
  BY <1>4, ReasonStep
<1>5. CASE Reas!Descend
  BY <1>5, DescendStep
<1>6. CASE Reas!ReachLeaf
  BY <1>6, ReachLeafStep
<1>7. CASE Reas!EndAnywhere
  <2>1. /\ descent # Reas!NoWalk /\ descent.gone /\ descent' = Reas!NoWalk
        /\ conclusion' = [label |-> "any", frame |-> descent.frame, tree |-> descent.tree, steps |-> descent.steps,
                          gone |-> descent.gone]
        /\ UNCHANGED <<used, evaluated, facts, neighbours>>
    BY <1>7 DEF Reas!EndAnywhere, Reas!Settle
  <2>2. descent.frame \in DOMAIN evaluated
    BY <2>1 DEF ReasInv, DescentInv
  <2>3. conclusion'.gone /\ conclusion'.frame = descent.frame
    BY <2>1
  <2>4. VerdictInv'
    BY <2>1, <2>2, <2>3 DEF VerdictInv, Reas!VerdictOfFrame
  <2>5. ReasType' /\ FactsInv' /\ DescentInv' /\ Reas!NeighboursNear'
    BY <2>1 DEF ReasInv, ReasType, FactsInv, DescentInv, Reas!NeighboursNear
  <2> QED BY <2>4, <2>5 DEF ReasInv
<1>8. CASE \E i \in DOMAIN Trees : Reas!ReloadTree(Trees[i])
  BY <1>8, ReloadStep
<1> QED BY <1>2, <1>3, <1>4, <1>5, <1>6, <1>7, <1>8 DEF Reas!ReasonNext

LEMMA ReasInitInv == ASSUME ReasAssumption, Reas!ReasonInit PROVE ReasInv
<1>1. /\ used = Trees[1] /\ evaluated = <<>> /\ facts = Reas!NoFacts /\ descent = Reas!NoWalk
      /\ conclusion = Reas!NoResult /\ neighbours = Reas!Nothing
  BY DEF Reas!ReasonInit
<1>2. evaluated \in Seq(Inspected)
  BY <1>1
<1> QED BY <1>1, <1>2 DEF ReasAssumption, ReasInv, ReasType, FactsInv, DescentInv, VerdictInv, Reas!VerdictOfFrame,
                           Reas!NeighboursNear

\* Reasoning (reasoner.cpp:25-75, fact_builder.cpp:386-410), for every set of frames and trees, any
\* graph and every number of samples: a verdict is one that the detection of its own frame
\* supports in the tree of the walk, whatever is evaluated and reloaded meanwhile, and the
\* neighbours of a frame were searched for a query within epsilon of its own.
THEOREM VerdictsAreOfFrames ==
    ASSUME ReasAssumption
    PROVE  Reas!ReasonSpec => [](Reas!VerdictOfFrame /\ Reas!NeighboursNear)
<1>1. Reas!ReasonInit => ReasInv
  BY ReasInitInv
<1>2. ReasInv /\ [Reas!ReasonNext]_(Reas!reasonVars) => ReasInv'
  BY ReasInvStep
<1>3. ReasInv => Reas!VerdictOfFrame /\ Reas!NeighboursNear
  BY DEF ReasInv, VerdictInv
<1> QED BY <1>1, <1>2, <1>3, PTL DEF Reas!ReasonSpec

-----------------------------------------------------------------------------
(* Reasoning: what is recorded, through the two buffers.                    *)

Rising(s) == \A i, j \in DOMAIN s : i < j => s[i] < s[j]
Precedes(s, t) == \A i \in DOMAIN s, j \in DOMAIN t : s[i] < t[j]
Seen(s) == s \in Seq(Nat) /\ Rising(s) /\ \A i \in DOMAIN s : s[i] <= Len(evaluated)

\* The frames recorded come before those being written, and these before those to come.
RecInv == /\ evaluated \in Seq(Inspected)
          /\ Seen(recorded) /\ Seen(flushing) /\ Seen(filling)
          /\ Precedes(recorded, flushing) /\ Precedes(flushing, filling) /\ Precedes(recorded, filling)

LEMMA RisingConcat ==
    ASSUME NEW s \in Seq(Nat), NEW t \in Seq(Nat), Rising(s), Rising(t), Precedes(s, t)
    PROVE  /\ s \o t \in Seq(Nat) /\ Rising(s \o t)
           /\ \A k \in DOMAIN (s \o t) : (\E i \in DOMAIN s : (s \o t)[k] = s[i]) \/ (\E i \in DOMAIN t : (s \o t)[k] = t[i])
<1> DEFINE m == Len(s)
           n == Len(t)
           c == s \o t
<1>1. c \in Seq(Nat) /\ m \in Nat /\ n \in Nat /\ DOMAIN s = 1 .. m /\ DOMAIN t = 1 .. n
  OBVIOUS
<1>2. /\ DOMAIN c = 1 .. m + n
      /\ \A i \in 1 .. m : c[i] = s[i]
      /\ \A i \in m + 1 .. m + n : c[i] = t[i - m]
  BY ConcatEntries
<1>3. /\ \A i \in 1 .. m : s[i] \in Nat
      /\ \A i \in 1 .. n : t[i] \in Nat
  BY <1>1
<1> HIDE DEF c, m, n
<1>4. \A k \in DOMAIN c : k \in 1 .. m \/ (k \in m + 1 .. m + n /\ k - m \in 1 .. n)
  BY <1>1, <1>2
<1>5. ASSUME NEW i \in DOMAIN c, NEW j \in DOMAIN c, i < j PROVE c[i] < c[j]
  <2>1. CASE j \in 1 .. m
    <3>1. i \in 1 .. m
      BY <1>1, <1>2, <1>5, <2>1
    <3> QED BY <1>1, <1>2, <1>5, <2>1, <3>1 DEF Rising
  <2>2. CASE i \in 1 .. m /\ j \notin 1 .. m
    <3>1. c[i] = s[i] /\ c[j] = t[j - m] /\ j - m \in 1 .. n
      BY <1>2, <1>4, <2>2
    <3> QED BY <1>1, <2>2, <3>1 DEF Precedes
  <2>3. CASE i \notin 1 .. m
    <3>1. c[i] = t[i - m] /\ c[j] = t[j - m] /\ i - m \in 1 .. n /\ j - m \in 1 .. n /\ i - m < j - m
      BY <1>1, <1>2, <1>4, <1>5, <2>3, SMTT(60)
    <3> QED BY <1>1, <3>1 DEF Rising
  <2> QED BY <2>1, <2>2, <2>3
<1>6. Rising(c)
  BY <1>5 DEF Rising
<1>7. \A k \in DOMAIN c : (\E i \in DOMAIN s : c[k] = s[i]) \/ (\E i \in DOMAIN t : c[k] = t[i])
  BY <1>1, <1>2, <1>4
<1> QED BY <1>1, <1>6, <1>7 DEF c

LEMMA NothingSeen == Seen(<<>>) /\ (\A s : Precedes(s, <<>>) /\ Precedes(<<>>, s))
<1>1. DOMAIN (<<>>) = {} /\ <<>> \in Seq(Nat)
  OBVIOUS
<1> QED BY <1>1 DEF Seen, Rising, Precedes

LEMMA RecordedFollows ==
    ASSUME RecInv
    PROVE  Reas!RecordedOnce
<1>1. /\ recorded \in Seq(Nat) /\ flushing \in Seq(Nat) /\ filling \in Seq(Nat)
      /\ Rising(recorded) /\ Rising(flushing) /\ Rising(filling)
      /\ Precedes(recorded, flushing) /\ Precedes(flushing, filling) /\ Precedes(recorded, filling)
  BY DEF RecInv, Seen
<1> DEFINE s == recorded \o flushing
<1>2. /\ s \in Seq(Nat) /\ Rising(s)
      /\ \A k \in DOMAIN s : (\E i \in DOMAIN recorded : s[k] = recorded[i]) \/ (\E i \in DOMAIN flushing : s[k] = flushing[i])
  BY <1>1, RisingConcat
<1> HIDE DEF s
<1>3. Precedes(s, filling)
  BY <1>1, <1>2 DEF Precedes
<1>4. Rising(s \o filling)
  BY <1>1, <1>2, <1>3, RisingConcat
<1> QED BY <1>4 DEF Reas!RecordedOnce, Rising, s

\* A record is of a frame after all those that are held.
LEMMA RecordStep ==
    ASSUME RecInv, NEW f \in Inspected, Reas!RuleEval(f)
    PROVE  RecInv'
<1> DEFINE n == Len(evaluated)
<1>1. /\ evaluated' = Append(evaluated, f) /\ recorded' = recorded /\ flushing' = flushing
      /\ filling' = filling \/ filling' = Append(filling, n + 1)
  BY DEF Reas!RuleEval, Reas!WriteRecord
<1>2. evaluated' \in Seq(Inspected) /\ Len(evaluated') = n + 1 /\ n \in Nat
  BY <1>1 DEF RecInv
<1>3. ASSUME NEW s, Seen(s)
      PROVE  s \in Seq(Nat) /\ Rising(s) /\ \A i \in DOMAIN s : s[i] \in Nat /\ s[i] <= n /\ s[i] <= Len(evaluated')
  <2>1. \A i \in DOMAIN s : s[i] \in Nat /\ s[i] <= n
    BY <1>3 DEF Seen
  <2> HIDE DEF n
  <2> QED BY <1>2, <1>3, <2>1 DEF Seen
<1>4. Seen(recorded)' /\ Seen(flushing)' /\ Precedes(recorded, flushing)'
  <2>1. Seen(recorded) /\ Seen(flushing) /\ Precedes(recorded, flushing)
    BY DEF RecInv
  <2> QED BY <1>1, <1>3, <2>1 DEF Seen, Rising, Precedes
<1>5. CASE filling' = filling
  <2>1. Seen(filling) /\ Precedes(flushing, filling) /\ Precedes(recorded, filling)
    BY DEF RecInv
  <2>2. Seen(filling)'
    BY <1>3, <1>5, <2>1 DEF Seen, Rising
  <2> QED BY <1>1, <1>2, <1>4, <1>5, <2>1, <2>2 DEF RecInv, Precedes
<1>6. CASE filling' = Append(filling, n + 1)
  <2> DEFINE k == Len(filling)
  <2>1. /\ Seen(filling) /\ Seen(flushing) /\ Seen(recorded)
        /\ Precedes(flushing, filling) /\ Precedes(recorded, filling)
    BY DEF RecInv
  <2>2. filling \in Seq(Nat) /\ k \in Nat /\ DOMAIN filling = 1 .. k
    BY <2>1 DEF Seen
  <2>3. /\ filling' \in Seq(Nat) /\ DOMAIN filling' = 1 .. k + 1
        /\ \A i \in 1 .. k : filling'[i] = filling[i]
        /\ filling'[k + 1] = n + 1
    BY <1>2, <1>6, <2>2
  <2> HIDE DEF k, n
  <2>4. \A i \in DOMAIN filling' : i = k + 1 \/ i \in DOMAIN filling
    BY <2>2, <2>3
  <2>5. ASSUME NEW i \in DOMAIN filling', NEW j \in DOMAIN filling', i < j PROVE filling'[i] < filling'[j]
    <3>1. i \in DOMAIN filling
      BY <2>2, <2>3, <2>5
    <3>2. CASE j = k + 1
      <4>1. filling[i] <= n /\ filling[i] \in Nat
        BY <1>3, <2>1, <3>1
      <4> QED BY <1>2, <2>2, <2>3, <3>1, <3>2, <4>1
    <3>3. CASE j \in DOMAIN filling
      <4>1. filling[i] < filling[j]
        BY <2>1, <2>5, <3>1, <3>3 DEF Seen, Rising
      <4> QED BY <2>2, <2>3, <3>1, <3>3, <4>1
    <3> QED BY <2>4, <3>2, <3>3
  <2>6. Rising(filling')
    BY <2>5 DEF Rising
  <2>7. \A i \in DOMAIN filling' : filling'[i] <= Len(evaluated')
    BY <1>2, <1>3, <2>1, <2>2, <2>3, <2>4, SMTT(60)
  <2>8. ASSUME NEW s, Seen(s), Precedes(s, filling) PROVE Precedes(s, filling')
    <3>1. ASSUME NEW i \in DOMAIN s, NEW j \in DOMAIN filling' PROVE s[i] < filling'[j]
      <4>1. s[i] <= n /\ s[i] \in Nat
        BY <1>3, <2>8
      <4>2. CASE j = k + 1
        BY <1>2, <2>3, <4>1, <4>2
      <4>3. CASE j \in DOMAIN filling
        BY <2>2, <2>3, <2>8, <4>3 DEF Precedes
      <4> QED BY <2>4, <4>2, <4>3
    <3> QED BY <3>1 DEF Precedes
  <2>9. Precedes(flushing, filling)' /\ Precedes(recorded, filling)'
    <3>1. Precedes(flushing, filling') /\ Precedes(recorded, filling')
      BY <2>1, <2>8
    <3> QED BY <1>1, <3>1 DEF Precedes
  <2>10. Seen(filling)'
    BY <2>3, <2>6, <2>7 DEF Seen, Rising
  <2> QED BY <1>2, <1>4, <2>9, <2>10 DEF RecInv
<1> QED BY <1>1, <1>5, <1>6

\* The buffers change places, or what is in the one is recorded or lost.
LEMMA FlushSteps ==
    ASSUME RecInv, Reas!FlushSwap \/ Reas!FlushWrite
    PROVE  RecInv'
<1>1. CASE Reas!FlushSwap
  <2>1. flushing' = filling /\ filling' = <<>> /\ UNCHANGED <<evaluated, recorded>>
    BY <1>1 DEF Reas!FlushSwap
  <2>2. Seen(<<>>) /\ \A s : Precedes(s, <<>>)
    BY NothingSeen
  <2> QED BY <2>1, <2>2 DEF RecInv, Seen, Rising, Precedes
<1>2. CASE Reas!FlushWrite
  <2>1. flushing' = <<>> /\ UNCHANGED <<evaluated, filling>> /\ (recorded' = recorded \/ recorded' = recorded \o flushing)
    BY <1>2 DEF Reas!FlushWrite
  <2>2. Seen(<<>>) /\ \A s : Precedes(s, <<>>) /\ Precedes(<<>>, s)
    BY NothingSeen
  <2>3. CASE recorded' = recorded
    BY <2>1, <2>2, <2>3 DEF RecInv, Seen, Rising, Precedes
  <2>4. CASE recorded' = recorded \o flushing
    <3>1. /\ Seen(recorded) /\ Seen(flushing) /\ Seen(filling)
          /\ Precedes(recorded, flushing) /\ Precedes(flushing, filling) /\ Precedes(recorded, filling)
      BY DEF RecInv
    <3>2. recorded \in Seq(Nat) /\ flushing \in Seq(Nat) /\ Rising(recorded) /\ Rising(flushing)
      BY <3>1 DEF Seen
    <3> DEFINE c == recorded \o flushing
    <3>3. /\ c \in Seq(Nat) /\ Rising(c)
          /\ \A k \in DOMAIN c : (\E i \in DOMAIN recorded : c[k] = recorded[i]) \/ (\E i \in DOMAIN flushing : c[k] = flushing[i])
      BY <3>1, <3>2, RisingConcat
    <3>4. c = recorded'
      BY <2>4
    <3> HIDE DEF c
    <3>5. Seen(c)
      BY <3>1, <3>3 DEF Seen
    <3>6. Precedes(c, filling)
      BY <3>1, <3>3 DEF Precedes
    <3> QED BY <2>1, <2>2, <3>4, <3>5, <3>6 DEF RecInv, Seen, Rising, Precedes
  <2> QED BY <2>1, <2>3, <2>4
<1> QED BY <1>1, <1>2

\* Reasoning (inspection_recorder.cpp:33-113), for every size of the buffers and number of frames:
\* a frame is recorded once at most and in the order of evaluation, whichever of the two
\* buffers it is in.
THEOREM FramesRecordedOnce == Reas!ReasonSpec => []Reas!RecordedOnce
<1>1. Reas!ReasonInit => RecInv
  BY NothingSeen DEF Reas!ReasonInit, RecInv
<1>2. RecInv /\ [Reas!ReasonNext]_(Reas!reasonVars) => RecInv'
  <2> SUFFICES ASSUME RecInv, [Reas!ReasonNext]_(Reas!reasonVars) PROVE RecInv'
    OBVIOUS
  <2>1. ASSUME UNCHANGED <<evaluated, filling, flushing, recorded>> PROVE RecInv'
    BY <2>1 DEF RecInv, Seen, Rising, Precedes
  <2>2. CASE UNCHANGED Reas!reasonVars \/ Reas!AddSample \/ Reas!Reason \/ Reas!Descend
    BY <2>1, <2>2 DEF Reas!reasonVars, Reas!AddSample, Reas!Reason, Reas!Descend
  <2>3. CASE Reas!ReachLeaf \/ Reas!EndAnywhere \/ \E i \in DOMAIN Trees : Reas!ReloadTree(Trees[i])
    BY <2>1, <2>3 DEF Reas!ReachLeaf, Reas!EndAnywhere, Reas!Settle, Reas!ReloadTree
  <2>4. CASE \E f \in Inspected : Reas!RuleEval(f)
    BY <2>4, RecordStep
  <2>5. CASE Reas!FlushSwap \/ Reas!FlushWrite
    BY <2>5, FlushSteps
  <2> QED BY <2>2, <2>3, <2>4, <2>5 DEF Reas!ReasonNext
<1>3. RecInv => Reas!RecordedOnce
  BY RecordedFollows
<1> QED BY <1>1, <1>2, <1>3, PTL DEF Reas!ReasonSpec

-----------------------------------------------------------------------------
(* Knowledge: what the evolution log says of the store.                     *)

CONSTANTS MaxRows, MaxLinks, MaxLog, MaxSnaps, Rows, Binary, Seeds
VARIABLES db, committed, tx, saves, unlogged

Know == INSTANCE Knowledge WITH MaxNodes <- MaxRows, MaxEdges <- MaxLinks, Values <- Rows,
                                disk <- committed, pending <- unlogged

\* A state of the database: its tables, of which the log is a sequence.
Database(d) ==
  /\ DOMAIN d = {"nodes", "edges", "log", "snaps", "nextNode", "nextEdge", "nextSnap", "cut"}
  /\ \E S : d.log \in Seq(S)

\* What is proved of the database, of what is committed and of every savepoint.
KnowInv == /\ Know!KgInv
           /\ Database(db) /\ Database(committed)
           /\ \E S : saves \in Seq(S)
           /\ \A i \in DOMAIN saves : Database(saves[i].at)

LEMMA KnowCardinality == \A T : Know!Cardinality(T) = Cardinality(T)
  BY DEF Know!Cardinality, Cardinality, Know!IsFiniteSet, IsFiniteSet

\* The entries of an entity, after one more: those of before, and this one if it is its own.
LEMMA EntriesAppended ==
    ASSUME NEW S, NEW log \in Seq(S), NEW e, NEW entity, NEW id
    PROVE  /\ DOMAIN Append(log, e) = DOMAIN log \cup {Len(log) + 1}
           /\ DOMAIN log = 1 .. Len(log) /\ Len(log) \in Nat
           /\ Append(log, e)[Len(log) + 1] = e
           /\ \A i \in DOMAIN log : Append(log, e)[i] = log[i]
           /\ Know!Entries(Append(log, e), entity, id) =
                Know!Entries(log, entity, id)
                  \cup (IF e.entity = entity /\ e.id = id THEN {Len(log) + 1} ELSE {})
           /\ \E U : Append(log, e) \in Seq(U)
<1> DEFINE U == S \cup {e}
<1>1. log \in Seq(U) /\ e \in U
  BY SeqDef
<1> HIDE DEF U
<1>2. /\ Append(log, e) \in Seq(U) /\ Len(Append(log, e)) = Len(log) + 1
      /\ \A i \in 1 .. Len(log) : Append(log, e)[i] = log[i]
      /\ Append(log, e)[Len(log) + 1] = e
  BY <1>1, AppendSet
<1>3. DOMAIN log = 1 .. Len(log) /\ Len(log) \in Nat /\ DOMAIN Append(log, e) = 1 .. Len(log) + 1
  BY <1>1, <1>2
<1>4. DOMAIN Append(log, e) = DOMAIN log \cup {Len(log) + 1}
  BY <1>3
<1>5. \A i \in DOMAIN log : Append(log, e)[i] = log[i]
  BY <1>2, <1>3
<1>6. Know!Entries(Append(log, e), entity, id) =
        Know!Entries(log, entity, id) \cup (IF e.entity = entity /\ e.id = id THEN {Len(log) + 1} ELSE {})
  BY <1>2, <1>4, <1>5 DEF Know!Entries
<1> QED BY <1>2, <1>3, <1>4, <1>5, <1>6

\* The versions of an entity count from 1, so that the next one follows their number.
LEMMA VersionFollows ==
    ASSUME NEW S, NEW log \in Seq(S), Know!Counted(log), NEW entity, NEW id
    PROVE  Know!NextVersion(log, entity, id) = Cardinality(Know!Entries(log, entity, id)) + 1
<1> DEFINE es == Know!Entries(log, entity, id)
           upTo(i) == {j \in es : j <= i}
           T == {0} \cup {log[i].version : i \in es}
<1>1. DOMAIN log = 1 .. Len(log) /\ Len(log) \in Nat
  OBVIOUS
<1>2. es \subseteq 1 .. Len(log)
  BY <1>1 DEF Know!Entries
<1>3. IsFiniteSet(es) /\ Cardinality(es) \in Nat
  <2> HIDE DEF es
  <2>1. IsFiniteSet(1 .. Len(log))
    BY <1>1, FS_Interval
  <2>2. IsFiniteSet(es)
    BY <1>2, <2>1, FS_Subset
  <2> QED BY <2>2, FS_CardinalityType
<1>4. ASSUME NEW i \in es PROVE log[i].version = Cardinality(upTo(i))
  <2>1. i \in DOMAIN log /\ log[i].entity = entity /\ log[i].id = id
    BY DEF Know!Entries
  <2>2. log[i].version = Know!Cardinality({j \in Know!Entries(log, log[i].entity, log[i].id) : j <= i})
    BY <2>1 DEF Know!Counted
  <2> QED BY <2>1, <2>2, KnowCardinality
<1> HIDE DEF es
<1>5. \A i \in es : upTo(i) \subseteq es
  OBVIOUS
<1>6. \A i \in es : Cardinality(upTo(i)) \in Nat /\ Cardinality(upTo(i)) <= Cardinality(es)
  <2> SUFFICES ASSUME NEW i \in es PROVE Cardinality(upTo(i)) \in Nat /\ Cardinality(upTo(i)) <= Cardinality(es)
    OBVIOUS
  <2>1. upTo(i) \subseteq es
    OBVIOUS
  <2> HIDE DEF upTo
  <2> QED BY <1>3, <2>1, FS_Subset, FS_CardinalityType
<1>7. Cardinality(es) \in T
  <2>1. CASE es = {}
    BY <2>1, FS_EmptySet
  <2>2. CASE es # {}
    <3>1. PICK i \in es : \A j \in es : j <= i
      BY <1>1, <1>2, <2>2, GreatestOf
    <3>2. upTo(i) = es
      BY <3>1
    <3> HIDE DEF upTo
    <3> QED BY <1>4, <3>2
  <2> QED BY <2>1, <2>2
<1>8. \A t \in T : t \in Nat /\ t <= Cardinality(es)
  <2> HIDE DEF upTo
  <2> QED BY <1>3, <1>4, <1>6
<1> HIDE DEF T
<1>9. Know!Max(T) = Cardinality(es)
  BY <1>3, <1>7, <1>8 DEF Know!Max
<1> QED BY <1>3, <1>9 DEF Know!NextVersion, T, es

\* Append keeps the count of every entity.
LEMMA CountedAppended ==
    ASSUME NEW S, NEW log \in Seq(S), Know!Counted(log),
           NEW e, e.version = Know!NextVersion(log, e.entity, e.id)
    PROVE  Know!Counted(Append(log, e))
<1> DEFINE n == Len(log)
           after == Append(log, e)
           upTo(l, i) == {j \in Know!Entries(l, l[i].entity, l[i].id) : j <= i}
<1>1. /\ DOMAIN after = DOMAIN log \cup {n + 1} /\ DOMAIN log = 1 .. n /\ n \in Nat
      /\ after[n + 1] = e /\ \A i \in DOMAIN log : after[i] = log[i]
  BY EntriesAppended
<1>2. \A entity, id : Know!Entries(after, entity, id) =
        Know!Entries(log, entity, id) \cup (IF e.entity = entity /\ e.id = id THEN {n + 1} ELSE {})
  BY EntriesAppended
<1>3. \A entity, id : Know!Entries(log, entity, id) \subseteq 1 .. n
  BY <1>1 DEF Know!Entries
<1>4. \A i \in DOMAIN log : log[i].version = Know!Cardinality(upTo(log, i))
  BY DEF Know!Counted
<1>5. e.version = Cardinality(Know!Entries(log, e.entity, e.id)) + 1
  BY VersionFollows
<1> HIDE DEF n, after
<1>6. ASSUME NEW i \in DOMAIN after PROVE after[i].version = Know!Cardinality(upTo(after, i))
  <2>1. CASE i \in DOMAIN log
    <3>1. upTo(after, i) = upTo(log, i)
      BY <1>1, <1>2, <1>3, <2>1
    <3> QED BY <1>1, <1>4, <2>1, <3>1
  <2>2. CASE i = n + 1
    <3> DEFINE es == Know!Entries(log, e.entity, e.id)
    <3>1. es \subseteq 1 .. n /\ upTo(after, i) = es \cup {n + 1}
      BY <1>1, <1>2, <1>3, <2>2
    <3> HIDE DEF es, upTo
    <3>2. IsFiniteSet(es) /\ n + 1 \notin es
      <4>1. IsFiniteSet(1 .. n) /\ n + 1 \notin 1 .. n
        BY <1>1, FS_Interval
      <4> QED BY <3>1, <4>1, FS_Subset
    <3>3. Cardinality(es \cup {n + 1}) = Cardinality(es) + 1
      BY <3>2, FS_AddElement
    <3> QED BY <1>1, <1>5, <2>2, <3>1, <3>3, KnowCardinality DEF es
  <2> QED BY <1>1, <2>1, <2>2
<1> QED BY <1>6 DEF Know!Counted, after

\* What the log says of a node depends on the node and the log alone.
LEMMA ToldAlike ==
    ASSUME NEW d, NEW c, NEW n, d.log = c.log, n \in DOMAIN d.nodes <=> n \in DOMAIN c.nodes
    PROVE  Know!Told(d, n) <=> Know!Told(c, n)
BY DEF Know!Told

\* A statement leaves a savepoint alone, and is committed unless a transaction is open.
LEMMA ChangeStep ==
    ASSUME KnowInv, NEW d, NEW id, NEW op, NEW former,
           d.log = db.log, d.cut = db.cut, Database(d),
           \A n \in Know!Nodes \ {id} : n \in DOMAIN d.nodes <=> n \in DOMAIN db.nodes,
           id \in DOMAIN d.nodes <=> op # "Delete",
           Know!Ready, Know!Change(d, "Node", id, op, former)
    PROVE  KnowInv'
<1>1. /\ db' = d /\ committed' = IF tx THEN committed ELSE d
      /\ unlogged' = <<"Node", id, op, former>> /\ tx' = tx /\ saves' = saves
  BY DEF Know!Change, Know!Execute
<1>2. unlogged' # Know!NoEntry /\ unlogged'[1] = "Node" /\ unlogged'[2] = id /\ unlogged'[3] = op
  BY <1>1 DEF Know!NoEntry
<1>3. \A n : Know!Unlogged(n)' <=> n = id
  BY <1>2 DEF Know!Unlogged, Know!NoEntry
<1>4. \A n \in Know!Nodes \ db.cut : Know!Told(db, n)
  BY DEF KnowInv, Know!KgInv, Know!LogExplains, Know!Unlogged, Know!Ready
<1>5. ASSUME NEW n \in Know!Nodes \ d.cut, n # id PROVE Know!Told(d, n)
  <2>1. n \in DOMAIN d.nodes <=> n \in DOMAIN db.nodes
    BY <1>5
  <2>2. Know!Told(d, n) <=> Know!Told(db, n)
    BY <2>1, ToldAlike
  <2> QED BY <1>4, <1>5, <2>2
<1>6. Know!LogExplains'
  BY <1>1, <1>3, <1>5 DEF Know!LogExplains, Know!Nodes, KnowInv, Know!KgInv
<1>7. (IF tx THEN Know!Explained(committed) ELSE committed = db /\ saves = <<>>)'
  BY <1>1 DEF KnowInv, Know!KgInv, Know!Explained, Know!Nodes
<1>8. (\A i \in DOMAIN saves : Know!Explained(saves[i].at))'
  BY <1>1 DEF KnowInv, Know!KgInv, Know!Explained, Know!Nodes
<1>9. (\A n \in Know!Nodes : Know!Unlogged(n) => (n \in DOMAIN db.nodes <=> unlogged[3] # "Delete"))'
  BY <1>1, <1>2, <1>3 DEF Know!Nodes
<1>10. (Database(db) /\ Database(committed) /\ (\E S : saves \in Seq(S)) /\ \A i \in DOMAIN saves : Database(saves[i].at))'
  BY <1>1 DEF KnowInv
<1> QED BY <1>6, <1>7, <1>8, <1>9, <1>10 DEF KnowInv, Know!KgInv

\* A state of the database of which the log says what it holds.
Full(d) == Database(d) /\ Know!Explained(d)

LEMMA SameRows ==
    ASSUME NEW c, NEW d, Full(c), Database(d), d.log = c.log, c.cut \subseteq d.cut,
           \A n \in Know!Nodes \ d.cut : n \in DOMAIN d.nodes <=> n \in DOMAIN c.nodes
    PROVE  Full(d)
<1>1. ASSUME NEW n \in Know!Nodes \ d.cut PROVE Know!Told(d, n)
  <2>1. Know!Told(d, n) <=> Know!Told(c, n)
    BY ToldAlike
  <2> QED BY <2>1 DEF Full, Know!Explained
<1> QED BY <1>1 DEF Full, Know!Explained

\* With no change waiting to be logged, the invariant is of the states one by one.
LEMMA QuietIs ==
    ASSUME KnowInv, unlogged = Know!NoEntry
    PROVE  /\ Full(db) /\ Full(committed)
           /\ \A i \in DOMAIN saves : Full(saves[i].at)
           /\ ~tx => committed = db /\ saves = <<>>
<1>1. Know!Explained(db)
  BY DEF KnowInv, Know!KgInv, Know!LogExplains, Know!Explained, Know!Unlogged
<1> QED BY <1>1 DEF KnowInv, Know!KgInv, Full

LEMMA QuietStep ==
    ASSUME Full(db'), Full(committed'), \E S : saves' \in Seq(S), \A i \in DOMAIN saves' : Full(saves'[i].at),
           ~tx' => committed' = db' /\ saves' = <<>>, unlogged' = Know!NoEntry
    PROVE  KnowInv'
<1>1. \A n : ~Know!Unlogged(n)'
  BY DEF Know!Unlogged
<1>2. Know!LogExplains'
  BY <1>1 DEF Know!LogExplains, Know!Explained, Full, Know!Nodes
<1>3. (IF tx THEN Know!Explained(committed) ELSE committed = db /\ saves = <<>>)'
  BY DEF Full, Know!Explained, Know!Nodes
<1>4. (\A i \in DOMAIN saves : Know!Explained(saves[i].at))'
  BY DEF Full, Know!Explained, Know!Nodes
<1>5. (Database(db) /\ Database(committed) /\ (\E S : saves \in Seq(S)) /\ \A i \in DOMAIN saves : Database(saves[i].at))'
  BY DEF Full
<1> QED BY <1>1, <1>2, <1>3, <1>4, <1>5 DEF KnowInv, Know!KgInv

\* A statement that is not logged, on rows whose nodes are as before or cut from the log.
LEMMA ExecuteStep ==
    ASSUME KnowInv, Know!Ready, NEW d, Full(d), Know!Execute(d), UNCHANGED <<tx, saves, unlogged>>
    PROVE  KnowInv'
<1>1. db' = d /\ committed' = (IF tx THEN committed ELSE d) /\ tx' = tx /\ saves' = saves /\ unlogged' = unlogged
  BY DEF Know!Execute
<1>2. unlogged = Know!NoEntry
  BY DEF Know!Ready
<1>3. /\ Full(committed) /\ \A i \in DOMAIN saves : Full(saves[i].at)
      /\ ~tx => committed = db /\ saves = <<>>
  BY <1>2, QuietIs
<1>4. \E S : saves \in Seq(S)
  BY DEF KnowInv
<1> QED BY <1>1, <1>2, <1>3, <1>4, QuietStep

LEMMA UnloggedSteps ==
    ASSUME KnowInv,
           \/ \E i \in 1 .. MaxLinks : Know!DeleteEdge(i)
           \/ \E v \in Rows : Know!InsertNodesBatch(v)
           \/ \E g \in Seeds : Know!Seed(g)
    PROVE  KnowInv'
<1>1. ASSUME Know!Ready PROVE Full(db) /\ Database(db)
  BY <1>1, QuietIs DEF Know!Ready, KnowInv
<1>2. ASSUME NEW i \in 1 .. MaxLinks, Know!DeleteEdge(i) PROVE KnowInv'
  <2> DEFINE d == [db EXCEPT !.edges = Know!RemoveAt(@, i)]
  <2>1. Know!Ready /\ Know!Execute(d) /\ UNCHANGED <<tx, saves, unlogged>>
    BY <1>2 DEF Know!DeleteEdge
  <2>2. Database(d) /\ d.log = db.log /\ d.cut = db.cut /\ d.nodes = db.nodes
    BY <1>1, <2>1 DEF Database
  <2> HIDE DEF d
  <2>3. Full(d)
    BY <1>1, <2>1, <2>2, SameRows
  <2> QED BY <2>1, <2>3, ExecuteStep
<1>3. ASSUME NEW v \in Rows, Know!InsertNodesBatch(v) PROVE KnowInv'
  <2> DEFINE one == Know!WithNode(db, v)
             two == Know!WithNode(one, v)
             d == [two EXCEPT !.cut = @ \cup {db.nextNode, db.nextNode + 1}]
  <2>1. Know!Ready /\ Know!Execute(d) /\ UNCHANGED <<tx, saves, unlogged>>
    BY <1>3 DEF Know!InsertNodesBatch
  <2>2. /\ Database(one) /\ one.log = db.log /\ one.cut = db.cut /\ one.nextNode = db.nextNode + 1
        /\ DOMAIN one.nodes = DOMAIN db.nodes \cup {db.nextNode}
    BY <1>1, <2>1 DEF Database, Know!WithNode
  <2> HIDE DEF one
  <2>3. /\ Database(two) /\ two.log = db.log /\ two.cut = db.cut
        /\ DOMAIN two.nodes = DOMAIN db.nodes \cup {db.nextNode, db.nextNode + 1}
    BY <2>2 DEF Database, Know!WithNode
  <2> HIDE DEF two
  <2>4. /\ Database(d) /\ d.log = db.log /\ d.nodes = two.nodes
        /\ d.cut = db.cut \cup {db.nextNode, db.nextNode + 1}
    BY <2>3 DEF Database
  <2> HIDE DEF d
  <2>5. Full(d)
    BY <1>1, <2>1, <2>3, <2>4, SameRows
  <2> QED BY <2>1, <2>5, ExecuteStep
<1>4. ASSUME NEW g \in Seeds, Know!Seed(g) PROVE KnowInv'
  <2> DEFINE d == [db EXCEPT !.nodes = [n \in 1 .. g.nodes |-> 1], !.nextNode = g.nodes + 1, !.edges = g.edges,
                             !.nextEdge = Len(g.edges) + 1, !.cut = 1 .. g.nodes]
  <2>1. Know!Ready /\ Know!Execute(d) /\ UNCHANGED <<tx, saves, unlogged>> /\ db.log = <<>>
    BY <1>4 DEF Know!Seed
  <2>2. Database(d) /\ d.log = <<>> /\ d.cut = 1 .. g.nodes /\ DOMAIN d.nodes = 1 .. g.nodes
    BY <1>1, <2>1 DEF Database
  <2> HIDE DEF d
  <2>3. DOMAIN d.log = {}
    BY <2>2
  <2>4. Know!Counted(d.log)
    BY <2>3 DEF Know!Counted
  <2>5. ASSUME NEW n \in Know!Nodes \ d.cut PROVE Know!Told(d, n)
    <3>1. n \notin DOMAIN d.nodes
      BY <2>2, <2>5
    <3>2. Know!Entries(d.log, "Node", n) = {}
      BY <2>3 DEF Know!Entries
    <3> QED BY <3>1, <3>2 DEF Know!Told
  <2>6. Full(d)
    BY <2>2, <2>4, <2>5 DEF Full, Know!Explained
  <2> QED BY <2>1, <2>6, ExecuteStep
<1> QED BY <1>2, <1>3, <1>4

LEMMA NodeSteps ==
    ASSUME KnowInv, Know!Ready,
           \/ \E v \in Rows : Know!InsertNode(v)
           \/ \E n \in Know!Nodes : Know!DeleteNode(n) \/ \E v \in Rows : Know!UpdateNode(n, v)
    PROVE  KnowInv'
<1>0. Database(db)
  BY DEF KnowInv
<1>1. ASSUME NEW v \in Rows, Know!InsertNode(v) PROVE KnowInv'
  <2> DEFINE d == Know!WithNode(db, v)
  <2>1. Know!Change(d, "Node", db.nextNode, "Insert", Know!NoRec)
    BY <1>1 DEF Know!InsertNode
  <2>2. Database(d) /\ d.log = db.log /\ d.cut = db.cut /\ DOMAIN d.nodes = DOMAIN db.nodes \cup {db.nextNode}
    BY <1>0 DEF Database, Know!WithNode
  <2> HIDE DEF d
  <2> QED BY <2>1, <2>2, ChangeStep
<1>2. ASSUME NEW n \in Know!Nodes, Know!DeleteNode(n) PROVE KnowInv'
  <2> DEFINE d == [db EXCEPT !.nodes = [m \in DOMAIN @ \ {n} |-> @[m]]]
  <2>1. Know!Change(d, "Node", n, "Delete", Know!Record(n))
    BY <1>2 DEF Know!DeleteNode
  <2>2. Database(d) /\ d.log = db.log /\ d.cut = db.cut /\ DOMAIN d.nodes = DOMAIN db.nodes \ {n}
    BY <1>0 DEF Database
  <2> HIDE DEF d
  <2> QED BY <2>1, <2>2, ChangeStep
<1>3. ASSUME NEW n \in Know!Nodes, NEW v \in Rows, Know!UpdateNode(n, v) PROVE KnowInv'
  <2> DEFINE d == [db EXCEPT !.nodes[n] = Know!Stored(v)]
  <2>1. Know!Change(d, "Node", n, "Update", Know!Record(n)) /\ n \in DOMAIN db.nodes
    BY <1>3 DEF Know!UpdateNode
  <2>2. Database(d) /\ d.log = db.log /\ d.cut = db.cut /\ DOMAIN d.nodes = DOMAIN db.nodes
    BY <1>0 DEF Database
  <2> HIDE DEF d
  <2> QED BY <2>1, <2>2, ChangeStep
<1> QED BY <1>1, <1>2, <1>3

\* An edge that is not logged yet leaves the nodes as the log says.
LEMMA InsertEdgeStep ==
    ASSUME KnowInv, NEW s, NEW t, Know!InsertEdge(s, t)
    PROVE  KnowInv'
<1> DEFINE d == [db EXCEPT !.edges = Append(@, <<s, t>>), !.nextEdge = @ + 1]
<1>1. /\ db' = d /\ committed' = (IF tx THEN committed ELSE d) /\ tx' = tx /\ saves' = saves
      /\ unlogged' = <<"Edge", db.nextEdge, "Insert", Know!NoRec>> /\ unlogged = Know!NoEntry
  BY DEF Know!InsertEdge, Know!Change, Know!Execute, Know!Ready
<1>2. Full(db) /\ Database(db)
  BY <1>1, QuietIs DEF KnowInv
<1>3. Database(d) /\ d.log = db.log /\ d.cut = db.cut /\ d.nodes = db.nodes
  BY <1>2 DEF Database
<1> HIDE DEF d
<1>4. Full(d)
  BY <1>2, <1>3, SameRows
<1>5. \A n : ~Know!Unlogged(n)'
  BY <1>1 DEF Know!Unlogged
<1>6. Know!LogExplains'
  BY <1>1, <1>4 DEF Know!LogExplains, Full, Know!Explained, Know!Nodes
<1>7. (IF tx THEN Know!Explained(committed) ELSE committed = db /\ saves = <<>>)'
  BY <1>1 DEF KnowInv, Know!KgInv, Know!Explained, Know!Nodes
<1>8. (\A i \in DOMAIN saves : Know!Explained(saves[i].at))'
  BY <1>1 DEF KnowInv, Know!KgInv, Know!Explained, Know!Nodes
<1>9. (Database(db) /\ Database(committed) /\ (\E S : saves \in Seq(S)) /\ \A i \in DOMAIN saves : Database(saves[i].at))'
  BY <1>1, <1>3 DEF KnowInv
<1> QED BY <1>5, <1>6, <1>7, <1>8, <1>9 DEF KnowInv, Know!KgInv

\* The entry that is due says what has become of its node.
LEMMA AppendLogStep ==
    ASSUME KnowInv, Know!AppendLog
    PROVE  KnowInv'
<1> DEFINE due == unlogged
           entry == [entity |-> due[1], id |-> due[2], op |-> due[3], before |-> due[4],
                     version |-> Know!NextVersion(db.log, due[1], due[2])]
           d == [db EXCEPT !.log = Append(@, entry),
                           !.cut = IF due[1] = "Node" THEN @ \ {due[2]} ELSE @]
<1>1. /\ db' = d /\ committed' = (IF tx THEN committed ELSE d) /\ tx' = tx /\ saves' = saves
      /\ unlogged' = Know!NoEntry /\ unlogged # Know!NoEntry
  BY DEF Know!AppendLog, Know!Execute
<1>2. Database(db) /\ Know!Counted(db.log)
  BY DEF KnowInv, Know!KgInv, Know!LogExplains
<1>3. PICK S : db.log \in Seq(S)
  BY <1>2 DEF Database
<1>4. /\ entry.version = Know!NextVersion(db.log, entry.entity, entry.id)
      /\ entry.entity = due[1] /\ entry.id = due[2] /\ entry.op = due[3]
  OBVIOUS
<1> HIDE DEF entry
<1>5. /\ DOMAIN d = DOMAIN db /\ d.log = Append(db.log, entry) /\ d.nodes = db.nodes
      /\ d.cut = IF due[1] = "Node" THEN db.cut \ {due[2]} ELSE db.cut
  BY <1>2 DEF Database
<1> HIDE DEF d
<1>6. Database(d)
  <2>1. \E U : Append(db.log, entry) \in Seq(U)
    BY <1>3, EntriesAppended
  <2> QED BY <1>2, <1>5, <2>1 DEF Database
<1>7. Know!Counted(d.log)
  BY <1>2, <1>3, <1>4, <1>5, CountedAppended
<1>8. ASSUME NEW n \in Know!Nodes \ d.cut PROVE Know!Told(d, n)
  <2> DEFINE es == Know!Entries(db.log, "Node", n)
             k == Len(db.log) + 1
  <2>1. /\ Know!Entries(d.log, "Node", n) = es \cup (IF due[1] = "Node" /\ due[2] = n THEN {k} ELSE {})
        /\ d.log[k] = entry /\ \A i \in DOMAIN db.log : d.log[i] = db.log[i]
    BY <1>3, <1>4, <1>5, EntriesAppended
  <2>2. es \subseteq DOMAIN db.log /\ DOMAIN db.log = 1 .. Len(db.log) /\ Len(db.log) \in Nat
    BY <1>3 DEF Know!Entries
  <2>3. CASE due[1] = "Node" /\ due[2] = n
    <3>1. n \in DOMAIN db.nodes <=> due[3] # "Delete"
      BY <1>1, <2>3 DEF KnowInv, Know!KgInv, Know!Unlogged
    <3>2. Know!Entries(d.log, "Node", n) = es \cup {k}
      BY <2>1, <2>3
    <3>3. \A j \in es : j < k
      BY <2>2
    <3> HIDE DEF es, k
    <3>4. (\A j \in es \cup {k} : j <= k) /\ \A i \in es : ~(k <= i)
      <4>1. k \in Nat /\ es \subseteq Nat
        BY <2>2 DEF k
      <4> QED BY <3>3, <4>1
    <3>5. (\E i \in es \cup {k} : (\A j \in es \cup {k} : j <= i) /\ d.log[i].op # "Delete") <=> d.log[k].op # "Delete"
      BY <3>4
    <3> QED BY <1>4, <1>5, <2>1, <3>1, <3>2, <3>5 DEF Know!Told
  <2>4. CASE ~(due[1] = "Node" /\ due[2] = n)
    <3>1. n \in Know!Nodes \ db.cut
      BY <1>5, <1>8, <2>4
    <3>2. Know!Told(db, n)
      BY <2>4, <3>1 DEF KnowInv, Know!KgInv, Know!LogExplains, Know!Unlogged
    <3>3. Know!Entries(d.log, "Node", n) = es
      BY <2>1, <2>4
    <3>4. \A i \in es : d.log[i] = db.log[i]
      BY <2>1, <2>2
    <3> QED BY <1>5, <3>2, <3>3, <3>4 DEF Know!Told
  <2> QED BY <2>3, <2>4
<1>9. Full(d)
  BY <1>6, <1>7, <1>8 DEF Full, Know!Explained
<1>10. tx => Full(committed)
  BY DEF KnowInv, Know!KgInv, Full
<1>11. /\ \A i \in DOMAIN saves : Full(saves[i].at)
       /\ \E U : saves \in Seq(U)
       /\ ~tx => saves = <<>>
  BY DEF KnowInv, Know!KgInv, Full
<1> QED BY <1>1, <1>9, <1>10, <1>11, QuietStep

\* Snapshots go back to what the log explained, with one savepoint the more or some the fewer.
LEMMA SnapshotSteps ==
    ASSUME KnowInv,
           \/ Know!CreateSnapshot
           \/ \E s \in 1 .. MaxSnaps : Know!RestoreSnapshot(s) \/ Know!DeleteSnapshot(s)
    PROVE  KnowInv'
<1>0. Know!Ready
  BY DEF Know!CreateSnapshot, Know!RestoreSnapshot, Know!DeleteSnapshot
<1>1. /\ Full(db) /\ Full(committed) /\ \A i \in DOMAIN saves : Full(saves[i].at)
      /\ ~tx => committed = db /\ saves = <<>>
  BY <1>0, QuietIs DEF Know!Ready
<1>2. PICK S : saves \in Seq(S)
  BY DEF KnowInv
<1>3. DOMAIN saves = 1 .. Len(saves) /\ Len(saves) \in Nat
  BY <1>2
<1>4. \A s : Know!Savepoint(s) # {} =>
        Know!Max(Know!Savepoint(s)) \in DOMAIN saves
  <2> SUFFICES ASSUME NEW s, Know!Savepoint(s) # {} PROVE Know!Max(Know!Savepoint(s)) \in DOMAIN saves
    OBVIOUS
  <2> DEFINE T == Know!Savepoint(s)
  <2>1. T \subseteq DOMAIN saves /\ T # {}
    BY DEF Know!Savepoint
  <2> HIDE DEF T
  <2>2. PICK i \in T : \A j \in T : j <= i
    BY <1>3, <2>1, GreatestOf
  <2>3. \A j \in T : i >= j
    BY <1>3, <2>1, <2>2
  <2> QED BY <2>1, <2>3 DEF Know!Max, T
<1>5. ASSUME NEW d, Database(d), d.log = db.log, d.cut = db.cut, d.nodes = db.nodes PROVE Full(d)
  BY <1>1, <1>5, SameRows
<1>6. ASSUME Know!CreateSnapshot PROVE KnowInv'
  <2>1. tx' = TRUE /\ committed' = committed /\ unlogged' = unlogged
    BY <1>6 DEF Know!CreateSnapshot
  <2>2. CASE Know!Named(db) # DOMAIN db.snaps
    <3>1. db' = db /\ saves' = saves
      BY <1>6, <2>2 DEF Know!CreateSnapshot
    <3> QED BY <1>0, <1>1, <1>2, <2>1, <3>1, QuietStep DEF Know!Ready
  <2>3. CASE Know!Named(db) = DOMAIN db.snaps
    <3> DEFINE row == [db EXCEPT !.snaps = [s \in DOMAIN @ \cup {db.nextSnap} |-> s \in DOMAIN @], !.nextSnap = @ + 1]
               savedAs == [id |-> db.nextSnap, at |-> row]
               named == [row EXCEPT !.snaps[db.nextSnap] = TRUE]
    <3>1. saves' = Append(saves, savedAs) /\ db' = named
      BY <1>6, <2>3 DEF Know!CreateSnapshot
    <3>2. Database(row) /\ row.log = db.log /\ row.cut = db.cut /\ row.nodes = db.nodes
      BY <1>1 DEF Full, Database
    <3>3. Full(row)
      <4> HIDE DEF row
      <4> QED BY <1>5, <3>2
    <3> HIDE DEF row
    <3>4. Database(named) /\ named.log = db.log /\ named.cut = db.cut /\ named.nodes = db.nodes
      BY <3>2 DEF Database
    <3>5. Full(named)
      <4> HIDE DEF named
      <4> QED BY <1>5, <3>4
    <3>6. savedAs.at = row
      OBVIOUS
    <3> HIDE DEF named, savedAs
    <3>7. DOMAIN saves' = 1 .. Len(saves) + 1 /\ saves'[Len(saves) + 1] = savedAs /\ \A i \in 1 .. Len(saves) : saves'[i] = saves[i]
      <4> DEFINE U == S \cup {savedAs}
      <4>1. saves \in Seq(U) /\ savedAs \in U
        BY <1>2, SeqDef
      <4> HIDE DEF U
      <4> QED BY <3>1, <4>1
    <3>8. \E U : saves' \in Seq(U)
      BY <1>2, <3>1, EntriesAppended
    <3>9. \A i \in DOMAIN saves' : Full(saves'[i].at)
      <4> SUFFICES ASSUME NEW i \in DOMAIN saves' PROVE Full(saves'[i].at)
        OBVIOUS
      <4>1. i = Len(saves) + 1 \/ i \in 1 .. Len(saves)
        BY <1>3, <3>7
      <4> QED BY <1>1, <1>3, <3>3, <3>6, <3>7, <4>1
    <3> QED BY <1>0, <1>1, <2>1, <3>1, <3>5, <3>8, <3>9, QuietStep DEF Know!Ready
  <2> QED BY <2>2, <2>3
<1>7. ASSUME NEW i \in 0 .. Len(saves)
      PROVE  /\ \E U : SubSeq(saves, 1, i) \in Seq(U)
             /\ \A k \in DOMAIN SubSeq(saves, 1, i) : Full(SubSeq(saves, 1, i)[k].at)
  <2> DEFINE front == SubSeq(saves, 1, i)
  <2>1. \A k \in 1 .. i : saves[k] \in S /\ k \in DOMAIN saves
    BY <1>2, <1>3
  <2>2. front \in Seq(S) /\ Len(front) = (IF 1 <= i THEN i - 1 + 1 ELSE 0) /\ \A k \in 1 .. i - 1 + 1 : front[k] = saves[1 + k - 1]
    BY <2>1, SubSeqProperties
  <2>3. i - 1 + 1 = i /\ (IF 1 <= i THEN i - 1 + 1 ELSE 0) = i /\ \A k \in 1 .. i : 1 + k - 1 = k
    BY <1>3
  <2> HIDE DEF front
  <2>4. DOMAIN front = 1 .. i /\ \A k \in 1 .. i : front[k] = saves[k]
    BY <2>2, <2>3
  <2>5. \A k \in DOMAIN front : Full(front[k].at)
    BY <1>1, <2>1, <2>4
  <2> QED BY <2>2, <2>5 DEF front
<1>8. ASSUME NEW s \in 1 .. MaxSnaps, Know!RestoreSnapshot(s) PROVE KnowInv'
  <2> DEFINE i == Know!Max(Know!Savepoint(s))
  <2>1. /\ db' = saves[i].at /\ saves' = SubSeq(saves, 1, i) /\ i \in DOMAIN saves
        /\ committed' = committed /\ tx' = tx /\ unlogged' = unlogged
    BY <1>4, <1>8 DEF Know!RestoreSnapshot
  <2> HIDE DEF i
  <2>2. i \in 0 .. Len(saves) /\ tx
    BY <1>1, <1>3, <2>1
  <2>3. (\E U : saves' \in Seq(U)) /\ \A k \in DOMAIN saves' : Full(saves'[k].at)
    BY <1>7, <2>1, <2>2
  <2> QED BY <1>0, <1>1, <2>1, <2>2, <2>3, QuietStep DEF Know!Ready
<1>9. ASSUME NEW s \in 1 .. MaxSnaps, Know!DeleteSnapshot(s) PROVE KnowInv'
  <2> DEFINE i == Know!Max(Know!Savepoint(s))
             d == [db EXCEPT !.snaps = [r \in DOMAIN @ \ {s} |-> @[r]]]
  <2>1. /\ db' = d /\ saves' = SubSeq(saves, 1, i - 1) /\ i \in DOMAIN saves
        /\ committed' = committed /\ tx' = tx /\ unlogged' = unlogged
    BY <1>4, <1>9 DEF Know!DeleteSnapshot
  <2>2. Database(d) /\ d.log = db.log /\ d.cut = db.cut /\ d.nodes = db.nodes
    BY <1>1 DEF Full, Database
  <2> HIDE DEF i, d
  <2>3. i - 1 \in 0 .. Len(saves) /\ tx
    BY <1>1, <1>3, <2>1
  <2>4. (\E U : saves' \in Seq(U)) /\ \A k \in DOMAIN saves' : Full(saves'[k].at)
    BY <1>7, <2>1, <2>3
  <2>5. Full(d)
    BY <1>5, <2>2
  <2> QED BY <1>0, <1>1, <2>1, <2>3, <2>4, <2>5, QuietStep DEF Know!Ready
<1> QED BY <1>6, <1>8, <1>9

\* What is committed is explained, but for the change whose entry is lost with the process.
LEMMA CrashStep ==
    ASSUME KnowInv, Know!Crash
    PROVE  KnowInv'
<1> DEFINE gone == unlogged # Know!NoEntry /\ ~tx
           d == [committed EXCEPT !.cut = IF gone /\ unlogged[1] = "Node" THEN @ \cup {unlogged[2]} ELSE @]
<1>1. committed' = d /\ db' = d /\ tx' = FALSE /\ saves' = <<>> /\ unlogged' = Know!NoEntry
  BY DEF Know!Crash
<1>2. Database(committed)
  BY DEF KnowInv
<1>3. /\ Database(d) /\ d.log = committed.log /\ d.nodes = committed.nodes
      /\ d.cut = IF gone /\ unlogged[1] = "Node" THEN committed.cut \cup {unlogged[2]} ELSE committed.cut
  BY <1>2 DEF Database
<1> HIDE DEF d
<1>4. Full(d)
  <2>1. CASE tx
    <3>1. Full(committed) /\ d.cut = committed.cut
      BY <1>2, <1>3, <2>1 DEF KnowInv, Know!KgInv, Full
    <3> QED BY <1>3, <3>1, SameRows
  <2>2. CASE ~tx
    <3>1. committed = db /\ Know!LogExplains
      BY <2>2 DEF KnowInv, Know!KgInv
    <3>2. ASSUME NEW n \in Know!Nodes \ d.cut PROVE Know!Told(d, n)
      <4>1. n \in Know!Nodes \ db.cut /\ ~Know!Unlogged(n)
        BY <1>3, <2>2, <3>1, <3>2 DEF Know!Unlogged
      <4>2. Know!Told(db, n)
        BY <3>1, <4>1 DEF Know!LogExplains
      <4> QED BY <1>3, <3>1, <4>2, ToldAlike
    <3> QED BY <1>3, <3>1, <3>2 DEF Full, Know!Explained, Know!LogExplains
  <2> QED BY <2>1, <2>2
<1>5. saves' \in Seq({}) /\ DOMAIN saves' = {}
  BY <1>1
<1> QED BY <1>1, <1>4, <1>5, QuietStep

\* Knowledge (knowledge_store.cpp:116-177, knowledge_evolution.cpp:41-102), for any number of nodes,
\* edges, entries and snapshots and any seeds: the versions of an entity count from 1, and
\* its last entry says whether the node is there (LogExplains), through snapshots, restores
\* and crashes; so it is in what is committed and in every savepoint.
THEOREM LogTellsStore == Know!KgSpec => []Know!KgInv
<1>1. Know!KgInit => KnowInv
  <2> SUFFICES ASSUME Know!KgInit PROVE KnowInv
    OBVIOUS
  <2>1. /\ DOMAIN db = {"nodes", "edges", "log", "snaps", "nextNode", "nextEdge", "nextSnap", "cut"}
        /\ db.log = <<>> /\ db.nodes = <<>> /\ committed = db /\ tx = FALSE /\ saves = <<>> /\ unlogged = Know!NoEntry
    BY DEF Know!KgInit
  <2>2. db.log \in Seq({}) /\ DOMAIN db.log = {} /\ DOMAIN db.nodes = {} /\ saves \in Seq({}) /\ DOMAIN saves = {}
    BY <2>1
  <2>3. Database(db)
    BY <2>1, <2>2 DEF Database
  <2>4. Know!LogExplains
    BY <2>1, <2>2 DEF Know!LogExplains, Know!Counted, Know!Told, Know!Entries
  <2> QED BY <2>1, <2>2, <2>3, <2>4 DEF KnowInv, Know!KgInv, Know!Unlogged
<1>2. KnowInv /\ [Know!KgNext]_(Know!kgVars) => KnowInv'
  <2> SUFFICES ASSUME KnowInv, [Know!KgNext]_(Know!kgVars) PROVE KnowInv'
    OBVIOUS
  <2>1. CASE UNCHANGED Know!kgVars
    BY <2>1 DEF KnowInv, Know!kgVars, Know!KgInv, Know!LogExplains, Know!Unlogged, Know!Explained, Know!Nodes
  <2>2. CASE \/ \E v \in Rows : Know!InsertNode(v)
             \/ \E n \in Know!Nodes : Know!DeleteNode(n) \/ \E v \in Rows : Know!UpdateNode(n, v)
    <3>1. Know!Ready
      BY <2>2 DEF Know!InsertNode, Know!DeleteNode, Know!UpdateNode
    <3> QED BY <2>2, <3>1, NodeSteps
  <2>3. CASE \E s, t \in Know!Nodes : Know!InsertEdge(s, t)
    BY <2>3, InsertEdgeStep
  <2>4. CASE \/ \E i \in 1 .. MaxLinks : Know!DeleteEdge(i)
             \/ \E v \in Rows : Know!InsertNodesBatch(v)
             \/ \E g \in Seeds : Know!Seed(g)
    BY <2>4, UnloggedSteps
  <2>5. CASE Know!AppendLog
    BY <2>5, AppendLogStep
  <2>6. CASE \/ Know!CreateSnapshot
             \/ \E s \in 1 .. MaxSnaps : Know!RestoreSnapshot(s) \/ Know!DeleteSnapshot(s)
    BY <2>6, SnapshotSteps
  <2>7. CASE Know!Crash
    BY <2>7, CrashStep
  <2> QED BY <2>1, <2>2, <2>3, <2>4, <2>5, <2>6, <2>7 DEF Know!KgNext
<1>3. KnowInv => Know!KgInv
  BY DEF KnowInv
<1> QED BY <1>1, <1>2, <1>3, PTL DEF Know!KgSpec
=============================================================================
