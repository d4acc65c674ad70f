---------------------------- MODULE Line_proofs -----------------------------
(***************************************************************************)
(* Proofs about the way of a frame through the line.                       *)
(*                                                                         *)
(*   StageQueue    the module itself: every set of threads, every capacity,*)
(*                 any number of stop requests, spurious wakeups and       *)
(*                 unlocked calls                                          *)
(*   Devices       frames in the order of their capture                    *)
(*                 (FramesTakenInOrder), values read in a batch            *)
(*                 (ValuesReadAreOwn)                                      *)
(*   Assembly      the way of a frame through the stages (FramesRouted)    *)
(*   Display       a picture under its number (PictureIsOwn)               *)
(*   WebServer     what the queries answer (AnswersTrue)                   *)
(*                                                                         *)
(* Each section but the first declares the parameters of its component and *)
(* takes the component's module as an instance.                            *)
(***************************************************************************)
EXTENDS StageQueue, Numbers, FiniteSetTheorems, FunctionTheorems

USE QueueAssumption

\* The labels at which a thread holds mutex_.
Critical == {"enter", "block", "act", "leave", "leaveNull"}

\* Blocked threads are exactly those on cv_, mutex_ is held exactly by the
\* thread inside a blocking call, and a call without the mutex never is.
LockInv ==
    /\ \A t \in Threads : t \in waiters <=> pc[t] = "waiting"
    /\ \A t \in Threads : pc[t] \in Critical <=> mutex = t
    /\ \A t \in Unlocked : pc[t] \in {"idle", "tryNotify"}
    /\ \A t \in Threads : pc[t] = "tryNotify" => t \in Unlocked

\* What every step preserves.
Inv == QueueInv /\ LockInv

-----------------------------------------------------------------------------
(* Lemmas                                                                   *)

\* A thread pushes or pops, and Ready tests the side it is on.
LEMMA Sides ==
    ASSUME NEW t \in Threads
    PROVE  /\ t \in Pushers \/ t \in Poppers
           /\ t \in Poppers => t \notin Pushers
  BY DEF Pushers, Poppers, PushOps, PopOps

\* notify_one moves the notifier on and at most one sleeper to "woken", and
\* keeps the sleepers those that are blocked.
LEMMA NotifyOneEffect ==
    ASSUME TypeOK, LockInv, NEW t \in Threads, NEW label, pc[t] # "waiting",
           label # "waiting", NotifyOne(label, t)
    PROVE  \E w \in Threads \cup {NoThread} :
              /\ w # t /\ (w # NoThread => pc[w] = "waiting")
              /\ waiters' = waiters \ {w}
              /\ pc' = [u \in Threads |-> IF u = t THEN label ELSE IF u = w THEN "woken" ELSE pc[u]]
<1>1. CASE waiters = {} /\ GoTo(t, label) /\ UNCHANGED waiters
  <2> WITNESS NoThread \in Threads \cup {NoThread}
  <2> QED BY <1>1 DEF GoTo, TypeOK
<1>2. ASSUME NEW w \in waiters, waiters' = waiters \ {w},
             pc' = [pc EXCEPT ![t] = label, ![w] = "woken"]
      PROVE  \E v \in Threads \cup {NoThread} :
              /\ v # t /\ (v # NoThread => pc[v] = "waiting")
              /\ waiters' = waiters \ {v}
              /\ pc' = [u \in Threads |-> IF u = t THEN label ELSE IF u = v THEN "woken" ELSE pc[u]]
  <2>1. w \in Threads /\ pc[w] = "waiting" /\ w # t
    BY DEF TypeOK, LockInv
  <2>2. pc' = [u \in Threads |-> IF u = t THEN label ELSE IF u = w THEN "woken" ELSE pc[u]]
    BY <2>1, <1>2 DEF TypeOK
  <2> QED BY <2>1, <2>2, <1>2
<1> QED BY <1>1, <1>2 DEF NotifyOne

\* A push or a pop on the ring keeps the occupancy within the capacity, and
\* the two move it in opposite directions.
LEMMA RingStepEffect ==
    ASSUME TypeOK, NEW t \in Threads, RingStep(t)
    PROVE  /\ depth' \in 0 .. Capacity /\ accepted' \in Nat /\ delivered' \in Nat
           /\ t \in Pushers => depth' = depth + 1
           /\ t \in Poppers => depth' = depth - 1
  BY Sides DEF TypeOK, RingStep, Ready

-----------------------------------------------------------------------------
(* The steps, action by action                                              *)

LEMMA CallInv ==
    ASSUME Inv, NEW t \in Threads, Call(t)
    PROVE  Inv'
<1> USE DEF Inv, QueueInv, Call, GoTo
<1>1. TypeOK'
  BY DEF TypeOK, HasWork
<1>2. LockInv'
  BY DEF TypeOK, LockInv, Critical, Unlocked
<1>3. PushFindsRoom' /\ PopFindsFrame'
  BY DEF TypeOK, PushFindsRoom, PopFindsFrame, Ready, Pushers, Poppers
<1> QED BY <1>1, <1>2, <1>3

LEMMA EnterWaitInv ==
    ASSUME Inv, NEW t \in Threads, EnterWait(t)
    PROVE  Inv'
<1> USE DEF Inv, QueueInv, EnterWait, GiveUp, GoTo
<1>1. TypeOK'
  BY DEF TypeOK
<1>2. LockInv'
  BY DEF TypeOK, LockInv, Critical, Unlocked
<1>3. PushFindsRoom' /\ PopFindsFrame'
  BY DEF TypeOK, PushFindsRoom, PopFindsFrame, Ready, Pushers, Poppers
<1> QED BY <1>1, <1>2, <1>3

LEMMA BlockInv ==
    ASSUME Inv, NEW t \in Threads, Block(t)
    PROVE  Inv'
<1> USE DEF Inv, QueueInv, Block, GiveUp, GoTo
<1>1. TypeOK'
  BY DEF TypeOK
<1>2. LockInv'
  BY DEF TypeOK, LockInv, Critical, Unlocked
<1>3. PushFindsRoom' /\ PopFindsFrame'
  BY DEF TypeOK, PushFindsRoom, PopFindsFrame, Ready, Pushers, Poppers
<1> QED BY <1>1, <1>2, <1>3

LEMMA RetestInv ==
    ASSUME Inv, NEW t \in Threads, Retest(t)
    PROVE  Inv'
<1> USE DEF Inv, QueueInv, Retest, GoTo
<1>1. TypeOK'
  BY DEF TypeOK
<1>2. LockInv'
  BY DEF TypeOK, LockInv, Critical, Unlocked
<1>3. PushFindsRoom' /\ PopFindsFrame'
  BY DEF TypeOK, PushFindsRoom, PopFindsFrame, Ready, Pushers, Poppers
<1> QED BY <1>1, <1>2, <1>3

\* The ring changes only under the mutex here, so that nobody else is between
\* the test of its wait and its access to the ring.
LEMMA ActInv ==
    ASSUME Inv, NEW t \in Threads, Act(t)
    PROVE  Inv'
<1> USE DEF Inv, QueueInv, Act, GoTo
<1>1. TypeOK'
  BY RingStepEffect DEF TypeOK
<1>2. LockInv'
  BY DEF TypeOK, LockInv, Critical, Unlocked
<1>3. \A u \in Threads : pc'[u] # "act"
  BY DEF TypeOK, LockInv, Critical, Unlocked
<1>4. PushFindsRoom' /\ PopFindsFrame'
  BY <1>3 DEF PushFindsRoom, PopFindsFrame, Pushers, Poppers
<1> QED BY <1>1, <1>2, <1>4

LEMMA LeaveInv ==
    ASSUME Inv, NEW t \in Threads, Leave(t)
    PROVE  Inv'
<1> USE DEF Inv, QueueInv, Leave
<1> DEFINE label == IF pc[t] = "leave" THEN "idle" ELSE "done"
<1>1. PICK w \in Threads \cup {NoThread} :
         /\ w # t /\ (w # NoThread => pc[w] = "waiting")
         /\ waiters' = waiters \ {w}
         /\ pc' = [u \in Threads |-> IF u = t THEN label ELSE IF u = w THEN "woken" ELSE pc[u]]
  <2>1. pc[t] # "waiting" /\ label # "waiting" /\ NotifyOne(label, t)
    OBVIOUS
  <2> HIDE DEF label
  <2> QED BY <2>1, NotifyOneEffect
<1>2. TypeOK'
  BY <1>1 DEF TypeOK
<1>3. LockInv'
  BY <1>1 DEF TypeOK, LockInv, Critical, Unlocked
<1>4. PushFindsRoom' /\ PopFindsFrame'
  BY <1>1 DEF TypeOK, PushFindsRoom, PopFindsFrame, Ready, Pushers, Poppers
<1> QED BY <1>2, <1>3, <1>4

\* A call without the mutex: TryPop only makes room for a push that has tested
\* for it, and any such call ends the claim about pops.
LEMMA TryInv ==
    ASSUME Inv, NEW t \in Threads, Try(t)
    PROVE  Inv'
<1> USE DEF Inv, QueueInv, Try, GoTo
<1>1. TypeOK'
  BY RingStepEffect DEF TypeOK, HasWork
<1>2. LockInv'
  BY DEF TypeOK, LockInv, Critical, Unlocked
<1>3. PushFindsRoom'
  <2> SUFFICES ASSUME \A u \in Unlocked : Op[u] = "TryPop",
                      NEW p \in Pushers, pc'[p] = "act"
               PROVE  Ready(p)'
    BY DEF PushFindsRoom
  <2>1. pc[p] = "act"
    BY DEF TypeOK, Pushers
  <2>2. t \in Poppers
    BY DEF Poppers, PopOps
  <2>3. depth' = depth - 1 /\ depth < Capacity
    BY <2>1, <2>2, RingStepEffect DEF PushFindsRoom, Ready
  <2> QED BY <2>3 DEF Ready, TypeOK
<1>4. PopFindsFrame'
  BY DEF TypeOK, PopFindsFrame
<1> QED BY <1>1, <1>2, <1>3, <1>4

LEMMA TryNotifyInv ==
    ASSUME Inv, NEW t \in Threads, TryNotify(t)
    PROVE  Inv'
<1> USE DEF Inv, QueueInv, TryNotify
<1>1. PICK w \in Threads \cup {NoThread} :
         /\ w # t /\ (w # NoThread => pc[w] = "waiting")
         /\ waiters' = waiters \ {w}
         /\ pc' = [u \in Threads |-> IF u = t THEN "idle" ELSE IF u = w THEN "woken" ELSE pc[u]]
  BY NotifyOneEffect
<1>2. TypeOK'
  BY <1>1 DEF TypeOK
<1>3. LockInv'
  BY <1>1 DEF TypeOK, LockInv, Critical, Unlocked
<1>4. PushFindsRoom' /\ PopFindsFrame'
  BY <1>1 DEF TypeOK, PushFindsRoom, PopFindsFrame, Ready, Pushers, Poppers
<1> QED BY <1>2, <1>3, <1>4

LEMMA RequestStopInv ==
    ASSUME Inv, NEW t \in Threads, RequestStop(t)
    PROVE  Inv'
<1> USE DEF Inv, QueueInv, RequestStop
<1>1. TypeOK'
  BY DEF TypeOK
<1>2. LockInv'
  BY DEF TypeOK, LockInv, Critical, Unlocked
<1>3. PushFindsRoom' /\ PopFindsFrame'
  BY DEF TypeOK, PushFindsRoom, PopFindsFrame, Ready, Pushers, Poppers
<1> QED BY <1>1, <1>2, <1>3

LEMMA SpuriousWakeInv ==
    ASSUME Inv, NEW t \in Threads, SpuriousWake(t)
    PROVE  Inv'
<1> USE DEF Inv, QueueInv, SpuriousWake, GoTo
<1>1. TypeOK'
  BY DEF TypeOK
<1>2. LockInv'
  BY DEF TypeOK, LockInv, Critical, Unlocked
<1>3. PushFindsRoom' /\ PopFindsFrame'
  BY DEF TypeOK, PushFindsRoom, PopFindsFrame, Ready, Pushers, Poppers
<1> QED BY <1>1, <1>2, <1>3

\* Everything the queue's calls rely on is preserved by every step.
LEMMA InvStep == Inv /\ [Next]_vars => Inv'
<1> SUFFICES ASSUME Inv, [Next]_vars PROVE Inv'
  OBVIOUS
<1>1. CASE UNCHANGED vars
  BY <1>1 DEF vars, Inv, QueueInv, TypeOK, LockInv, PushFindsRoom, PopFindsFrame, Ready
<1>2. ASSUME NEW t \in Threads, Step(t) \/ RequestStop(t) \/ SpuriousWake(t)
      PROVE  Inv'
  BY <1>2, CallInv, EnterWaitInv, BlockInv, RetestInv, ActInv, LeaveInv, TryInv,
     TryNotifyInv, RequestStopInv, SpuriousWakeInv DEF Step
<1> QED BY <1>1, <1>2 DEF Next

\* An empty queue with nobody in a call.
LEMMA InvInit == Init => Inv
  BY DEF Init, Inv, QueueInv, TypeOK, LockInv, PushFindsRoom, PopFindsFrame, Critical,
         Unlocked, Pushers, Poppers

-----------------------------------------------------------------------------
\* "guaranteed to succeed" (stage_queue.h:155, 165, 181, 193), for any number of
\* callers of every kind: what a blocking call's wait has tested still holds when
\* the call reaches the ring, through notifications to the wrong side, spurious
\* wakeups, stop requests and Drain's unlocked pops; and the ring is never
\* filled past its capacity.
THEOREM WaitHolds == Spec => []QueueInv
<1>1. Inv => QueueInv
  BY DEF Inv
<1> QED BY <1>1, InvInit, InvStep, PTL DEF Spec

HIDE QueueAssumption

-----------------------------------------------------------------------------
(* Devices: the camera's ring.                                              *)
CONSTANTS Kinds, Slots, MaxShots, MaxStreams, Variables, PlcValues
VARIABLES cam, ring, shot, plc, opc

Dev == INSTANCE Devices WITH Capacity <- Slots, MaxFrames <- MaxShots

\* The frames taken go up, and those in the ring are the newest ones.
RingIInv ==
  LET n == Len(ring.items)  m == Len(shot.taken) IN
  /\ ring \in [items : Seq(Nat), dropped : Nat] /\ shot \in [taken : Seq(Nat), made : Nat] /\ n <= Slots
  /\ \A i \in 1 .. n : ring.items[i] = shot.made - n + i
  /\ \A i, j \in 1 .. m : i < j => shot.taken[i] < shot.taken[j]
  /\ \A i \in 1 .. m : shot.taken[i] <= shot.made - n
  /\ shot.made = m + n + ring.dropped

\* A FakeCamera that does not acquire has no thread, and it takes no GenICam step.
CamIInv ==
  /\ cam.kind \in Kinds /\ DOMAIN cam = {"kind", "state", "acquiring", "stream", "alive", "made", "ctl", "quiet"}
  /\ Dev!Fake => /\ cam.ctl # "begin" /\ (cam.ctl = "start" => cam.acquiring)
                 /\ (~cam.acquiring => cam.alive = {})

LEMMA TryPopInv ==
    ASSUME Slots \in Nat, RingIInv, Dev!TryPop PROVE RingIInv'
<1> DEFINE n == Len(ring.items)
           m == Len(shot.taken)
           h == Head(ring.items)
<1>1. /\ ring \in [items : Seq(Nat), dropped : Nat] /\ shot \in [taken : Seq(Nat), made : Nat]
      /\ ring.items \in Seq(Nat) /\ shot.taken \in Seq(Nat) /\ ring.items # <<>>
  BY DEF RingIInv, Dev!TryPop
<1>2. /\ n \in Nat \ {0} /\ m \in Nat /\ h = ring.items[1] /\ h \in Nat
      /\ Tail(ring.items) \in Seq(Nat) /\ Len(Tail(ring.items)) = n - 1
      /\ \A i \in 1 .. n - 1 : Tail(ring.items)[i] = ring.items[i + 1]
      /\ Append(shot.taken, h) \in Seq(Nat) /\ Len(Append(shot.taken, h)) = m + 1
      /\ \A i \in 1 .. m : Append(shot.taken, h)[i] = shot.taken[i]
      /\ Append(shot.taken, h)[m + 1] = h
  BY <1>1
<1>3. /\ ring' = [ring EXCEPT !.items = Tail(ring.items)]
      /\ shot' = [shot EXCEPT !.taken = Append(shot.taken, h)]
  BY DEF Dev!TryPop
<1> HIDE DEF n, m, h
<1>4. /\ ring'.items = Tail(ring.items) /\ ring'.dropped = ring.dropped
      /\ ring' \in [items : Seq(Nat), dropped : Nat]
      /\ shot'.taken = Append(shot.taken, h) /\ shot'.made = shot.made
      /\ shot' \in [taken : Seq(Nat), made : Nat] /\ shot.made \in Nat /\ ring.dropped \in Nat
  BY <1>1, <1>2, <1>3
<1>5. /\ n <= Slots /\ \A i \in 1 .. n : ring.items[i] = shot.made - n + i
      /\ \A i, j \in 1 .. m : i < j => shot.taken[i] < shot.taken[j]
      /\ \A i \in 1 .. m : shot.taken[i] <= shot.made - n
      /\ shot.made = m + n + ring.dropped
  BY DEF RingIInv, n, m
<1>6. h = shot.made - n + 1
  BY <1>2, <1>5
<1>b. \A i \in 1 .. m : shot.taken[i] \in Nat
  BY <1>1, SMTT(60) DEF m
<1>a. /\ n \in Nat \ {0} /\ m \in Nat /\ shot.made \in Nat /\ ring.dropped \in Nat /\ h \in Nat
      /\ \A i \in 1 .. m : shot.taken[i] \in Nat
  BY <1>2, <1>4, <1>b
<1>7. /\ Len(ring'.items) = n - 1 /\ Len(shot'.taken) = m + 1
  BY <1>2, <1>4
<1>8. \A i \in 1 .. n - 1 : ring'.items[i] = shot'.made - (n - 1) + i
  <2> SUFFICES ASSUME NEW i \in 1 .. n - 1 PROVE ring'.items[i] = shot'.made - (n - 1) + i
    OBVIOUS
  <2>1. ring'.items[i] = ring.items[i + 1] /\ shot'.made = shot.made
    BY <1>2, <1>4
  <2>2. i + 1 \in 1 .. n /\ i \in Nat
    BY <1>a
  <2>3. ring.items[i + 1] = shot.made - n + (i + 1)
    BY <1>5, <2>2
  <2> QED BY <1>a, <2>1, <2>2, <2>3
<1>9. \A i \in 1 .. m + 1 : shot'.taken[i] <= shot'.made - (n - 1)
  <2> SUFFICES ASSUME NEW i \in 1 .. m + 1 PROVE shot'.taken[i] <= shot'.made - (n - 1)
    OBVIOUS
  <2>1. CASE i = m + 1
    <3>1. shot'.taken[i] = h /\ shot'.made = shot.made
      BY <1>2, <1>4, <2>1
    <3> QED BY <1>6, <1>a, <3>1
  <2>2. CASE i # m + 1
    <3>1. i \in 1 .. m
      BY <1>a, <2>2
    <3>2. shot'.taken[i] = shot.taken[i] /\ shot'.made = shot.made
      BY <1>2, <1>4, <3>1
    <3>3. shot.taken[i] <= shot.made - n /\ shot.taken[i] \in Nat
      BY <1>5, <1>a, <3>1
    <3> QED BY <1>a, <3>2, <3>3
  <2> QED BY <2>1, <2>2
<1>10. \A i, j \in 1 .. m + 1 : i < j => shot'.taken[i] < shot'.taken[j]
  <2> SUFFICES ASSUME NEW i \in 1 .. m + 1, NEW j \in 1 .. m + 1, i < j PROVE shot'.taken[i] < shot'.taken[j]
    OBVIOUS
  <2>1. i \in 1 .. m
    BY <1>a
  <2>2. CASE j = m + 1
    <3>1. shot'.taken[i] = shot.taken[i] /\ shot'.taken[j] = h
      BY <1>2, <1>4, <2>1, <2>2
    <3>2. shot.taken[i] <= shot.made - n /\ shot.taken[i] \in Nat
      BY <1>5, <1>a, <2>1
    <3> QED BY <1>6, <1>a, <3>1, <3>2
  <2>3. CASE j # m + 1
    <3>1. j \in 1 .. m
      BY <1>2, <2>3
    <3> QED BY <1>2, <1>4, <1>5, <2>1, <3>1, ZenonT(60)
  <2> QED BY <2>2, <2>3
<1>11. n - 1 <= Slots /\ shot'.made = (m + 1) + (n - 1) + ring'.dropped
  <2>1. n - 1 <= Slots
    BY <1>a, <1>5
  <2>2. shot'.made = shot.made /\ ring'.dropped = ring.dropped
    BY <1>4
  <2> QED BY <1>a, <1>5, <2>1, <2>2
<1> QED BY <1>4, <1>7, <1>8, <1>9, <1>10, <1>11 DEF RingIInv

LEMMA FrameCallbackInv ==
    ASSUME Slots \in Nat, RingIInv, Dev!FrameCallback PROVE RingIInv'
<1> DEFINE n == Len(ring.items)
           m == Len(shot.taken)
           f == shot.made + 1
<1>1. /\ ring \in [items : Seq(Nat), dropped : Nat] /\ shot \in [taken : Seq(Nat), made : Nat]
      /\ ring.items \in Seq(Nat) /\ shot.taken \in Seq(Nat) /\ shot.made \in Nat /\ ring.dropped \in Nat
      /\ n \in Nat /\ m \in Nat
  BY DEF RingIInv
<1>2. /\ n <= Slots /\ \A i \in 1 .. n : ring.items[i] = shot.made - n + i
      /\ \A i, j \in 1 .. m : i < j => shot.taken[i] < shot.taken[j]
      /\ \A i \in 1 .. m : shot.taken[i] <= shot.made - n
      /\ shot.made = m + n + ring.dropped
  BY DEF RingIInv
<1>3. \A i \in 1 .. m : shot.taken[i] \in Nat
  BY <1>1
<1>4. /\ shot' = [shot EXCEPT !.made = f] /\ f \in Nat
      /\ shot'.taken = shot.taken /\ shot'.made = f /\ shot' \in [taken : Seq(Nat), made : Nat]
  BY <1>1, SMTT(60) DEF Dev!FrameCallback
<1>5. CASE Slots = 0
  <2>1. ring' = [ring EXCEPT !.dropped = @ + 1]
    BY <1>5 DEF Dev!FrameCallback, Dev!Pushed
  <2>2. /\ ring'.items = ring.items /\ ring'.dropped = ring.dropped + 1 /\ ring' \in [items : Seq(Nat), dropped : Nat]
    BY <1>1, <2>1, SMTT(60)
  <2> HIDE DEF n, m, f
  <2>3. n = 0
    BY <1>1, <1>2, <1>5
  <2>4. Len(ring'.items) = n /\ Len(shot'.taken) = m
    BY <1>4, <2>2 DEF n, m
  <2>5. \A i \in 1 .. m : shot'.taken[i] <= shot'.made - n
    BY <1>1, <1>2, <1>3, <1>4, <2>3, SMTT(60) DEF f
  <2>6. shot'.made = m + n + ring'.dropped
    BY <1>1, <1>2, <1>4, <2>2, SMTT(60) DEF f
  <2> QED BY <1>2, <1>4, <2>2, <2>3, <2>4, <2>5, <2>6, SMTT(60) DEF RingIInv
<1>6. CASE Slots # 0 /\ n < Slots
  <2> DEFINE items == Append(ring.items, f)
  <2>1. ring' = [ring EXCEPT !.items = items]
    BY <1>6 DEF Dev!FrameCallback, Dev!Pushed
  <2>2. /\ items \in Seq(Nat) /\ Len(items) = n + 1 /\ items[n + 1] = f
        /\ \A i \in 1 .. n : items[i] = ring.items[i]
    BY <1>1, <1>4
  <2> HIDE DEF items, n, m, f
  <2>3. ring'.items = items /\ ring'.dropped = ring.dropped /\ ring' \in [items : Seq(Nat), dropped : Nat]
    BY <1>1, <2>1, <2>2
  <2>4. Len(ring'.items) = n + 1 /\ Len(shot'.taken) = m /\ n + 1 <= Slots
    BY <1>1, <1>4, <1>6, <2>2, <2>3 DEF m
  <2>5. \A i \in 1 .. n + 1 : ring'.items[i] = shot'.made - (n + 1) + i
    <3> SUFFICES ASSUME NEW i \in 1 .. n + 1 PROVE items[i] = f - (n + 1) + i
      BY <1>4, <2>3
    <3>1. CASE i = n + 1
      BY <1>1, <1>4, <2>2, <3>1
    <3>2. CASE i # n + 1
      <4>1. i \in 1 .. n
        BY <1>1, <3>2
      <4>2. items[i] = shot.made - n + i
        BY <1>2, <2>2, <4>1
      <4> QED BY <1>1, <4>1, <4>2 DEF f
    <3> QED BY <3>1, <3>2
  <2>6. \A i \in 1 .. m : shot'.taken[i] <= shot'.made - (n + 1)
    <3>1. f - (n + 1) = shot.made - n
      BY <1>1 DEF f
    <3> QED BY <1>2, <1>4, <3>1
  <2>7. shot'.made = m + (n + 1) + ring'.dropped
    BY <1>1, <1>2, <1>4, <2>3, SMTT(60) DEF f
  <2> QED BY <1>2, <1>4, <2>3, <2>4, <2>5, <2>6, <2>7, ZenonT(60) DEF RingIInv
<1>7. CASE Slots # 0 /\ ~(n < Slots)
  <2> DEFINE rest == Tail(ring.items)
             items == Append(rest, f)
  <2>1. ring' = [items |-> items, dropped |-> ring.dropped + 1]
    BY <1>7 DEF Dev!FrameCallback, Dev!Pushed
  <2>2. n = Slots /\ n \in Nat \ {0} /\ ring.items # <<>>
    BY <1>1, <1>2, <1>7
  <2>3. /\ rest \in Seq(Nat) /\ Len(rest) = n - 1
        /\ \A i \in 1 .. n - 1 : rest[i] = ring.items[i + 1]
    BY <1>1, <2>2
  <2> HIDE DEF rest, f
  <2>4. /\ items \in Seq(Nat) /\ Len(items) = (n - 1) + 1 /\ items[(n - 1) + 1] = f
        /\ \A i \in 1 .. n - 1 : items[i] = rest[i]
    BY <1>4, <2>3
  <2>5. (n - 1) + 1 = n
    BY <1>1
  <2> HIDE DEF items, n, m
  <2>6. ring'.items = items /\ ring'.dropped = ring.dropped + 1 /\ ring' \in [items : Seq(Nat), dropped : Nat]
    BY <1>1, <2>1, <2>4
  <2>7. Len(ring'.items) = n /\ Len(shot'.taken) = m
    BY <1>4, <2>4, <2>5, <2>6 DEF m
  <2>8. \A i \in 1 .. n : ring'.items[i] = shot'.made - n + i
    <3> SUFFICES ASSUME NEW i \in 1 .. n PROVE items[i] = f - n + i
      BY <1>4, <2>6
    <3>1. CASE i = n
      BY <1>1, <1>4, <2>4, <2>5, <3>1
    <3>2. CASE i # n
      <4>1. i \in 1 .. n - 1 /\ i + 1 \in 1 .. n
        BY <1>1, <3>2
      <4>2. items[i] = shot.made - n + (i + 1)
        BY <1>2, <2>3, <2>4, <4>1
      <4> QED BY <1>1, <4>1, <4>2 DEF f
    <3> QED BY <3>1, <3>2
  <2>9. \A i \in 1 .. m : shot'.taken[i] <= shot'.made - n
    <3> SUFFICES ASSUME NEW i \in 1 .. m PROVE shot.taken[i] <= f - n
      BY <1>4
    <3>1. shot.taken[i] <= shot.made - n /\ shot.taken[i] \in Nat
      BY <1>2, <1>3
    <3> QED BY <1>1, <3>1 DEF f
  <2>10. shot'.made = m + n + ring'.dropped
    BY <1>1, <1>2, <1>4, <2>6, SMTT(60) DEF f
  <2> QED BY <1>2, <1>4, <2>6, <2>7, <2>8, <2>9, <2>10 DEF RingIInv
<1> QED BY <1>5, <1>6, <1>7

LEMMA CamInv ==
    ASSUME CamIInv, Dev!CameraNext PROVE CamIInv'
<1> USE DEF CamIInv, Dev!Fake, Dev!Idle
<1>1. CASE Dev!Connect
  BY <1>1 DEF Dev!Connect
<1>2. CASE Dev!Disconnect
  BY <1>2, ZenonT(60) DEF Dev!Disconnect
<1>3. CASE Dev!StartAcquisition
  BY <1>3 DEF Dev!StartAcquisition
<1>4. CASE Dev!CreateStream
  <2> DEFINE s == cam.made + 1
  <2>1. CASE cam' = [cam EXCEPT !.alive = @ \cup {s}, !.stream = s, !.made = s,
                                !.ctl = IF Dev!Fake THEN "idle" ELSE "begin"]
    <3> HIDE DEF s
    <3>1. CASE Dev!Fake
      BY <1>4, <2>1, <3>1 DEF Dev!CreateStream
    <3>2. CASE ~Dev!Fake
      BY <1>4, <2>1, <3>2 DEF Dev!CreateStream
    <3> QED BY <3>1, <3>2
  <2>2. CASE ~Dev!Fake /\ cam' = [cam EXCEPT !.acquiring = FALSE, !.ctl = "idle"]
    BY <2>2
  <2> QED BY <1>4, <2>1, <2>2 DEF Dev!CreateStream
<1>5. CASE Dev!Begin
  BY <1>5 DEF Dev!Begin
<1>6. CASE Dev!StopAcquisition
  BY <1>6 DEF Dev!StopAcquisition
<1>7. CASE Dev!Join
  BY <1>7 DEF Dev!Join
<1>8. CASE Dev!FrameCallback \/ Dev!TryPop
  BY <1>8 DEF Dev!FrameCallback, Dev!TryPop
<1> QED BY <1>1, <1>2, <1>3, <1>4, <1>5, <1>6, <1>7, <1>8 DEF Dev!CameraNext

LEMMA DevInitInv ==
    ASSUME Slots \in Nat, Dev!DevInit PROVE RingIInv /\ CamIInv
<1>1. ring = [items |-> <<>>, dropped |-> 0] /\ shot = [taken |-> <<>>, made |-> 0]
  BY DEF Dev!DevInit
<1>2. RingIInv
  <2>1. <<>> \in Seq(Nat) /\ Len(<<>>) = 0 /\ \A i, j \in 1 .. 0 : FALSE
    OBVIOUS
  <2>2. ring \in [items : Seq(Nat), dropped : Nat] /\ shot \in [taken : Seq(Nat), made : Nat]
    BY <1>1, <2>1
  <2>3. ring.items = <<>> /\ shot.taken = <<>> /\ shot.made = 0 /\ ring.dropped = 0
    BY <1>1
  <2>4. Len(ring.items) = 0 /\ Len(shot.taken) = 0
    BY <2>1, <2>3
  <2> QED BY <2>2, <2>3, <2>4 DEF RingIInv
<1>3. CamIInv
  BY DEF Dev!DevInit, CamIInv, Dev!Fake
<1> QED BY <1>2, <1>3

LEMMA DevStepInv ==
    ASSUME Slots \in Nat, RingIInv, CamIInv, [Dev!DevNext]_(Dev!devVars)
    PROVE  RingIInv' /\ CamIInv'
<1>1. CASE Dev!CameraNext
  <2>1. CamIInv'
    BY <1>1, CamInv
  <2>2. CASE Dev!TryPop
    BY <2>1, <2>2, TryPopInv
  <2>3. CASE Dev!FrameCallback
    BY <2>1, <2>3, FrameCallbackInv
  <2>4. CASE ~Dev!TryPop /\ ~Dev!FrameCallback
    <3>1. UNCHANGED <<ring, shot>>
      BY <1>1, <2>4 DEF Dev!CameraNext, Dev!Connect, Dev!Disconnect, Dev!StartAcquisition,
                        Dev!CreateStream, Dev!Begin, Dev!StopAcquisition, Dev!Join, Dev!OnlyCam
    <3> QED BY <2>1, <3>1 DEF RingIInv
  <2> QED BY <2>2, <2>3, <2>4
<1>2. CASE Dev!OpcNext \/ UNCHANGED Dev!devVars
  <2>1. UNCHANGED <<cam, ring, shot>>
    BY <1>2 DEF Dev!OpcNext, Dev!OnStart, Dev!OnStop, Dev!WriteValue, Dev!ServerWrites,
                Dev!ReadValues, Dev!OnlyOpc, Dev!devVars
  <2> QED BY <2>1 DEF RingIInv, CamIInv, Dev!Fake
<1> QED BY <1>1, <1>2 DEF Dev!DevNext

LEMMA RingInOrder ==
    ASSUME Slots \in Nat, RingIInv, CamIInv PROVE Dev!FramesInOrder
<1> DEFINE n == Len(ring.items)
           m == Len(shot.taken)
           seen == shot.taken \o ring.items
<1>1. /\ ring.items \in Seq(Nat) /\ shot.taken \in Seq(Nat) /\ shot.made \in Nat /\ ring.dropped \in Nat
      /\ n \in Nat /\ m \in Nat
  BY DEF RingIInv
<1>2. /\ \A i \in 1 .. n : ring.items[i] = shot.made - n + i
      /\ \A i, j \in 1 .. m : i < j => shot.taken[i] < shot.taken[j]
      /\ \A i \in 1 .. m : shot.taken[i] <= shot.made - n
      /\ shot.made = m + n + ring.dropped
  BY DEF RingIInv
<1>3. /\ \A i \in 1 .. m : shot.taken[i] \in Nat
      /\ DOMAIN ring.items = 1 .. n
  BY <1>1
<1>4. /\ Len(seen) = m + n /\ DOMAIN seen = 1 .. m + n
      /\ \A i \in 1 .. m : seen[i] = shot.taken[i]
      /\ \A i \in m + 1 .. m + n : seen[i] = ring.items[i - m]
  BY <1>1, ConcatEntries, ZenonT(60)
<1> HIDE DEF n, m, seen
<1>5. \A i \in m + 1 .. m + n : seen[i] = shot.made - n + (i - m)
  <2> SUFFICES ASSUME NEW i \in m + 1 .. m + n PROVE seen[i] = shot.made - n + (i - m)
    OBVIOUS
  <2>1. i - m \in 1 .. n
    BY <1>1
  <2> QED BY <1>2, <1>4, <2>1
<1>6. \A i, j \in DOMAIN seen : i < j => seen[i] < seen[j]
  <2> SUFFICES ASSUME NEW i \in 1 .. m + n, NEW j \in 1 .. m + n, i < j PROVE seen[i] < seen[j]
    BY <1>4
  <2>1. CASE j \in 1 .. m
    <3>1. i \in 1 .. m
      BY <1>1, <2>1
    <3> QED BY <1>2, <1>4, <2>1, <3>1
  <2>2. CASE i \in 1 .. m /\ j \notin 1 .. m
    <3>1. j \in m + 1 .. m + n
      BY <1>1, <2>2
    <3>2. seen[i] <= shot.made - n /\ seen[i] \in Nat /\ seen[j] = shot.made - n + (j - m)
      BY <1>2, <1>3, <1>4, <1>5, <2>2, <3>1
    <3> QED BY <1>1, <3>1, <3>2
  <2>3. CASE i \notin 1 .. m
    <3>1. i \in m + 1 .. m + n /\ j \in m + 1 .. m + n
      BY <1>1, <2>3
    <3>2. seen[i] = shot.made - n + (i - m) /\ seen[j] = shot.made - n + (j - m)
      BY <1>5, <3>1
    <3> QED BY <1>1, <3>1, <3>2
  <2> QED BY <2>1, <2>2, <2>3
<1>7. shot.made = Len(seen) + ring.dropped
  BY <1>2, <1>4
<1>8. \A i \in DOMAIN ring.items : ring.items[i] = shot.made - Len(ring.items) + i
  BY <1>2, <1>3 DEF n
<1>9. Dev!Fake /\ Dev!Idle /\ ~cam.acquiring => cam.alive = {}
  BY DEF CamIInv
<1> QED BY <1>6, <1>7, <1>8, <1>9 DEF Dev!FramesInOrder, seen

\* Devices (fake_camera.cpp:40-60, ring_buffer.h:19-60), for every capacity of the ring,
\* none included, and every number of frames and streams: what the consumer took and what
\* it still can take are in the order they were shot, the latter the newest ones, and a
\* FakeCamera that was stopped shoots no more.
THEOREM FramesTakenInOrder ==
    ASSUME Slots \in Nat PROVE Dev!DevSpec => []Dev!FramesInOrder
<1>1. Dev!DevInit => RingIInv /\ CamIInv
  BY DevInitInv
<1>2. (RingIInv /\ CamIInv) /\ [Dev!DevNext]_(Dev!devVars) => (RingIInv /\ CamIInv)'
  BY DevStepInv
<1>3. RingIInv /\ CamIInv => Dev!FramesInOrder
  BY RingInOrder
<1> QED BY <1>1, <1>2, <1>3, PTL DEF Dev!DevSpec

-----------------------------------------------------------------------------
(* Devices: what a batch read returns.                                      *)
LEMMA ReadableIs ==
    ASSUME NEW n \in Nat, NEW ids, n = Len(ids), NEW ok, ok \subseteq 1 .. n
    PROVE  Dev!Readable(ids, ok) \in Seq(1 .. n) /\ Len(Dev!Readable(ids, ok)) <= n
<1> DEFINE D == Seq(1 .. n)
           step == [i \in Nat |-> [y \in D |-> IF i \in ok THEN Append(y, i) ELSE y]]
           Rec(g) == g = [i \in 0 .. Len(ids) |-> IF i = 0 THEN <<>> ELSE IF i \in ok THEN Append(g[i - 1], i) ELSE g[i - 1]]
           found == CHOOSE g : Rec(g)
<1>1. Dev!Readable(ids, ok) = found[n]
  BY DEF Dev!Readable
<1>2. <<>> \in D /\ \A y \in D : \A i \in ok : Append(y, i) \in D
  OBVIOUS
<1> HIDE DEF D
<1>3. \A i \in Nat : \A y \in D : step[i][y] \in D
  BY <1>2
<1>4. \A i \in 1 .. n : \A y \in D : step[i][y] = IF i \in ok THEN Append(y, i) ELSE y
  OBVIOUS
<1> HIDE DEF step
<1>5. PICK f : Recurs(f, 0, n, D, <<>>, step)
  <2> DEFINE zero == 0
             start == <<>>
  <2>1. zero \in Nat /\ zero <= n /\ start \in D
    BY <1>2
  <2> HIDE DEF zero, start, Rec, found
  <2>2. \E f : Recurs(f, zero, n, D, start, step)
    BY <1>3, <2>1, RecursionDefines, Zenon
  <2> QED BY <2>2 DEF zero, start
<1>6. f \in [0 .. n -> D] /\ f[0] = <<>> /\ \A i \in 0 + 1 .. n : f[i] = step[i][f[i - 1]]
  BY <1>5 DEF Recurs
<1>7. Rec(f)
  <2>1. ASSUME NEW i \in 0 .. n, i # 0 PROVE f[i] = IF i \in ok THEN Append(f[i - 1], i) ELSE f[i - 1]
    <3>1. i \in 0 + 1 .. n /\ i \in 1 .. n /\ i - 1 \in 0 .. n
      BY <2>1
    <3> QED BY <1>4, <1>6, <3>1
  <2>2. f = [i \in 0 .. n |-> f[i]]
    BY <1>6, SMTT(60)
  <2> QED BY <1>6, <2>1, <2>2
<1>8. Rec(found)
  BY <1>7
<1> HIDE DEF found
<1> DEFINE Good(i) == found[i] \in D /\ Len(found[i]) \in Nat /\ Len(found[i]) <= i
           T == {i \in 0 .. n : Good(i)}
<1>9. found[0] = <<>> /\ \A i \in 1 .. n : found[i] = IF i \in ok THEN Append(found[i - 1], i) ELSE found[i - 1]
  <2>1. 0 \in 0 .. n /\ \A i \in 1 .. n : i \in 0 .. n /\ i # 0
    OBVIOUS
  <2> QED BY <1>8, <2>1
<1>10. 0 \in T
  BY <1>2, <1>9
<1>11. ASSUME NEW i \in 0 .. n, i + 1 <= n, i \in T PROVE i + 1 \in T
  <2>1. i + 1 \in 1 .. n /\ i + 1 \in 0 .. n /\ (i + 1) - 1 = i
    BY <1>11
  <2>2. found[i + 1] = IF i + 1 \in ok THEN Append(found[i], i + 1) ELSE found[i]
    BY <1>9, <2>1
  <2>3. found[i] \in D /\ Len(found[i]) \in Nat /\ Len(found[i]) <= i
    BY <1>11
  <2>4. CASE i + 1 \in ok
    <3>1. found[i + 1] = Append(found[i], i + 1) /\ found[i + 1] \in D
      BY <1>2, <2>2, <2>3, <2>4
    <3>2. Len(found[i + 1]) = Len(found[i]) + 1
      BY <2>3, <3>1 DEF D
    <3>3. Len(found[i]) + 1 \in Nat /\ Len(found[i]) + 1 <= i + 1
      BY <2>3
    <3>4. Good(i + 1)
      BY <3>1, <3>2, <3>3
    <3> QED BY <2>1, <3>4
  <2>5. CASE i + 1 \notin ok
    BY <2>1, <2>2, <2>3, <2>5
  <2> QED BY <2>4, <2>5
<1> HIDE DEF T
<1>12. n \in T
  <2>1. 0 \in Nat
    OBVIOUS
  <2>2. \A i \in 0 .. n : i \in T
    BY <1>10, <1>11, <2>1, StepByStep
  <2> QED BY <2>2
<1>13. Good(n)
  BY <1>12 DEF T
<1> QED BY <1>1, <1>13 DEF D

\* What the client keeps of its last call.
ReadInv == /\ DOMAIN opc = {"connected", "asked", "got"}
           /\ DOMAIN opc.got = 1 .. Len(opc.got) /\ Len(opc.got) \in Nat
           /\ Dev!ReadsOwnValue

LEMMA NothingRead ==
    ASSUME opc'.asked = <<>>, opc'.got = <<>>, DOMAIN opc' = {"connected", "asked", "got"} PROVE ReadInv'
  BY DEF ReadInv, Dev!ReadsOwnValue

LEMMA BatchRead ==
    ASSUME ReadInv, NEW ids, DOMAIN ids = 1 .. 2, Len(ids) = 2, Dev!ReadValues(ids) PROVE ReadInv'
<1>1. PICK ok \in SUBSET DOMAIN ids :
         opc' = [opc EXCEPT !.asked = ids,
                            !.got = [i \in DOMAIN Dev!Readable(ids, ok) |-> <<ids[Dev!Readable(ids, ok)[i]], plc[ids[Dev!Readable(ids, ok)[i]]]>>]]
  BY DEF Dev!ReadValues
<1> DEFINE read == Dev!Readable(ids, ok)
<1>2. read \in Seq(1 .. 2) /\ Len(read) <= 2
  <2>1. 2 \in Nat /\ ok \subseteq 1 .. 2
    OBVIOUS
  <2> QED BY <2>1, ReadableIs
<1> HIDE DEF read
<1>3. DOMAIN read = 1 .. Len(read) /\ Len(read) \in Nat
  BY <1>2
<1>4. plc' = plc /\ opc' = [opc EXCEPT !.asked = ids, !.got = [i \in DOMAIN read |-> <<ids[read[i]], plc[ids[read[i]]]>>]]
  BY <1>1 DEF Dev!ReadValues, read
<1>5. DOMAIN opc' = {"connected", "asked", "got"} /\ opc'.asked = ids
      /\ opc'.got = [i \in 1 .. Len(read) |-> <<ids[read[i]], plc[ids[read[i]]]>>]
  BY <1>3, <1>4 DEF ReadInv
<1>6. Len(opc'.got) = Len(read) /\ DOMAIN opc'.got = 1 .. Len(read)
  BY <1>3, <1>5
<1>7. \A i \in 1 .. Len(read) : opc'.got[i][2] = plc'[opc'.got[i][1]]
  BY <1>4, <1>5
<1> QED BY <1>2, <1>3, <1>5, <1>6, <1>7, SMTT(60) DEF ReadInv, Dev!ReadsOwnValue

LEMMA ReadStep ==
    ASSUME ReadInv, [Dev!DevNext]_(Dev!devVars) PROVE ReadInv'
<1>1. CASE UNCHANGED <<plc, opc>>
  BY <1>1 DEF ReadInv, Dev!ReadsOwnValue
<1>2. CASE Dev!OnStart \/ Dev!OnStop
  <2>1. plc' = plc /\ opc'.asked = opc.asked /\ opc'.got = opc.got /\ DOMAIN opc' = {"connected", "asked", "got"}
    BY <1>2 DEF Dev!OnStart, Dev!OnStop, ReadInv
  <2> QED BY <2>1 DEF ReadInv, Dev!ReadsOwnValue
<1>3. ASSUME NEW v \in Variables, NEW x \in PlcValues, Dev!WriteValue(v, x) \/ Dev!ServerWrites(v, x) PROVE ReadInv'
  <2>1. opc'.asked = <<>> /\ opc'.got = <<>> /\ DOMAIN opc' = {"connected", "asked", "got"}
    BY <1>3 DEF Dev!WriteValue, Dev!ServerWrites, ReadInv
  <2> QED BY <2>1, NothingRead
<1>4. ASSUME NEW ids \in {s \in Dev!SeqOf(Variables, 2) : Len(s) = 2}, Dev!ReadValues(ids) PROVE ReadInv'
  <2>1. ids \in Seq(Variables) /\ Len(ids) = 2
    <3>1. ids \in UNION {[1 .. m -> Variables] : m \in 0 .. 2} /\ Len(ids) = 2
      BY <1>4 DEF Dev!SeqOf
    <3>2. PICK m \in 0 .. 2 : ids \in [1 .. m -> Variables]
      BY <3>1
    <3> QED BY <3>1, <3>2
  <2>2. DOMAIN ids = 1 .. 2
    BY <2>1
  <2> QED BY <1>4, <2>1, <2>2, BatchRead
<1>5. CASE Dev!CameraNext
  <2>1. UNCHANGED <<plc, opc>>
    BY <1>5 DEF Dev!CameraNext, Dev!Connect, Dev!Disconnect, Dev!StartAcquisition, Dev!CreateStream, Dev!Begin,
                Dev!StopAcquisition, Dev!Join, Dev!FrameCallback, Dev!TryPop, Dev!OnlyCam
  <2> QED BY <1>1, <2>1
<1> QED BY <1>1, <1>2, <1>3, <1>4, <1>5 DEF Dev!DevNext, Dev!OpcNext, Dev!devVars

\* Whichever reads of a batch fail, and whatever the server writes in between: the
\* values that are returned stand with their own variables (opcua_client.cpp:187-211).
THEOREM ValuesReadAreOwn == Dev!DevSpec => []Dev!ReadsOwnValue
<1>1. Dev!DevInit => ReadInv
  BY DEF Dev!DevInit, ReadInv, Dev!ReadsOwnValue
<1>2. ReadInv /\ [Dev!DevNext]_(Dev!devVars) => ReadInv'
  BY ReadStep
<1>3. ReadInv => Dev!ReadsOwnValue
  BY DEF ReadInv
<1> QED BY <1>1, <1>2, <1>3, PTL DEF Dev!DevSpec

-----------------------------------------------------------------------------
(* Assembly: the way of a frame through a validated configuration.          *)
CONSTANTS Configs, HasCamera, MaxWalks, StageRecords, Names
VARIABLES config, assembled, walk, walks

Asm == INSTANCE Assembly WITH line <- assembled, Cameras <- HasCamera, MaxFrames <- MaxWalks

\* A configuration is a sequence of stages, each with an id and its dependencies in turn; "none" is no id.
AsmAssumption ==
  /\ \A c \in Configs : c.stages \in Seq(StageRecords)
  /\ \A s \in StageRecords : s.id \in Names /\ s.deps \in Seq(Names)
  /\ "none" \notin Names

\* Stages each of which depends on another of them are never taken by Kahn's rounds.
LEMMA CyclesStay ==
    ASSUME NEW c, c.stages \in Seq(StageRecords), Asm!IsAcyclic(c),
           NEW X \in SUBSET Asm!Range(c.stages), \A s \in X : \E t \in X : t.id \in Asm!Range(s.deps)
    PROVE  X = {}
<1> DEFINE S == Asm!Range(c.stages)
           n == Len(c.stages)
           Kept(before) == {s \in before : \E t \in before : t.id \in Asm!Range(s.deps)}
           Rounds(g, m) == g = [i \in 0 .. m |-> IF i = 0 THEN S ELSE Kept(g[i - 1])]
           left == CHOOSE g : Rounds(g, n)
<1>1. left[n] = {}
  BY DEF Asm!IsAcyclic
<1>2. \E g : Rounds(g, n)
  <2> DEFINE T == {m \in Nat : \E g : Rounds(g, m)}
  <2>1. 0 \in T
    <3> DEFINE g == [i \in 0 .. 0 |-> S]
    <3>1. g = [i \in 0 .. 0 |-> IF i = 0 THEN S ELSE Kept(g[i - 1])]
      OBVIOUS
    <3> QED BY <3>1
  <2>2. ASSUME NEW m \in Nat, NEW g, Rounds(g, m) PROVE \E h : Rounds(h, m + 1)
    <3> DEFINE h == [i \in 0 .. m + 1 |-> IF i = m + 1 THEN Kept(g[m]) ELSE g[i]]
    <3> HIDE DEF S, Kept
    <3>1. \A i \in 0 .. m : g[i] = IF i = 0 THEN S ELSE Kept(g[i - 1])
      BY <2>2
    <3>2. \A i \in 0 .. m + 1 : h[i] = IF i = m + 1 THEN Kept(g[m]) ELSE g[i]
      OBVIOUS
    <3> HIDE DEF h
    <3>3. ASSUME NEW i \in 0 .. m + 1 PROVE h[i] = IF i = 0 THEN S ELSE Kept(h[i - 1])
      <4>1. CASE i = m + 1
        <5>1. i - 1 = m /\ m \in 0 .. m + 1 /\ m # m + 1 /\ i # 0
          BY <4>1
        <5>2. h[i - 1] = g[m]
          BY <3>2, <5>1
        <5> QED BY <3>2, <4>1, <5>1, <5>2
      <4>2. CASE i # m + 1
        <5>1. i \in 0 .. m /\ (i # 0 => i - 1 \in 0 .. m + 1 /\ i - 1 # m + 1)
          BY <4>2
        <5>2. i # 0 => h[i - 1] = g[i - 1]
          BY <3>2, <5>1
        <5> QED BY <3>1, <3>2, <4>2, <5>1, <5>2
      <4> QED BY <4>1, <4>2
    <3>4. h = [i \in 0 .. m + 1 |-> IF i = 0 THEN S ELSE Kept(h[i - 1])]
      <4>1. h = [i \in 0 .. m + 1 |-> h[i]]
        BY DEF h
      <4> QED BY <3>3, <4>1
    <3> QED BY <3>4
  <2> HIDE DEF T
  <2>3. T = Nat
    <3>1. T \in SUBSET Nat
      BY DEF T
    <3>2. ASSUME NEW m \in T PROVE m + 1 \in T
      <4> HIDE DEF Rounds
      <4>1. m \in Nat /\ \E g : Rounds(g, m)
        BY DEF T
      <4>2. \E h : Rounds(h, m + 1)
        BY <2>2, <4>1
      <4> QED BY <4>1, <4>2 DEF T
    <3> QED BY <2>1, <3>1, <3>2, NumbersByInduction
  <2>4. n \in Nat
    OBVIOUS
  <2> QED BY <2>3, <2>4 DEF T
<1> HIDE DEF left
<1>3. Rounds(left, n)
  BY <1>2 DEF left
<1>4. \A i \in 0 .. n : X \subseteq left[i]
  <2> DEFINE T == {m \in Nat : m <= n => X \subseteq left[m]}
  <2>1. left[0] = S /\ \A m \in Nat : m + 1 <= n => left[m + 1] = Kept(left[m])
    <3>1. n \in Nat
      OBVIOUS
    <3> HIDE DEF S, Kept, n
    <3>2. left[0] = S
      BY <1>3, <3>1
    <3>3. ASSUME NEW m \in Nat, m + 1 <= n PROVE left[m + 1] = Kept(left[m])
      <4>1. m + 1 \in 0 .. n /\ m + 1 # 0 /\ (m + 1) - 1 = m
        BY <3>1, <3>3
      <4> QED BY <1>3, <4>1
    <3> QED BY <3>2, <3>3
  <2>2. 0 \in T
    BY <2>1
  <2>3. ASSUME NEW m \in T PROVE m + 1 \in T
    <3>1. SUFFICES ASSUME m + 1 <= n PROVE X \subseteq left[m + 1]
      OBVIOUS
    <3>2. X \subseteq left[m]
      BY <3>1
    <3> QED BY <2>1, <3>1, <3>2
  <2> HIDE DEF T
  <2>4. T = Nat
    <3>1. T \in SUBSET Nat
      BY DEF T
    <3> QED BY <2>2, <2>3, <3>1, NumbersByInduction
  <2> QED BY <2>4 DEF T
<1> QED BY <1>1, <1>4

\* Neither Assembly's Cardinality nor its Min is another one.
LEMMA SameCardinality == \A T : Asm!Cardinality(T) = Cardinality(T)
  BY DEF Asm!Cardinality, Cardinality, Asm!IsFiniteSet, IsFiniteSet

LEMMA MinIsLeast ==
    ASSUME NEW T \in SUBSET Nat, T # {}
    PROVE  Asm!Min(T) \in T
<1>1. \E n \in T : \A m \in T : n <= m
  BY LeastNumber
<1> QED BY <1>1 DEF Asm!Min

\* The stages of a configuration that was accepted have ids of their own.
LEMMA IdsDiffer ==
    ASSUME NEW c, c.stages \in Seq(StageRecords), Asm!Cardinality(Asm!Ids(c)) = Len(c.stages)
    PROVE  /\ \A i, j \in DOMAIN c.stages : c.stages[i].id = c.stages[j].id => i = j
           /\ \A i \in DOMAIN c.stages : Asm!Stage(c, c.stages[i].id) = c.stages[i]
           /\ \A s \in Asm!Range(c.stages) : Asm!Stage(c, s.id) = s
<1> DEFINE n == Len(c.stages)
           D == 1 .. n
           I == Asm!Ids(c)
           f == [i \in D |-> c.stages[i].id]
<1>1. n \in Nat /\ DOMAIN c.stages = D
  OBVIOUS
<1>2. Asm!Range(c.stages) = {c.stages[i] : i \in D}
  BY <1>1 DEF Asm!Range
<1>3. I = {c.stages[i].id : i \in D}
  BY <1>2 DEF Asm!Ids
<1>4. f \in Surjection(D, I)
  BY <1>3, Fun_IsSurj
<1>5. IsFiniteSet(D) /\ Cardinality(D) = n
  BY <1>1, FS_Interval
<1>6. Cardinality(I) = n
  BY SameCardinality
<1> HIDE DEF D, I, n
<1>7. f \in Injection(D, I)
  BY <1>4, <1>5, <1>6, FS_Surjection
<1>8. \A i, j \in D : f[i] = f[j] => i = j
  BY <1>7 DEF Injection, IsInjective
<1> HIDE DEF f
<1>9. \A i, j \in D : c.stages[i].id = c.stages[j].id => i = j
  BY <1>8 DEF f
<1>10. ASSUME NEW i \in D PROVE Asm!Stage(c, c.stages[i].id) = c.stages[i]
  <2>1. \A s \in Asm!Range(c.stages) : s.id = c.stages[i].id => s = c.stages[i]
    BY <1>2, <1>9
  <2>2. c.stages[i] \in Asm!Range(c.stages)
    BY <1>2
  <2> QED BY <2>1, <2>2 DEF Asm!Stage
<1> QED BY <1>1, <1>2, <1>9, <1>10

\* A stage of an accepted configuration has one that depends on it at most.
LEMMA OneDependant ==
    ASSUME AsmAssumption, NEW c \in Configs, Asm!Validate(c),
           NEW i \in DOMAIN c.stages, NEW j \in DOMAIN c.stages, NEW id \in Asm!Ids(c),
           id \in Asm!Range(c.stages[i].deps), id \in Asm!Range(c.stages[j].deps)
    PROVE  i = j
<1> DEFINE S == Asm!Range(c.stages)
           Uses(s) == {<<s.id, a>> : a \in {b \in DOMAIN s.deps : s.deps[b] = id}}
           U == Asm!Dependants(c, id)
<1>1. /\ c.stages \in Seq(StageRecords) /\ DOMAIN c.stages = 1 .. Len(c.stages) /\ Len(c.stages) \in Nat
      /\ \A k \in DOMAIN c.stages : c.stages[k] \in StageRecords /\ c.stages[k] \in S
      /\ Asm!Cardinality(Asm!Ids(c)) = Len(c.stages)
  <2>1. c.stages \in Seq(StageRecords)
    BY DEF AsmAssumption
  <2>2. Asm!Cardinality(Asm!Ids(c)) = Len(c.stages)
    BY DEF Asm!Validate
  <2> QED BY <2>1, <2>2 DEF Asm!Range
<1>2. U = UNION {Uses(s) : s \in S}
  BY DEF Asm!Dependants
<1>3. IsFiniteSet({Uses(s) : s \in S})
  <2> DEFINE n == Len(c.stages)
             D == 1 .. n
             W == {Uses(s) : s \in S}
             f == [k \in D |-> Uses(c.stages[k])]
  <2> HIDE DEF Uses
  <2>1. W = {Uses(c.stages[k]) : k \in D}
    <3>1. S = {c.stages[k] : k \in D}
      BY <1>1 DEF Asm!Range
    <3> HIDE DEF S
    <3> QED BY <3>1
  <2>2. f \in Surjection(D, W)
    BY <2>1, Fun_IsSurj
  <2>3. IsFiniteSet(D)
    <3>1. n \in Int
      BY <1>1
    <3> HIDE DEF n
    <3> QED BY <3>1, FS_Interval
  <2> HIDE DEF f, W, D
  <2>4. IsFiniteSet(W)
    BY <2>2, <2>3, FS_Surjection
  <2> QED BY <2>4 DEF W
<1>4. \A s \in S : IsFiniteSet(Uses(s))
  <2> SUFFICES ASSUME NEW s \in S PROVE IsFiniteSet(Uses(s))
    OBVIOUS
  <2> DEFINE n == Len(s.deps)
             D == 1 .. n
             f == [a \in D |-> <<s.id, a>>]
             W == {<<s.id, a>> : a \in D}
  <2>1. s.deps \in Seq(Names)
    BY <1>1 DEF AsmAssumption, Asm!Range
  <2>2. n \in Nat /\ DOMAIN s.deps = D
    BY <2>1
  <2>3. f \in Surjection(D, W)
    BY Fun_IsSurj
  <2>4. IsFiniteSet(D)
    BY <2>2, FS_Interval
  <2>5. Uses(s) \in SUBSET W
    BY <2>2
  <2> HIDE DEF f, W, D, Uses
  <2>6. IsFiniteSet(W)
    BY <2>3, <2>4, FS_Surjection
  <2> QED BY <2>5, <2>6, FS_Subset
<1>5. IsFiniteSet(U)
  <2> DEFINE W == {Uses(s) : s \in S}
  <2>1. \A T \in W : IsFiniteSet(T)
    BY <1>4
  <2> HIDE DEF Uses, U
  <2>2. IsFiniteSet(W)
    BY <1>3
  <2>3. U = UNION W
    BY <1>2
  <2> HIDE DEF W
  <2> QED BY <2>1, <2>2, <2>3, FS_UNION
<1>6. PICK a \in DOMAIN c.stages[i].deps : c.stages[i].deps[a] = id
  BY DEF Asm!Range
<1>7. PICK b \in DOMAIN c.stages[j].deps : c.stages[j].deps[b] = id
  BY DEF Asm!Range
<1>8. <<c.stages[i].id, a>> \in U /\ <<c.stages[j].id, b>> \in U
  <2>1. <<c.stages[i].id, a>> \in Uses(c.stages[i]) /\ <<c.stages[j].id, b>> \in Uses(c.stages[j])
    BY <1>6, <1>7
  <2> HIDE DEF Uses, U
  <2> QED BY <1>1, <1>2, <2>1
<1>9. Cardinality(U) <= 1
  BY SameCardinality DEF Asm!Validate
<1> HIDE DEF U
<1>10. c.stages[i].id = c.stages[j].id
  <2> SUFFICES ASSUME c.stages[i].id # c.stages[j].id PROVE FALSE
    OBVIOUS
  <2> DEFINE p == <<c.stages[i].id, a>>
             q == <<c.stages[j].id, b>>
  <2>1. p # q
    OBVIOUS
  <2> HIDE DEF p, q
  <2>2. IsFiniteSet({p}) /\ Cardinality({p}) = 1
    BY FS_Singleton
  <2>3. IsFiniteSet({p} \cup {q}) /\ Cardinality({p} \cup {q}) = 2
    <3>1. q \notin {p}
      BY <2>1
    <3> DEFINE P == {p}
    <3>2. IsFiniteSet(P) /\ Cardinality(P) = 1 /\ q \notin P
      BY <2>2, <3>1
    <3> HIDE DEF P
    <3>3. IsFiniteSet(P \cup {q}) /\ Cardinality(P \cup {q}) = Cardinality(P) + 1
      BY <3>2, FS_AddElement
    <3>4. 1 + 1 = 2
      OBVIOUS
    <3> QED BY <3>2, <3>3, <3>4 DEF P
  <2>4. {p} \cup {q} \in SUBSET U
    BY <1>8 DEF p, q
  <2>5. Cardinality({p} \cup {q}) <= Cardinality(U)
    BY <1>5, <2>4, FS_Subset
  <2>6. Cardinality(U) \in Nat
    BY <1>5, FS_CardinalityType
  <2> QED BY <1>9, <2>3, <2>5, <2>6
<1> QED BY <1>1, <1>10, IdsDiffer

\* Types that CheckTypeCompatibility lets pass: what the one stage gives, the other takes.
LEMMA TypesAgree ==
    ASSUME NEW t \in Asm!StageType \ {"Custom"}, NEW u \in Asm!StageType \ {"Custom"},
           Asm!OutputTypeIndex(t) = Asm!InputTypeIndex(u)
    PROVE  Asm!Gives(t) = Asm!Takes(u)
<1>1. /\ Asm!OutputTypeIndex("Capture") = 0 /\ Asm!OutputTypeIndex("Preprocess") = 1
      /\ Asm!OutputTypeIndex("Inference") = 2 /\ Asm!OutputTypeIndex("Detect") = 3
      /\ Asm!OutputTypeIndex("RuleEval") = 4 /\ Asm!OutputTypeIndex("Reason") = 6
      /\ Asm!OutputTypeIndex("Export") = 6
  BY DEF Asm!OutputTypeIndex
<1>2. /\ Asm!InputTypeIndex("Capture") = 0 /\ Asm!InputTypeIndex("Preprocess") = 0
      /\ Asm!InputTypeIndex("Inference") = 1 /\ Asm!InputTypeIndex("Detect") = 2
      /\ Asm!InputTypeIndex("RuleEval") = 3 /\ Asm!InputTypeIndex("Reason") = 4
      /\ Asm!InputTypeIndex("Export") = 6
  BY DEF Asm!InputTypeIndex
<1>3. /\ Asm!Takes("Capture") = "RawImage" /\ Asm!Takes("Preprocess") = "RawImage"
      /\ Asm!Takes("Inference") = "SurfaceImage" /\ Asm!Takes("Detect") = "Embedding"
      /\ Asm!Takes("RuleEval") = "DetectionResult" /\ Asm!Takes("Reason") = "RuleEvalOutput"
      /\ Asm!Takes("Export") = "ReasoningResult"
  BY DEF Asm!Takes
<1>4. /\ Asm!Gives("Capture") = "RawImage" /\ Asm!Gives("Preprocess") = "SurfaceImage"
      /\ Asm!Gives("Inference") = "Embedding" /\ Asm!Gives("Detect") = "DetectionResult"
      /\ Asm!Gives("RuleEval") = "RuleEvalOutput" /\ Asm!Gives("Reason") = "ReasoningResult"
      /\ Asm!Gives("Export") = "ReasoningResult"
  BY DEF Asm!Gives
<1>5. /\ t \in {"Capture", "Preprocess", "Inference", "Detect", "RuleEval", "Reason", "Export"}
      /\ u \in {"Capture", "Preprocess", "Inference", "Detect", "RuleEval", "Reason", "Export"}
  BY DEF Asm!StageType
<1> QED BY <1>1, <1>2, <1>3, <1>4, <1>5

-----------------------------------------------------------------------------
\* What LoadFromYAML has accepted.
Accepted(c) == /\ Asm!Validate(c)
               /\ \A s \in Asm!Range(c.stages) : s.type \in Asm!StageType \ {"Custom"}
\* A way through the stages from the entry, each depending on the one before it.
Way(c, ids) == /\ ids \in Seq(Asm!Ids(c)) /\ ids[1] = assembled.entry
               /\ \A i \in 2 .. Len(ids) : ids[i - 1] \in Asm!Range(Asm!Stage(c, ids[i]).deps)

Lines == [phase : {"none", "loaded", "rejected"}, nodes : SUBSET Names, entry : Names \cup {"none"},
          running : BOOLEAN, workers : SUBSET Names]
LineInv == /\ config \in Configs /\ assembled \in Lines
           /\ assembled.phase # "loaded" => ~assembled.running
           /\ assembled.phase = "loaded" =>
                Accepted(config) /\ assembled.entry = config.stages[Asm!Min(Asm!Entries(config))].id
WalkInv == /\ walk.at # "none" =>
                /\ assembled.phase = "loaded" /\ Way(config, Append(walk.trace, walk.at))
                /\ walk.end = "none" /\ walk.trace \in Seq(Asm!Ids(config))
                /\ walk.trace # <<>> => walk.data = Asm!Takes(Asm!Stage(config, walk.at).type)
           /\ walk.end # "none" => assembled.phase = "loaded"
           /\ walk.end = "mismatch" => walk.trace = <<assembled.entry>>
           /\ walk.end = "done" =>
                /\ Way(config, walk.trace) /\ walk.trace # <<>>
                /\ Asm!Downstreams(config, Last(walk.trace)) = {}
AssemblyIInv == LineInv /\ WalkInv

\* An accepted configuration has an entry, whose stage is one of the stages.
LEMMA EntryIsStage ==
    ASSUME AsmAssumption, NEW c \in Configs, Accepted(c)
    PROVE  /\ Asm!Min(Asm!Entries(c)) \in Asm!Entries(c) /\ Asm!Entries(c) \subseteq DOMAIN c.stages
           /\ c.stages[Asm!Min(Asm!Entries(c))].id \in Asm!Ids(c)
<1>1. c.stages \in Seq(StageRecords)
  BY DEF AsmAssumption
<1>2. Asm!Entries(c) # {}
  BY DEF Accepted, Asm!Validate
<1>3. Asm!Entries(c) \subseteq DOMAIN c.stages /\ Asm!Entries(c) \in SUBSET Nat
  BY <1>1 DEF Asm!Entries
<1>4. Asm!Min(Asm!Entries(c)) \in Asm!Entries(c)
  BY <1>2, <1>3, MinIsLeast
<1> QED BY <1>3, <1>4 DEF Asm!Ids, Asm!Range

\* The stage that EnqueueOutputs gives a stage's output to depends on it, and takes what it gives.
LEMMA NextTakesOutput ==
    ASSUME AsmAssumption, NEW c \in Configs, config = c, Accepted(c), NEW id \in Asm!Ids(c)
    PROVE  LET next == Asm!EnqueueOutputs(id)
           IN  /\ next = "none" <=> Asm!Downstreams(c, id) = {}
               /\ next # "none" =>
                    /\ next \in Asm!Ids(c) /\ id \in Asm!Range(Asm!Stage(c, next).deps)
                    /\ Asm!Takes(Asm!Stage(c, next).type) = Asm!Gives(Asm!Stage(c, id).type)
<1> DEFINE D == Asm!Downstreams(c, id)
           next == Asm!EnqueueOutputs(id)
           s == c.stages[Asm!Min(D)]
           up == Asm!Stage(c, id)
<1>1. c.stages \in Seq(StageRecords) /\ \A r \in StageRecords : r.id # "none"
  BY DEF AsmAssumption
<1>2. D \in SUBSET Nat /\ D \subseteq DOMAIN c.stages
  BY <1>1 DEF Asm!Downstreams
<1>3. next = IF D = {} THEN "none" ELSE s.id
  BY DEF Asm!EnqueueOutputs
<1>4. ASSUME D # {}
      PROVE  /\ s.id # "none" /\ s.id \in Asm!Ids(c) /\ Asm!Stage(c, s.id) = s
             /\ id \in Asm!Range(s.deps) /\ Asm!Takes(s.type) = Asm!Gives(up.type)
  <2> DEFINE k == Asm!Min(D)
  <2>1. k \in D
    BY <1>2, <1>4, MinIsLeast
  <2>2. s \in Asm!Range(c.stages) /\ s \in StageRecords /\ id \in Asm!Range(s.deps)
    <3>1. s = c.stages[k] /\ k \in DOMAIN c.stages /\ id \in Asm!Range(c.stages[k].deps)
      BY <2>1 DEF Asm!Downstreams
    <3> HIDE DEF k, s
    <3> QED BY <1>1, <3>1 DEF Asm!Range
  <2>3. s.id \in Asm!Ids(c)
    BY <2>2 DEF Asm!Ids
  <2>4. Asm!Cardinality(Asm!Ids(c)) = Len(c.stages)
    BY DEF Accepted, Asm!Validate
  <2>5. Asm!Stage(c, s.id) = s /\ \A r \in Asm!Range(c.stages) : Asm!Stage(c, r.id) = r
    BY <1>1, <2>2, <2>4, IdsDiffer
  <2>6. up \in Asm!Range(c.stages)
    BY <2>5 DEF Asm!Ids
  <2>7. Asm!CheckTypeCompatibility(up, s)
    BY <2>2 DEF Accepted, Asm!Validate
  <2>8. up.type \in Asm!StageType \ {"Custom"} /\ s.type \in Asm!StageType \ {"Custom"}
    BY <2>2, <2>6 DEF Accepted
  <2>9. Asm!Gives(up.type) = Asm!Takes(s.type)
    BY <2>7, <2>8, TypesAgree DEF Asm!CheckTypeCompatibility
  <2> QED BY <1>1, <2>2, <2>3, <2>5, <2>9
<1> HIDE DEF next, D, s
<1> QED BY <1>3, <1>4 DEF next, D

\* The steps before a frame is on its way.
LEMMA LineSteps ==
    ASSUME AsmAssumption, AssemblyIInv, Asm!LoadFromYAML \/ Asm!Start \/ Asm!Submit
    PROVE  AssemblyIInv'
<1>1. CASE Asm!LoadFromYAML
  <2> DEFINE N == Asm!Ids(config)
             e == config.stages[Asm!Min(Asm!Entries(config))].id
  <2>1. /\ UNCHANGED <<config, walk, walks>> /\ config \in Configs /\ assembled \in Lines
        /\ assembled.phase = "none" /\ ~assembled.running
    BY <1>1 DEF Asm!LoadFromYAML, AssemblyIInv, LineInv
  <2>2. walk.at = "none" /\ walk.end = "none"
    BY <2>1 DEF AssemblyIInv, WalkInv
  <2>3. WalkInv'
    BY <2>1, <2>2 DEF WalkInv
  <2>4. CASE /\ Asm!ParseFromYAML(config) /\ Asm!Validate(config)
             /\ \A s \in Asm!Range(config.stages) : Asm!CreateStage(s)
             /\ assembled' = [assembled EXCEPT !.phase = "loaded", !.nodes = N, !.entry = e]
    <3>1. Accepted(config)
      BY <2>4 DEF Accepted, Asm!ParseFromYAML, Asm!CreateStage
    <3>2. e \in N
      BY <2>1, <3>1, EntryIsStage
    <3>3. N \in SUBSET Names
      <4>1. config.stages \in Seq(StageRecords) /\ \A s \in StageRecords : s.id \in Names
        BY <2>1 DEF AsmAssumption
      <4> QED BY <4>1 DEF Asm!Ids, Asm!Range
    <3>4. e' = e /\ Accepted(config)'
      BY <2>1, <3>1
    <3> HIDE DEF e, N
    <3>5. e \in Names
      BY <3>2, <3>3
    <3>6. assembled' \in Lines /\ assembled'.phase = "loaded" /\ assembled'.entry = e
      BY <2>1, <2>4, <3>3, <3>5 DEF Lines
    <3>7. LineInv'
      BY <2>1, <3>4, <3>6 DEF LineInv, e
    <3> QED BY <2>3, <3>7 DEF AssemblyIInv
  <2>5. CASE assembled' = [assembled EXCEPT !.phase = "rejected"]
    <3>1. assembled' \in Lines /\ assembled'.phase = "rejected" /\ ~assembled'.running
      BY <2>1, <2>5 DEF Lines
    <3> QED BY <2>1, <2>3, <3>1 DEF AssemblyIInv, LineInv
  <2> QED BY <1>1, <2>4, <2>5 DEF Asm!LoadFromYAML
<1>2. CASE Asm!Start
  <2> DEFINE N == {id \in assembled.nodes :
                     config.threads[Asm!StageTypeToPoolKey(Asm!Stage(config, id).type)] > 0}
  <2>1. /\ UNCHANGED <<config, walk, walks>> /\ config \in Configs /\ assembled \in Lines
        /\ assembled.phase = "loaded"
        /\ \/ assembled' = [assembled EXCEPT !.running = TRUE, !.workers = N]
           \/ assembled' = [assembled EXCEPT !.running = TRUE]
    BY <1>2 DEF Asm!Start, AssemblyIInv, LineInv
  <2>2. N \in SUBSET Names
    BY <2>1 DEF Lines
  <2> HIDE DEF N
  <2>3. assembled' \in Lines /\ assembled'.phase = "loaded" /\ assembled'.entry = assembled.entry
    BY <2>1, <2>2 DEF Lines
  <2>4. LineInv'
    BY <2>1, <2>3 DEF AssemblyIInv, LineInv
  <2>5. WalkInv'
    BY <2>1, <2>3 DEF AssemblyIInv, WalkInv, Way
  <2> QED BY <2>4, <2>5 DEF AssemblyIInv
<1>3. CASE Asm!Submit
  <2> DEFINE e == assembled.entry
  <2>1. /\ UNCHANGED <<config, assembled>> /\ assembled.phase = "loaded"
        /\ walk' = [at |-> e, data |-> "RawImage", trace |-> <<>>, end |-> "none"]
    BY <1>3 DEF Asm!Submit, AssemblyIInv, LineInv
  <2>2. e \in Asm!Ids(config)
    BY <2>1, EntryIsStage DEF AssemblyIInv, LineInv
  <2>3. LineInv'
    BY <2>1 DEF AssemblyIInv, LineInv
  <2>4. Append(<<>>, e) = <<e>> /\ <<e>> \in Seq(Asm!Ids(config)) /\ <<e>>[1] = e /\ Len(<<e>>) = 1
    BY <2>2
  <2>5. Way(config, Append(<<>>, e))
    BY <2>4 DEF Way
  <2>6. walk'.at = e /\ walk'.trace = <<>> /\ walk'.end = "none" /\ <<>> \in Seq(Asm!Ids(config))
    BY <2>1
  <2>7. WalkInv'
    BY <2>1, <2>5, <2>6 DEF WalkInv, Way
  <2> QED BY <2>3, <2>7 DEF AssemblyIInv
<1> QED BY <1>1, <1>2, <1>3

\* A stage's work takes the frame one stage on, or ends its way.
LEMMA WorkStep ==
    ASSUME AsmAssumption, AssemblyIInv, Asm!WorkAny
    PROVE  AssemblyIInv'
<1> DEFINE c == config
           id == walk.at
           t == Asm!Stage(c, id).type
           went == Append(walk.trace, id)
           next == Asm!EnqueueOutputs(id)
<1>1. /\ UNCHANGED <<config, assembled, walks>> /\ id # "none" /\ c \in Configs
      /\ assembled.phase = "loaded" /\ Accepted(c)
  BY DEF Asm!WorkAny, Asm!Work, AssemblyIInv, LineInv, WalkInv
<1>2. /\ Way(c, went) /\ walk.trace \in Seq(Asm!Ids(c))
      /\ walk.trace # <<>> => walk.data = Asm!Takes(t)
  BY <1>1 DEF AssemblyIInv, WalkInv
<1>3. LineInv'
  BY <1>1 DEF AssemblyIInv, LineInv
<1>4. /\ went \in Seq(Asm!Ids(c)) /\ Len(went) \in Nat /\ Len(went) >= 1 /\ went # <<>> /\ Last(went) = id
      /\ id \in Asm!Ids(c)
  <2>1. went \in Seq(Asm!Ids(c))
    BY <1>2 DEF Way
  <2>2. Len(went) = Len(walk.trace) + 1 /\ Len(walk.trace) \in Nat /\ went[Len(went)] = id
    BY <1>2
  <2> HIDE DEF went
  <2>3. Len(went) >= 1 /\ went # <<>> /\ went[Len(went)] \in Asm!Ids(c)
    BY <2>1, <2>2
  <2> QED BY <2>1, <2>2, <2>3 DEF Last
<1>5. CASE /\ walk.data # Asm!Takes(t)
           /\ walk' = [at |-> "none", data |-> walk.data, trace |-> went, end |-> "mismatch"]
  <2>1. walk.trace = <<>> /\ went = <<id>> /\ id = assembled.entry
    <3>1. walk.trace = <<>>
      BY <1>2, <1>5
    <3>2. went = <<id>> /\ went[1] = id
      BY <3>1
    <3> QED BY <1>2, <3>1, <3>2 DEF Way
  <2>2. walk'.at = "none" /\ walk'.end = "mismatch" /\ walk'.trace = <<assembled.entry>>
    BY <1>5, <2>1
  <2>3. WalkInv'
    BY <1>1, <2>2 DEF WalkInv
  <2> QED BY <1>3, <2>3 DEF AssemblyIInv
<1>6. CASE walk' = [at |-> "none", data |-> "none", trace |-> went, end |-> "failed"]
  <2>1. walk'.at = "none" /\ walk'.end = "failed"
    BY <1>6
  <2>2. WalkInv'
    BY <1>1, <2>1 DEF WalkInv
  <2> QED BY <1>3, <2>2 DEF AssemblyIInv
<1>7. CASE walk' = [at |-> next, data |-> Asm!Gives(t), trace |-> went,
                    end |-> IF next = "none" THEN "done" ELSE "none"]
  <2>1. /\ next = "none" <=> Asm!Downstreams(c, id) = {}
        /\ next # "none" =>
             /\ next \in Asm!Ids(c) /\ id \in Asm!Range(Asm!Stage(c, next).deps)
             /\ Asm!Takes(Asm!Stage(c, next).type) = Asm!Gives(t)
    BY <1>1, <1>4, NextTakesOutput
  <2>2. /\ walk'.at = next /\ walk'.data = Asm!Gives(t) /\ walk'.trace = went
        /\ walk'.end = IF next = "none" THEN "done" ELSE "none"
    BY <1>7
  <2>3. CASE next = "none"
    <3>1. Asm!Downstreams(c, Last(went)) = {}
      BY <1>4, <2>1, <2>3
    <3>2. /\ walk'.at = "none" /\ walk'.end = "done" /\ walk'.trace = went /\ config' = c
          /\ assembled' = assembled
      BY <1>1, <2>2, <2>3
    <3> HIDE DEF went, next, c
    <3>3. Way(config, walk.trace)' /\ (Asm!Downstreams(config, Last(walk.trace)) = {})'
      BY <1>2, <3>1, <3>2 DEF Way, Asm!Downstreams, Asm!Stage
    <3>4. WalkInv'
      BY <1>1, <1>4, <3>2, <3>3 DEF WalkInv
    <3> QED BY <1>3, <3>4 DEF AssemblyIInv
  <2>4. CASE next # "none"
    <3> DEFINE on == Append(went, next)
    <3>1. Way(c, on)
      <4>1. next \in Asm!Ids(c) /\ id \in Asm!Range(Asm!Stage(c, next).deps)
        BY <2>1, <2>4
      <4>2. /\ went[1] = assembled.entry
            /\ \A i \in 2 .. Len(went) : went[i - 1] \in Asm!Range(Asm!Stage(c, went[i]).deps)
        BY <1>2 DEF Way
      <4>3. went[Len(went)] = id
        BY <1>4 DEF Last
      <4> HIDE DEF went, next
      <4>4. /\ on \in Seq(Asm!Ids(c)) /\ Len(on) = Len(went) + 1 /\ on[Len(went) + 1] = next
            /\ \A i \in 1 .. Len(went) : on[i] = went[i]
        BY <1>4, <4>1
      <4> HIDE DEF on
      <4>5. on[1] = assembled.entry
        BY <1>4, <4>2, <4>4
      <4>6. ASSUME NEW i \in 2 .. Len(on) PROVE on[i - 1] \in Asm!Range(Asm!Stage(c, on[i]).deps)
        <5>1. CASE i = Len(went) + 1
          <6>1. i - 1 = Len(went) /\ i - 1 \in 1 .. Len(went)
            BY <1>4, <5>1
          <6>2. on[i] = next /\ on[i - 1] = id
            BY <4>3, <4>4, <5>1, <6>1
          <6> QED BY <4>1, <6>2
        <5>2. CASE i # Len(went) + 1
          <6>1. i \in 2 .. Len(went) /\ i - 1 \in 1 .. Len(went) /\ i \in 1 .. Len(went)
            BY <1>4, <4>4, <5>2
          <6>2. on[i] = went[i] /\ on[i - 1] = went[i - 1]
            BY <4>4, <6>1
          <6> QED BY <4>2, <6>1, <6>2
        <5> QED BY <5>1, <5>2
      <4> QED BY <4>4, <4>5, <4>6 DEF Way
    <3>2. /\ walk'.at = next /\ walk'.end = "none" /\ walk'.trace = went /\ config' = c
          /\ assembled' = assembled /\ walk'.data = Asm!Takes(Asm!Stage(c, next).type)
      BY <1>1, <2>1, <2>2, <2>4
    <3> HIDE DEF went, next, c
    <3>3. Way(config, Append(walk.trace, walk.at))'
      BY <3>1, <3>2 DEF Way
    <3>4. WalkInv'
      BY <1>1, <1>4, <2>4, <3>2, <3>3 DEF WalkInv
    <3> QED BY <1>3, <3>4 DEF AssemblyIInv
  <2> QED BY <2>3, <2>4
<1> QED BY <1>5, <1>6, <1>7 DEF Asm!WorkAny, Asm!Work

\* Of an accepted configuration with one entry, a way that ends where nothing depends on the
\* last stage has met every stage once.
LEMMA WayMeetsAll ==
    ASSUME AsmAssumption, NEW c \in Configs, Accepted(c), NEW ids, Way(c, ids), ids # <<>>,
           Asm!Downstreams(c, Last(ids)) = {}, Asm!Cardinality(Asm!Entries(c)) = 1,
           assembled.entry = c.stages[Asm!Min(Asm!Entries(c))].id
    PROVE  /\ Asm!IsInjective(ids) /\ Asm!Range(ids) = Asm!Ids(c)
           /\ Asm!Stage(c, Head(ids)).type = "Capture" /\ Asm!Stage(c, Last(ids)).type = "Export"
<1> DEFINE S == Asm!Range(c.stages)
           n == Len(ids)
           At(i) == Asm!Stage(c, ids[i])
<1>1. c.stages \in Seq(StageRecords) /\ S = {c.stages[i] : i \in DOMAIN c.stages}
  BY DEF AsmAssumption, Asm!Range
<1>2. /\ n \in Nat /\ n >= 1 /\ DOMAIN ids = 1 .. n /\ ids \in Seq(Asm!Ids(c))
      /\ \A i \in 1 .. n : ids[i] \in Asm!Ids(c)
      /\ Head(ids) = ids[1] /\ Last(ids) = ids[n]
  <2>1. ids \in Seq(Asm!Ids(c)) /\ ids # <<>>
    BY DEF Way
  <2> QED BY <2>1 DEF Last
<1>3. \A s \in S : Asm!Stage(c, s.id) = s
  BY <1>1, IdsDiffer DEF Accepted, Asm!Validate
<1>4. \A i \in 1 .. n : At(i) \in S /\ At(i).id = ids[i]
  BY <1>2, <1>3 DEF Asm!Ids
<1>5. \A i \in 2 .. n : ids[i - 1] \in Asm!Range(At(i).deps)
  BY DEF Way
<1>6. \A X \in SUBSET S : (\A s \in X : \E t \in X : t.id \in Asm!Range(s.deps)) => X = {}
  BY <1>1, CyclesStay DEF Accepted, Asm!Validate
\* A stage is met once: else the stages between would be a cycle.
<1>7. ASSUME NEW i \in 1 .. n, NEW j \in 1 .. n, i < j, ids[i] = ids[j] PROVE FALSE
  <2> DEFINE X == {At(k) : k \in i .. j}
  <2> HIDE DEF S, n
  <2>1. X \in SUBSET S /\ At(i) \in X /\ \A k \in i .. j : k \in 1 .. n
    BY <1>2, <1>4, <1>7
  <2>2. ASSUME NEW s \in X PROVE \E t \in X : t.id \in Asm!Range(s.deps)
    <3>1. PICK k \in i .. j : s = At(k)
      OBVIOUS
    <3>2. CASE k > i
      <4>1. k \in 2 .. n /\ k - 1 \in i .. j /\ k - 1 \in 1 .. n
        BY <1>2, <1>7, <3>2
      <4>2. At(k - 1) \in X /\ At(k - 1).id = ids[k - 1]
        BY <1>4, <4>1
      <4> QED BY <1>5, <3>1, <4>1, <4>2
    <3>3. CASE k = i
      <4>1. s = At(j) /\ j \in 2 .. n /\ j - 1 \in i .. j /\ j - 1 \in 1 .. n
        BY <1>2, <1>7, <3>1, <3>3
      <4>2. At(j - 1) \in X /\ At(j - 1).id = ids[j - 1]
        BY <1>4, <4>1
      <4> QED BY <1>5, <4>1, <4>2
    <3> QED BY <1>7, <3>2, <3>3
  <2> HIDE DEF X
  <2>3. X = {}
    BY <1>6, <2>1, <2>2
  <2> QED BY <2>1, <2>3
\* What is not met depends on another that is not met.
<1>8. \A id \in Asm!Ids(c) : \E i \in 1 .. n : ids[i] = id
  <2> DEFINE X == {s \in S : \A i \in 1 .. n : ids[i] # s.id}
  <2>1. ASSUME NEW s \in X PROVE \E t \in X : t.id \in Asm!Range(s.deps)
    <3>1. PICK k \in DOMAIN c.stages : s = c.stages[k]
      BY <1>1
    <3>2. k \notin Asm!Entries(c)
      <4> DEFINE E == Asm!Entries(c)
                 e == Asm!Min(E)
      <4>1. IsFiniteSet(E)
        <5>1. E \in SUBSET (1 .. Len(c.stages)) /\ Len(c.stages) \in Int
          BY <1>1 DEF Asm!Entries
        <5>2. IsFiniteSet(1 .. Len(c.stages))
          BY <5>1, FS_Interval
        <5> HIDE DEF E
        <5> QED BY <5>1, <5>2, FS_Subset
      <4>2. Cardinality(E) = 1
        BY SameCardinality
      <4>3. e \in E
        BY EntryIsStage
      <4>4. c.stages[e].id = ids[1]
        BY DEF Way
      <4> HIDE DEF E, e
      <4>5. \E x : E = {x}
        BY <4>1, <4>2, FS_Singleton
      <4>6. SUFFICES ASSUME k \in E PROVE FALSE
        BY DEF E
      <4>7. k = e
        BY <4>3, <4>5, <4>6
      <4> QED BY <1>2, <3>1, <4>4, <4>7
    <3>3. s.deps # <<>> /\ s \in StageRecords
      BY <1>1, <3>1, <3>2 DEF Asm!Entries
    <3>4. PICK a \in DOMAIN s.deps : TRUE
      <4> DEFINE d == s.deps
      <4>1. d \in Seq(Names) /\ d # <<>>
        BY <3>3 DEF AsmAssumption
      <4> HIDE DEF d
      <4>2. 1 \in DOMAIN d
        BY <4>1
      <4> QED BY <4>2 DEF d
    <3> DEFINE id == s.deps[a]
    <3>5. id \in Asm!Range(s.deps)
      BY DEF Asm!Range
    <3>6. id \in Asm!Ids(c)
      BY <3>5 DEF Accepted, Asm!Validate
    <3> HIDE DEF id
    <3>7. PICK t \in S : t.id = id
      BY <3>6 DEF Asm!Ids
    <3>8. ASSUME NEW i \in 1 .. n, ids[i] = id PROVE FALSE
      <4>1. CASE i = n
        <5>1. k \in Asm!Downstreams(c, id)
          BY <3>1, <3>5 DEF Asm!Downstreams
        <5> QED BY <1>2, <3>8, <4>1, <5>1
      <4>2. CASE i < n
        <5>1. i + 1 \in 2 .. n /\ (i + 1) - 1 = i /\ i + 1 \in 1 .. n
          BY <1>2, <4>2
        <5>2. id \in Asm!Range(At(i + 1).deps) /\ At(i + 1) \in S /\ At(i + 1).id = ids[i + 1]
          BY <1>4, <1>5, <3>8, <5>1
        <5> HIDE DEF At
        <5>3. PICK l \in DOMAIN c.stages : At(i + 1) = c.stages[l]
          BY <1>1, <5>2
        <5>4. l = k
          BY <3>1, <3>5, <3>6, <5>2, <5>3, OneDependant, SMTT(60) DEF Accepted
        <5>5. s.id = ids[i + 1]
          BY <3>1, <5>2, <5>3, <5>4
        <5>6. \A m \in 1 .. n : ids[m] # s.id
          BY <2>1
        <5> QED BY <5>1, <5>5, <5>6
      <4>3. i = n \/ i < n
        <5>1. n \in Nat
          BY <1>2
        <5> HIDE DEF n
        <5> QED BY <5>1
      <4> QED BY <4>1, <4>2, <4>3
    <3> QED BY <3>5, <3>7, <3>8
  <2>2. X \in SUBSET S
    OBVIOUS
  <2> HIDE DEF X
  <2>3. X = {}
    BY <1>6, <2>1, <2>2
  <2> QED BY <2>3 DEF X, Asm!Ids
<1>9. Asm!IsInjective(ids)
  <2> SUFFICES ASSUME NEW i \in 1 .. n, NEW j \in 1 .. n, ids[i] = ids[j] PROVE i = j
    BY <1>2 DEF Asm!IsInjective
  <2>1. ~(i < j) /\ ~(j < i)
    BY <1>7
  <2> QED BY <1>2, <2>1
<1>10. Asm!Range(ids) = Asm!Ids(c)
  BY <1>2, <1>8 DEF Asm!Range
\* The entry is the only one, so that the Capture stage among the entries is it.
<1>11. Asm!Stage(c, Head(ids)).type = "Capture"
  <2> DEFINE E == Asm!Entries(c)
             e == Asm!Min(E)
  <2>1. PICK k \in E : c.stages[k].type = "Capture"
    BY DEF Accepted, Asm!Validate
  <2>2. e \in E /\ E \subseteq DOMAIN c.stages
    BY EntryIsStage
  <2>3. IsFiniteSet(E)
    <3>1. E \in SUBSET (1 .. Len(c.stages)) /\ Len(c.stages) \in Int
      BY <1>1 DEF Asm!Entries
    <3>2. IsFiniteSet(1 .. Len(c.stages))
      BY <3>1, FS_Interval
    <3> HIDE DEF E
    <3> QED BY <3>1, <3>2, FS_Subset
  <2>4. Cardinality(E) = 1
    BY SameCardinality
  <2>5. ids[1] = c.stages[e].id
    BY DEF Way
  <2> HIDE DEF E, e
  <2>6. k = e
    BY <2>1, <2>2, <2>3, <2>4, FS_Singleton
  <2>7. c.stages[e] \in S
    BY <1>1, <2>2
  <2> QED BY <1>2, <1>3, <2>1, <2>5, <2>6, <2>7
\* On the way all but the last have a stage that depends on them.
<1>12. Asm!Stage(c, Last(ids)).type = "Export"
  <2>1. PICK k \in Asm!Exits(c) : c.stages[k].type = "Export"
    BY DEF Accepted, Asm!Validate
  <2>2. k \in DOMAIN c.stages /\ Asm!Dependants(c, c.stages[k].id) = {} /\ c.stages[k] \in S
    BY <1>1, <2>1 DEF Asm!Exits
  <2>3. PICK i \in 1 .. n : ids[i] = c.stages[k].id
    BY <1>8, <2>2 DEF Asm!Ids
  <2>4. ASSUME i < n PROVE FALSE
    <3>1. i + 1 \in 2 .. n /\ (i + 1) - 1 = i /\ i + 1 \in 1 .. n
      BY <1>2, <2>4
    <3>2. ids[i] \in Asm!Range(At(i + 1).deps) /\ At(i + 1) \in S
      BY <1>4, <1>5, <3>1
    <3> HIDE DEF At
    <3>3. PICK a \in DOMAIN At(i + 1).deps : At(i + 1).deps[a] = ids[i]
      BY <3>2 DEF Asm!Range
    <3>4. <<At(i + 1).id, a>> \in Asm!Dependants(c, ids[i])
      BY <3>2, <3>3 DEF Asm!Dependants
    <3>5. Asm!Dependants(c, ids[i]) = {}
      BY <2>2, <2>3
    <3> QED BY <3>4, <3>5
  <2>5. i = n
    <3>1. n \in Nat
      BY <1>2
    <3> HIDE DEF n
    <3> QED BY <2>4, <3>1
  <2> QED BY <1>2, <1>3, <2>1, <2>2, <2>3, <2>5
<1> QED BY <1>9, <1>10, <1>11, <1>12

\* Assembly (pipeline_builder.cpp:71-244, pipeline.cpp:227-444), for every set of configurations:
\* of one that was accepted no stage but the entry refuses the type of a frame's data, and with
\* one entry a frame that comes out was at every stage once, from a Capture stage to an Export one.
THEOREM FramesRouted ==
    ASSUME AsmAssumption
    PROVE  Asm!AssemblySpec => []Asm!RoutedThroughout
<1>1. Asm!AssemblyInit => AssemblyIInv
  <2> SUFFICES ASSUME Asm!AssemblyInit PROVE AssemblyIInv
    OBVIOUS
  <2>1. /\ config \in Configs /\ assembled \in Lines /\ assembled.phase = "none" /\ ~assembled.running
        /\ walk.at = "none" /\ walk.end = "none"
    BY DEF Asm!AssemblyInit, Asm!NoLine, Asm!NoWalk, Lines
  <2> QED BY <2>1 DEF AssemblyIInv, LineInv, WalkInv
<1>2. AssemblyIInv /\ [Asm!AssemblyNext]_(Asm!assemblyVars) => AssemblyIInv'
  <2> SUFFICES ASSUME AssemblyIInv, [Asm!AssemblyNext]_(Asm!assemblyVars) PROVE AssemblyIInv'
    OBVIOUS
  <2>1. CASE UNCHANGED Asm!assemblyVars
    <3>1. UNCHANGED <<config, assembled, walk>>
      BY <2>1 DEF Asm!assemblyVars
    <3> QED BY <3>1 DEF AssemblyIInv, LineInv, WalkInv, Way, Asm!Downstreams
  <2> QED BY <2>1, LineSteps, WorkStep DEF Asm!AssemblyNext
<1>3. AssemblyIInv => Asm!RoutedThroughout
  <2> SUFFICES ASSUME AssemblyIInv PROVE Asm!RoutedThroughout
    OBVIOUS
  <2>1. walk.end = "mismatch" => walk.trace = <<assembled.entry>>
    BY DEF AssemblyIInv, WalkInv
  <2>2. ASSUME walk.end = "done", Asm!Cardinality(Asm!Entries(config)) = 1
        PROVE  /\ Asm!IsInjective(walk.trace) /\ Asm!Range(walk.trace) = Asm!Ids(config)
               /\ Asm!Stage(config, Head(walk.trace)).type = "Capture"
               /\ Asm!Stage(config, Last(walk.trace)).type = "Export"
    <3>1. /\ Way(config, walk.trace) /\ walk.trace # <<>> /\ config \in Configs /\ Accepted(config)
          /\ Asm!Downstreams(config, Last(walk.trace)) = {}
          /\ assembled.entry = config.stages[Asm!Min(Asm!Entries(config))].id
      BY <2>2 DEF AssemblyIInv, LineInv, WalkInv
    <3> QED BY <2>2, <3>1, WayMeetsAll
  <2>3. Asm!Last(walk.trace) = Last(walk.trace)
    BY DEF Asm!Last, Last
  <2> QED BY <2>1, <2>2, <2>3 DEF Asm!RoutedThroughout
<1> QED BY <1>1, <1>2, <1>3, PTL DEF Asm!AssemblySpec

-----------------------------------------------------------------------------
(* Display: the picture that is given for a number.                         *)
CONSTANTS Cameras, Primary, CacheSlots, kMax, Verdicts, Reviews, MaxPictures, MaxTicks
VARIABLES mode, counter, camera, cached, latest, paths, line, detected, inService, export, results,
          view, board, posted, reading, shown, tick, served, status

Disp == INSTANCE Display WITH Slots <- CacheSlots, MaxFrames <- MaxPictures, running <- inService

\* A slot has the picture of the frame whose number it bears, or none yet.
CacheInv == /\ tick \in Nat
            /\ \A i \in 0 .. CacheSlots - 1 : cached[i].picture \in {Disp!None, cached[i].frame}
            /\ DOMAIN cached = 0 .. CacheSlots - 1
            /\ Disp!ServesOwn

\* A picture put into its slot takes its number with it.
LEMMA CacheKeepsNumbers ==
    ASSUME CacheInv, NEW f, Disp!Cache(f)
    PROVE  /\ \A i \in 0 .. CacheSlots - 1 : cached'[i].picture \in {Disp!None, cached'[i].frame}
           /\ DOMAIN cached' = 0 .. CacheSlots - 1
<1> DEFINE here == f % CacheSlots
<1>1. cached' = [cached EXCEPT ![here] = [frame |-> f, picture |-> f]] /\ DOMAIN cached = 0 .. CacheSlots - 1
  BY DEF Disp!Cache, CacheInv
<1> HIDE DEF here
<1>2. \A i \in 0 .. CacheSlots - 1 : cached'[i] = IF i = here THEN [frame |-> f, picture |-> f] ELSE cached[i]
  BY <1>1
<1> QED BY <1>1, <1>2 DEF CacheInv

LEMMA RequestImageInv ==
    ASSUME CacheSlots \in Nat \ {0}, CacheInv, Disp!requestImage PROVE CacheInv'
<1>1. tick' = tick + 1 /\ tick' \in Nat
  BY DEF Disp!requestImage, CacheInv
<1>2. CASE /\ Disp!InCache(tick) /\ served' = [asked |-> tick, picture |-> cached[tick % CacheSlots].picture, latest |-> latest]
           /\ UNCHANGED <<cached, latest>>
  <2>1. tick % CacheSlots \in 0 .. CacheSlots - 1
    BY DEF CacheInv
  <2>2. cached[tick % CacheSlots].picture \in {Disp!None, tick}
    BY <1>2, <2>1 DEF CacheInv, Disp!InCache
  <2>3. Disp!ServesOwn'
    BY <1>2, <2>2 DEF Disp!ServesOwn
  <2> QED BY <1>1, <1>2, <2>3 DEF CacheInv
<1>3. CASE Disp!Cache(tick) /\ served' = [asked |-> tick, picture |-> tick, latest |-> latest]
  <2>1. Disp!ServesOwn'
    BY <1>3 DEF Disp!ServesOwn
  <2> QED BY <1>1, <1>3, <2>1, CacheKeepsNumbers DEF CacheInv
<1>4. CASE served' = [asked |-> tick, picture |-> Disp!None, latest |-> latest] /\ UNCHANGED <<cached, latest>>
  <2>1. Disp!ServesOwn'
    BY <1>4 DEF Disp!ServesOwn
  <2> QED BY <1>1, <1>4, <2>1 DEF CacheInv
<1> QED BY <1>2, <1>3, <1>4 DEF Disp!requestImage

\* Display (frame_provider.cpp:163-199), for every number of cameras and of slots of the cache:
\* a picture given for a number was taken, or read from the disk, under it.
THEOREM PictureIsOwn ==
    ASSUME CacheSlots \in Nat \ {0}
    PROVE  Disp!DisplayInit /\ [][Disp!DisplayNext]_(Disp!displayVars) => []Disp!ServesOwn
<1>1. Disp!DisplayInit => CacheInv
  <2> SUFFICES ASSUME Disp!DisplayInit PROVE CacheInv
    OBVIOUS
  <2>1. cached = [i \in 0 .. CacheSlots - 1 |-> [frame |-> 0, picture |-> Disp!None]]
    BY DEF Disp!DisplayInit
  <2>2. tick = 0 /\ served = [asked |-> Disp!None, picture |-> Disp!None, latest |-> Disp!None]
    BY DEF Disp!DisplayInit
  <2>3. \A i \in 0 .. CacheSlots - 1 : cached[i].picture = Disp!None
    BY <2>1
  <2>4. Disp!ServesOwn
    BY <2>2 DEF Disp!ServesOwn
  <2> QED BY <2>1, <2>2, <2>3, <2>4 DEF CacheInv
<1>2. CacheInv /\ [Disp!DisplayNext]_(Disp!displayVars) => CacheInv'
  <2> SUFFICES ASSUME CacheInv, [Disp!DisplayNext]_(Disp!displayVars) PROVE CacheInv'
    OBVIOUS
  <2>1. CASE UNCHANGED <<cached, tick, served>>
    BY <2>1 DEF CacheInv, Disp!ServesOwn
  <2>2. CASE \E c \in Cameras : Disp!RegisterRawFrame(c)
    <3>1. PICK c \in Cameras : Disp!RegisterRawFrame(c)
      BY <2>2
    <3>2. Disp!Cache(camera[c].frame) /\ UNCHANGED <<tick, served>>
      BY <3>1 DEF Disp!RegisterRawFrame
    <3>3. Disp!ServesOwn'
      BY <3>2 DEF CacheInv, Disp!ServesOwn
    <3> QED BY <3>2, <3>3, CacheKeepsNumbers DEF CacheInv
  <2>3. CASE Disp!requestImage
    BY <2>3, RequestImageInv
  <2>4. CASE Disp!Detect \/ Disp!Export \/ Disp!UpdateResult \/ Disp!Emit \/ Disp!Summarise
             \/ Disp!HandleEvent \/ Disp!ReadField \/ Disp!RestartPipeline \/ Disp!Restarted \/ Disp!RunLive
    BY <2>1, <2>4 DEF Disp!Detect, Disp!Export, Disp!UpdateResult, Disp!Emit, Disp!Summarise, Disp!HandleEvent,
                      Disp!ReadField, Disp!RestartPipeline, Disp!Restarted, Disp!RunLive, Disp!pictureVars
  <2>5. CASE Disp!RunReviewMode \/ \E c \in Cameras : Disp!Number(c) \/ Disp!Submit(c)
    BY <2>1, <2>5 DEF Disp!RunReviewMode, Disp!Number, Disp!Submit
  <2>6. CASE UNCHANGED Disp!displayVars
    BY <2>1, <2>6 DEF Disp!displayVars
  <2> QED BY <2>2, <2>3, <2>4, <2>5, <2>6 DEF Disp!DisplayNext
<1>3. CacheInv => Disp!ServesOwn
  BY DEF CacheInv
<1> QED BY <1>1, <1>2, <1>3, PTL

-----------------------------------------------------------------------------
(* WebServer: what the queries answer.                                      *)
CONSTANTS kMaxHistory, MaxAlerts, Results, Limits, MaxUpdates, MaxStarts
VARIABLES owner, serving, svr, server, thread, updates, history, counts, answer

Web == INSTANCE WebServer WITH Verdicts <- Results, running <- serving

\* What is kept are the newest results, and each column counts those of its verdict.
InColumn(c) == {i \in DOMAIN updates : Web!Counted(updates[i]) = c}
WebIInv == /\ updates \in Seq(Results) /\ history = Web!Newest(updates, kMaxHistory)
           /\ DOMAIN counts = Web!Columns
           /\ \A c \in Web!Columns : counts[c] = Cardinality(InColumn(c))
           /\ Web!AnswerTrue

\* Newest takes the last entries, as many as it may.
LEMMA NewestEntries ==
    ASSUME NEW S, NEW s \in Seq(S), NEW n \in Nat
    PROVE  LET m == IF Len(s) > n THEN n ELSE Len(s)
           IN  /\ m \in Nat /\ Web!Newest(s, n) \in Seq(S) /\ Len(Web!Newest(s, n)) = m
               /\ \A i \in 1 .. m : Web!Newest(s, n)[i] = s[(Len(s) - m) + i]
<1> DEFINE m == IF Len(s) > n THEN n ELSE Len(s)
           a == IF Len(s) > n THEN Len(s) - n + 1 ELSE 1
<1>1. Len(s) \in Nat /\ m \in Nat /\ a \in Nat /\ a = Len(s) - m + 1 /\ a >= 1
  OBVIOUS
<1>2. \A i \in a .. Len(s) : s[i] \in S
  <2>1. \A i \in 1 .. Len(s) : s[i] \in S
    OBVIOUS
  <2> QED BY <1>1, <2>1
<1>3. Web!Newest(s, n) = SubSeq(s, a, Len(s))
  BY DEF Web!Newest
<1> HIDE DEF a, m
<1>4. /\ SubSeq(s, a, Len(s)) \in Seq(S)
      /\ Len(SubSeq(s, a, Len(s))) = IF a <= Len(s) THEN Len(s) - a + 1 ELSE 0
      /\ \A i \in 1 .. Len(s) - a + 1 : SubSeq(s, a, Len(s))[i] = s[a + i - 1]
  <2>1. a \in Int /\ Len(s) \in Int
    BY <1>1
  <2> QED BY <1>2, <2>1, SubSeqProperties
<1>5. Len(s) - a + 1 = m /\ (~(a <= Len(s)) => m = 0)
  BY <1>1
<1>6. \A i \in 1 .. m : a + i - 1 = (Len(s) - m) + i
  BY <1>1
<1>7. Len(Web!Newest(s, n)) = m
  BY <1>3, <1>4, <1>5
<1>8. \A i \in 1 .. m : Web!Newest(s, n)[i] = s[(Len(s) - m) + i]
  BY <1>3, <1>4, <1>5, <1>6
<1> QED BY <1>1, <1>3, <1>4, <1>7, <1>8 DEF m

\* Trimmed after each result, the history stays the newest of all results.
LEMMA TrimmedIsNewest ==
    ASSUME NEW S, NEW s \in Seq(S), NEW v \in S, kMaxHistory \in Nat
    PROVE  Web!Trimmed(Append(Web!Newest(s, kMaxHistory), v)) = Web!Newest(Append(s, v), kMaxHistory)
<1> DEFINE k == kMaxHistory
           n == Len(s)
           old == Web!Newest(s, k)
           m == IF n > k THEN k ELSE n
           all == Append(s, v)
           new == Append(old, v)
<1>1. k \in Nat /\ n \in Nat /\ m \in Nat
  OBVIOUS
<1>2. old \in Seq(S) /\ Len(old) = m /\ \A i \in 1 .. m : old[i] = s[(n - m) + i]
  BY NewestEntries
<1>3. /\ all \in Seq(S) /\ Len(all) = n + 1 /\ all[n + 1] = v
      /\ \A i \in 1 .. n : all[i] = s[i]
  OBVIOUS
<1> HIDE DEF old
<1>4. /\ new \in Seq(S) /\ Len(new) = m + 1 /\ new[m + 1] = v
      /\ \A i \in 1 .. m : new[i] = old[i]
  BY <1>1, <1>2
<1> HIDE DEF all, new, n, k
<1>5. \A i \in 1 .. m + 1 : new[i] = all[(n - m) + i]
  <2> SUFFICES ASSUME NEW i \in 1 .. m + 1 PROVE new[i] = all[(n - m) + i]
    OBVIOUS
  <2>1. CASE i = m + 1
    <3>1. (n - m) + i = n + 1
      BY <1>1, <2>1
    <3> QED BY <1>3, <1>4, <2>1, <3>1
  <2>2. CASE i # m + 1
    <3>1. i \in 1 .. m /\ (n - m) + i \in 1 .. n
      BY <1>1, <2>2
    <3> QED BY <1>2, <1>3, <1>4, <3>1
  <2> QED BY <2>1, <2>2
<1>6. CASE n >= k
  <2>1. m = k
    BY <1>1, <1>6
  <2> HIDE DEF m
  <2>2. Len(new) > k /\ Len(all) > k
    BY <1>1, <1>3, <1>4, <1>6, <2>1
  <2>3. Web!Trimmed(new) = Web!Newest(new, k)
    BY <2>2 DEF Web!Trimmed, k
  <2>4. /\ Web!Newest(new, k) \in Seq(S) /\ Len(Web!Newest(new, k)) = k
        /\ \A i \in 1 .. k : Web!Newest(new, k)[i] = new[(Len(new) - k) + i]
    BY <1>1, <1>4, <2>2, NewestEntries
  <2>5. /\ Web!Newest(all, k) \in Seq(S) /\ Len(Web!Newest(all, k)) = k
        /\ \A i \in 1 .. k : Web!Newest(all, k)[i] = all[(Len(all) - k) + i]
    BY <1>1, <1>3, <2>2, NewestEntries
  <2>6. \A i \in 1 .. k : new[(Len(new) - k) + i] = all[(Len(all) - k) + i]
    <3> SUFFICES ASSUME NEW i \in 1 .. k PROVE new[(Len(new) - k) + i] = all[(Len(all) - k) + i]
      OBVIOUS
    <3>1. (Len(new) - k) + i = i + 1 /\ i + 1 \in 1 .. m + 1
      BY <1>1, <1>4, <2>1
    <3>2. (Len(all) - k) + i = (n - m) + (i + 1)
      BY <1>1, <1>3, <2>1
    <3> QED BY <1>5, <3>1, <3>2
  <2>7. Web!Newest(new, k) = Web!Newest(all, k)
    BY <2>4, <2>5, <2>6, SeqEqual
  <2> QED BY <2>3, <2>7 DEF k, new, old, all
<1>7. CASE n < k
  <2>1. m = n
    BY <1>1, <1>7
  <2> HIDE DEF m
  <2>2. ~(Len(new) > k) /\ ~(Len(all) > k)
    BY <1>1, <1>3, <1>4, <1>7, <2>1
  <2>3. Web!Trimmed(new) = new
    BY <2>2 DEF Web!Trimmed, k
  <2>4. /\ Web!Newest(all, k) \in Seq(S) /\ Len(Web!Newest(all, k)) = Len(all)
        /\ \A i \in 1 .. Len(all) : Web!Newest(all, k)[i] = all[(Len(all) - Len(all)) + i]
    BY <1>1, <1>3, <2>2, NewestEntries
  <2>5. Len(new) = Len(Web!Newest(all, k)) /\ Len(new) = n + 1
    BY <1>3, <1>4, <2>1, <2>4
  <2>6. \A i \in 1 .. n + 1 : new[i] = Web!Newest(all, k)[i]
    <3> SUFFICES ASSUME NEW i \in 1 .. n + 1 PROVE new[i] = Web!Newest(all, k)[i]
      OBVIOUS
    <3>1. (n - m) + i = i /\ (Len(all) - Len(all)) + i = i
      BY <1>1, <1>3, <2>1
    <3> QED BY <1>3, <1>5, <2>1, <2>4, <3>1
  <2>7. new = Web!Newest(all, k)
    BY <1>4, <2>4, <2>5, <2>6, SeqEqual
  <2> QED BY <2>3, <2>7 DEF k, new, old, all
<1> QED BY <1>1, <1>6, <1>7

\* The newest one is the last.
LEMMA NewestOne ==
    ASSUME NEW S, NEW s \in Seq(S)
    PROVE  Web!Newest(s, 1) = IF s = <<>> THEN <<>> ELSE <<Web!Last(s)>>
<1>1. CASE s = <<>>
  <2>1. Len(s) = 0
    BY <1>1
  <2>2. Web!Newest(s, 1) \in Seq(S) /\ Len(Web!Newest(s, 1)) = 0
    <3>1. /\ Web!Newest(s, 1) \in Seq(S)
          /\ Len(Web!Newest(s, 1)) = IF Len(s) > 1 THEN 1 ELSE Len(s)
      BY NewestEntries
    <3> QED BY <2>1, <3>1
  <2>3. Web!Newest(s, 1) = <<>>
    BY <2>2, EmptySeq
  <2> QED BY <1>1, <2>3
<1>2. CASE s # <<>>
  <2> DEFINE n == Len(s)
             last == s[n]
  <2>1. n \in Nat \ {0} /\ last \in S
    BY <1>2
  <2> HIDE DEF n
  <2>2. /\ Web!Newest(s, 1) \in Seq(S) /\ Len(Web!Newest(s, 1)) = 1
        /\ \A i \in 1 .. 1 : Web!Newest(s, 1)[i] = s[(n - 1) + i]
    <3> DEFINE m == IF n > 1 THEN 1 ELSE n
    <3>1. m = 1
      BY <2>1
    <3>2. /\ Web!Newest(s, 1) \in Seq(S) /\ Len(Web!Newest(s, 1)) = m
          /\ \A i \in 1 .. m : Web!Newest(s, 1)[i] = s[(n - m) + i]
      BY NewestEntries, ZenonT(60) DEF n
    <3> HIDE DEF m
    <3> QED BY <3>1, <3>2
  <2>3. (n - 1) + 1 = n /\ 1 \in 1 .. 1
    BY <2>1
  <2>4. Web!Newest(s, 1)[1] = last
    BY <2>2, <2>3
  <2> HIDE DEF last
  <2>5. <<last>> \in Seq(S) /\ Len(<<last>>) = 1 /\ <<last>>[1] = last
    BY <2>1
  <2>6. \A i \in 1 .. 1 : Web!Newest(s, 1)[i] = <<last>>[i]
    BY <2>4, <2>5
  <2>7. Web!Newest(s, 1) = <<last>>
    BY <2>2, <2>5, <2>6, SeqEqual
  <2> QED BY <1>2, <2>7 DEF Web!Last, last, n
<1> QED BY <1>1, <1>2

LEMMA UpdateResultInv ==
    ASSUME kMaxHistory \in Nat, WebIInv, NEW v \in Results, Web!UpdateResult(v) PROVE WebIInv'
<1> DEFINE n == Len(updates)
           all == Append(updates, v)
<1>1. updates \in Seq(Results) /\ n \in Nat /\ DOMAIN updates = 1 .. n /\ DOMAIN counts = Web!Columns
  BY DEF WebIInv
<1>2. updates' = all /\ answer' = answer
  BY DEF Web!UpdateResult
<1>3. /\ all \in Seq(Results) /\ DOMAIN all = 1 .. n + 1 /\ all[n + 1] = v
      /\ \A i \in 1 .. n : all[i] = updates[i]
  BY <1>1
<1> HIDE DEF n, all
<1>4. history' = Web!Newest(updates', kMaxHistory)
  <2>1. history' = Web!Trimmed(Append(history, v)) /\ history = Web!Newest(updates, kMaxHistory)
    BY DEF Web!UpdateResult, WebIInv
  <2>2. Web!Newest(updates', kMaxHistory) = Web!Newest(Append(updates, v), kMaxHistory)
    BY <1>2 DEF all
  <2> QED BY <1>1, <2>1, <2>2, TrimmedIsNewest
<1>5. ASSUME NEW c \in Web!Columns PROVE counts'[c] = Cardinality(InColumn(c)')
  <2>1. /\ counts[c] = Cardinality(InColumn(c)) /\ counts' = [counts EXCEPT ![Web!Counted(v)] = @ + 1]
    BY DEF WebIInv, Web!UpdateResult
  <2>2. InColumn(c) = {i \in 1 .. n : Web!Counted(updates[i]) = c}
    BY <1>1 DEF InColumn
  <2>3. InColumn(c)' = {i \in 1 .. n + 1 : Web!Counted(all[i]) = c}
    BY <1>2, <1>3 DEF InColumn
  <2>4. IsFiniteSet(InColumn(c)) /\ n + 1 \notin InColumn(c)
    <3>1. IsFiniteSet(1 .. n)
      BY <1>1, FS_Interval
    <3>2. InColumn(c) \subseteq 1 .. n
      BY <2>2
    <3> QED BY <1>1, <3>1, <3>2, FS_Subset
  <2>5. \A i \in 1 .. n + 1 : i = n + 1 \/ i \in 1 .. n
    BY <1>1
  <2>6. n + 1 \in 1 .. n + 1 /\ \A i \in 1 .. n : i \in 1 .. n + 1
    BY <1>1
  <2>7. CASE Web!Counted(v) = c
    <3>1. InColumn(c)' = InColumn(c) \cup {n + 1}
      BY <1>3, <2>2, <2>3, <2>5, <2>6, <2>7
    <3>2. Cardinality(InColumn(c)') = Cardinality(InColumn(c)) + 1
      BY <2>4, <3>1, FS_AddElement
    <3>3. counts'[c] = counts[c] + 1
      BY <1>1, <2>1, <2>7
    <3> QED BY <2>1, <3>2, <3>3
  <2>8. CASE Web!Counted(v) # c
    <3>1. InColumn(c)' = InColumn(c)
      BY <1>3, <2>2, <2>3, <2>5, <2>6, <2>8
    <3>2. counts'[c] = counts[c]
      BY <1>1, <2>1, <2>8
    <3> QED BY <2>1, <3>1, <3>2
  <2> QED BY <2>7, <2>8
<1>6. DOMAIN counts' = Web!Columns
  BY <1>1 DEF Web!UpdateResult
<1>7. Web!AnswerTrue'
  <2>1. Web!AnswerTrue
    BY DEF WebIInv
  <2> QED BY <1>2, <2>1 DEF Web!AnswerTrue, Web!NoAnswer
<1>8. updates' \in Seq(Results)
  BY <1>2, <1>3
<1> QED BY <1>4, <1>5, <1>6, <1>7, <1>8 DEF WebIInv

LEMMA AnswerInv ==
    ASSUME kMaxHistory \in Nat, WebIInv, Web!Answer PROVE WebIInv'
<1>1. UNCHANGED <<updates, history, counts>>
  BY DEF Web!Answer
<1>2. updates \in Seq(Results) /\ history = Web!Newest(updates, kMaxHistory) /\ history \in Seq(Results)
  BY NewestEntries DEF WebIInv
<1>3. \A c \in Web!Columns : counts[c] = Web!Cardinality({i \in DOMAIN updates : Web!Counted(updates[i]) = c})
  <2>1. \A S : Web!Cardinality(S) = Cardinality(S)
    BY DEF Web!Cardinality, Cardinality, Web!IsFiniteSet, IsFiniteSet
  <2> QED BY <2>1 DEF WebIInv, InColumn
<1>4. CASE Web!Query("status", 0, counts)
  <2>1. answer' = [query |-> "status", limit |-> 0, given |-> counts, all |-> updates]
    BY <1>4 DEF Web!Query
  <2>2. Web!AnswerTrue'
    BY <1>3, <2>1 DEF Web!AnswerTrue, Web!Agrees
  <2> QED BY <1>1, <2>2 DEF WebIInv, InColumn
<1>5. CASE Web!Query("latest", 1, IF history = <<>> THEN <<>> ELSE <<Web!Last(history)>>)
  <2>1. answer' = [query |-> "latest", limit |-> 1, given |-> Web!Newest(history, 1), all |-> updates]
    BY <1>2, <1>5, NewestOne DEF Web!Query
  <2>2. Web!AnswerTrue'
    BY <1>2, <2>1 DEF Web!AnswerTrue, Web!Agrees
  <2> QED BY <1>1, <2>2 DEF WebIInv, InColumn
<1>6. ASSUME NEW limit \in Limits, Web!Query("history", limit, Web!Recent(limit)) PROVE WebIInv'
  <2>1. answer' = [query |-> "history", limit |-> limit, all |-> updates,
                   given |-> IF limit < 0 THEN history ELSE Web!Newest(history, limit)]
    BY <1>6 DEF Web!Query, Web!Recent
  <2>2. Web!AnswerTrue'
    BY <1>2, <2>1 DEF Web!AnswerTrue, Web!Agrees
  <2> QED BY <1>1, <2>2 DEF WebIInv, InColumn
<1>7. CASE Web!Query("alerts", MaxAlerts, Web!Reverse(Web!Alerts))
  <2>1. answer' = [query |-> "alerts", limit |-> MaxAlerts, all |-> updates, given |-> Web!Reverse(Web!Alerts)]
    BY <1>7 DEF Web!Query
  <2>2. Web!Alerts = Web!Newest(SelectSeq(history, LAMBDA v : v # "OK"), MaxAlerts)
    BY DEF Web!Alerts
  <2>3. Web!AnswerTrue'
    <3>1. answer'.query = "alerts" /\ answer'.all = updates
      BY <2>1
    <3>2. answer'.given
            = Web!Reverse(Web!Newest(SelectSeq(Web!Newest(updates, kMaxHistory), LAMBDA v : v # "OK"), MaxAlerts))
      <4>1. answer'.given = Web!Reverse(Web!Newest(SelectSeq(history, LAMBDA v : v # "OK"), MaxAlerts))
        BY <2>1, <2>2
      <4> QED BY <1>2, <4>1
    <3>3. Web!Agrees(answer')
      BY <3>1, <3>2, Zenon DEF Web!Agrees
    <3> QED BY <3>3 DEF Web!AnswerTrue
  <2> QED BY <1>1, <2>3 DEF WebIInv, InColumn
<1> QED BY <1>4, <1>5, <1>6, <1>7 DEF Web!Answer

\* WebServer (http_server.cpp:38-137, 217-227), for every length of the history and every
\* number of results and servers: a query's answer agrees with the results reported until
\* then, the counts with all of them and the lists with the newest that are kept.
THEOREM AnswersTrue ==
    ASSUME kMaxHistory \in Nat PROVE Web!WebInit /\ [][Web!WebNext]_(Web!webVars) => []Web!AnswerTrue
<1>1. Web!WebInit => WebIInv
  <2> SUFFICES ASSUME Web!WebInit PROVE WebIInv
    OBVIOUS
  <2>1. updates = <<>> /\ history = <<>> /\ counts = [c \in Web!Columns |-> 0] /\ answer = Web!NoAnswer
    BY DEF Web!WebInit
  <2>2. updates \in Seq(Results) /\ Len(updates) = 0
    BY <2>1
  <2>3. Web!Newest(updates, kMaxHistory) = <<>>
    <3>1. /\ Web!Newest(updates, kMaxHistory) \in Seq(Results)
          /\ Len(Web!Newest(updates, kMaxHistory)) = IF Len(updates) > kMaxHistory THEN kMaxHistory ELSE Len(updates)
      BY <2>2, NewestEntries
    <3>2. Len(Web!Newest(updates, kMaxHistory)) = 0
      BY <2>2, <3>1
    <3> QED BY <3>1, <3>2, EmptySeq
  <2>4. \A c \in Web!Columns : counts[c] = Cardinality(InColumn(c))
    <3>1. \A c \in Web!Columns : InColumn(c) = {}
      BY <2>1 DEF InColumn
    <3> QED BY <2>1, <3>1, FS_EmptySet
  <2>5. Web!AnswerTrue
    BY <2>1 DEF Web!AnswerTrue, Web!Agrees
  <2> QED BY <2>1, <2>2, <2>3, <2>4, <2>5 DEF WebIInv
<1>2. WebIInv /\ [Web!WebNext]_(Web!webVars) => WebIInv'
  <2> SUFFICES ASSUME WebIInv, [Web!WebNext]_(Web!webVars) PROVE WebIInv'
    OBVIOUS
  <2>1. CASE \E v \in Results : Web!UpdateResult(v)
    BY <2>1, UpdateResultInv
  <2>2. CASE Web!Answer
    BY <2>2, AnswerInv
  <2>3. CASE UNCHANGED Web!dataVars
    <3>1. UNCHANGED <<updates, history, counts, answer>>
      BY <2>3 DEF Web!dataVars
    <3> QED BY <3>1 DEF WebIInv, InColumn, Web!AnswerTrue, Web!NoAnswer
  <2>4. CASE UNCHANGED Web!webVars
    BY <2>3, <2>4 DEF Web!webVars, Web!dataVars
  <2> QED BY <2>1, <2>2, <2>3, <2>4
          DEF Web!WebNext, Web!Start, Web!Started, Web!Stop, Web!Listen, Web!Return
<1>3. WebIInv => Web!AnswerTrue
  BY DEF WebIInv
<1> QED BY <1>1, <1>2, <1>3, PTL
=============================================================================
