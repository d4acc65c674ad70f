----------------------------- MODULE StageQueue -----------------------------
(***************************************************************************)
(* StageQueue<T> of include/sai/pipeline/stage_queue.h: the blocking calls *)
(* built on the ring with one mutex and one condition variable that pushers*)
(* and poppers share.  The ring is its occupancy: StageRing shows what its *)
(* calls do.                                                               *)
(*                                                                         *)
(* Each thread makes one kind of call in a loop, as the threads of the     *)
(* pipeline do: Submit calls PushBlocking, a worker calls                  *)
(* PopBlockingWithStop on its input and PushBlockingWithStop on its output *)
(* and leaves its loop when either gives up, Drain calls TryPop.           *)
(***************************************************************************)
EXTENDS Integers, FiniteSets

CONSTANTS
    Threads,
    Op,            \* thread -> the call it makes
    Capacity,      \* the ring's capacity, at least 1 (Create refuses 0)
    Quota,         \* bound: frames each pusher pushes
    MaxSpurious,   \* bound: spurious wakeups of the condition variable
    MaxStops,      \* bound: stop requests
    MaxTries,      \* bound: successful calls of TryPush and TryPop
    NoThread

PushOps == {"TryPush", "PushBlocking", "PushBlockingWithStop"}
PopOps == {"TryPop", "PopBlocking", "PopBlockingWithStop"}
StopOps == {"PushBlockingWithStop", "PopBlockingWithStop"}

ASSUME QueueAssumption ==
    /\ Op \in [Threads -> PushOps \cup PopOps]
    /\ Capacity \in Nat \ {0}
    /\ Quota \in Nat /\ MaxSpurious \in Nat /\ MaxStops \in Nat
    /\ MaxTries \in Nat
    /\ NoThread \notin Threads

VARIABLES
    depth,      \* frames in the ring
    mutex,      \* holder of mutex_, or NoThread
    pc,         \* per thread, where it is in its call
    waiters,    \* threads blocked on cv_
    stop,       \* threads whose stop_token has been triggered
    spurious,   \* spurious wakeups so far
    \* history
    calls,      \* per pusher, frames it has handed to the queue
    tries,      \* successful calls without the mutex
    accepted,   \* frames that entered the ring
    delivered   \* frames that a call returned

vars == <<depth, mutex, pc, waiters, stop, spurious, calls, tries, accepted, delivered>>

Pushers == {t \in Threads : Op[t] \in PushOps}
Poppers == {t \in Threads : Op[t] \in PopOps}
StopAware == {t \in Threads : Op[t] \in StopOps}
Unlocked == {t \in Threads : Op[t] \in {"TryPush", "TryPop"}}

\* Create(): an empty ring, nobody waiting.
Init ==
    /\ depth = 0
    /\ mutex = NoThread
    /\ pc = [t \in Threads |-> "idle"]
    /\ waiters = {}
    /\ stop = {}
    /\ spurious = 0
    /\ calls = [t \in Pushers |-> 0] /\ tries = 0
    /\ accepted = 0 /\ delivered = 0

GoTo(t, label) == pc' = [pc EXCEPT ![t] = label]

\* The predicate of the wait: !IsFull() for a pusher, !IsEmpty() for a popper.
Ready(t) == IF t \in Pushers THEN depth < Capacity ELSE depth > 0

-----------------------------------------------------------------------------
(* The ring's TryPush and TryPop, for the whole call.                       *)

RingStep(t) ==
    \/ /\ Ready(t) /\ t \in Pushers
       /\ depth' = depth + 1
       /\ accepted' = accepted + 1
       /\ UNCHANGED delivered
    \/ /\ Ready(t) /\ t \in Poppers
       /\ depth' = depth - 1
       /\ delivered' = delivered + 1
       /\ UNCHANGED accepted

\* cv_.notify_one() and notify_all().  A woken thread still has to lock mutex_.
NotifyOne(label, t) ==
    \/ /\ waiters = {}
       /\ GoTo(t, label)
       /\ UNCHANGED waiters
    \/ \E w \in waiters :
          /\ waiters' = waiters \ {w}
          /\ pc' = [pc EXCEPT ![t] = label, ![w] = "woken"]

-----------------------------------------------------------------------------
(* A blocking call                                                          *)

HasWork(t) == t \in Pushers => calls[t] < Quota

\* std::unique_lock lock(mutex_), at the start of the call.
Call(t) ==
    /\ pc[t] = "idle" /\ t \notin Unlocked
    /\ HasWork(t)
    /\ mutex = NoThread
    /\ mutex' = t
    /\ calls' = IF t \in Pushers THEN [calls EXCEPT ![t] = @ + 1] ELSE calls
    /\ GoTo(t, "enter")
    /\ UNCHANGED <<depth, waiters, stop, spurious, accepted, delivered, tries>>

\* The call gives up: the lock is released and a worker leaves its loop.
GiveUp(t) ==
    /\ mutex' = NoThread
    /\ GoTo(t, "done")

\* cv_.wait(lock, st, pred): with the stop already requested it returns pred(),
\* otherwise it registers the stop callback and tests the predicate.
EnterWait(t) ==
    /\ pc[t] = "enter"
    /\ \/ /\ Ready(t)
          /\ GoTo(t, "act")
          /\ UNCHANGED mutex
       \/ /\ ~Ready(t) /\ t \notin stop
          /\ GoTo(t, "block")
          /\ UNCHANGED mutex
       \/ /\ ~Ready(t) /\ t \in stop
          /\ GiveUp(t)
    /\ UNCHANGED <<depth, waiters, stop, spurious, calls, accepted, delivered, tries>>

\* Release mutex_ and sleep, in one step as far as notifications go; a stop
\* requested since the test ends the wait instead.
Block(t) ==
    /\ pc[t] = "block"
    /\ \/ /\ t \notin stop
          /\ mutex' = NoThread
          /\ waiters' = waiters \cup {t}
          /\ GoTo(t, "waiting")
       \/ /\ t \in stop
          /\ GiveUp(t)
          /\ UNCHANGED waiters
    /\ UNCHANGED <<depth, stop, spurious, calls, accepted, delivered, tries>>

\* Variant of Retest: the woken thread proceeds without testing again.
RetestWakeImpliesReady(t) ==
    /\ pc[t] = "woken"
    /\ mutex = NoThread
    /\ mutex' = t
    /\ GoTo(t, "act")
    /\ UNCHANGED <<depth, waiters, stop, spurious, calls, accepted, delivered, tries>>

\* A woken thread locks mutex_ again and goes round the predicate loop.
Retest(t) ==
    /\ pc[t] = "woken"
    /\ mutex = NoThread
    /\ mutex' = t
    /\ GoTo(t, IF Ready(t) THEN "act" ELSE "block")
    /\ UNCHANGED <<depth, waiters, stop, spurious, calls, accepted, delivered, tries>>

\* ring_.TryPush or ring_.TryPop under the lock.  TryPush's result is ignored;
\* a TryPop that finds the ring empty makes the call return nullptr.
Act(t) ==
    /\ pc[t] = "act"
    /\ \/ /\ RingStep(t)
          /\ GoTo(t, "leave")
       \/ /\ ~Ready(t)
          /\ GoTo(t, IF t \in Pushers THEN "leave" ELSE "leaveNull")
          /\ UNCHANGED <<depth, accepted, delivered>>
    /\ UNCHANGED <<mutex, waiters, stop, spurious, calls, tries>>

\* Variant of Leave: nobody is notified.
LeaveSilently(t) ==
    /\ pc[t] \in {"leave", "leaveNull"}
    /\ mutex' = NoThread
    /\ GoTo(t, IF pc[t] = "leave" THEN "idle" ELSE "done")
    /\ UNCHANGED <<depth, waiters, stop, spurious, calls, accepted, delivered, tries>>

\* cv_.notify_one(), then the lock goes out of scope.
Leave(t) ==
    /\ pc[t] \in {"leave", "leaveNull"}
    /\ NotifyOne(IF pc[t] = "leave" THEN "idle" ELSE "done", t)
    /\ mutex' = NoThread
    /\ UNCHANGED <<depth, stop, spurious, calls, accepted, delivered, tries>>

-----------------------------------------------------------------------------
(* TryPush and TryPop: no lock, and no notification when the ring refuses.  *)

Try(t) ==
    /\ pc[t] = "idle" /\ t \in Unlocked
    /\ HasWork(t) /\ tries < MaxTries
    /\ tries' = tries + 1
    /\ RingStep(t)
    /\ calls' = IF t \in Pushers THEN [calls EXCEPT ![t] = @ + 1] ELSE calls
    /\ GoTo(t, "tryNotify")
    /\ UNCHANGED <<mutex, waiters, stop, spurious>>

TryNotify(t) ==
    /\ pc[t] = "tryNotify"
    /\ NotifyOne("idle", t)
    /\ UNCHANGED <<depth, mutex, stop, spurious, calls, accepted, delivered, tries>>

-----------------------------------------------------------------------------
\* Variant of RequestStop: no stop callback is registered on the wait.
RequestStopNoCallback(t) ==
    /\ t \in StopAware \ stop
    /\ Cardinality(stop) < MaxStops
    /\ stop' = stop \cup {t}
    /\ UNCHANGED <<depth, mutex, pc, waiters, spurious, calls, accepted, delivered, tries>>

\* jthread::request_stop() on t's thread.  A registered callback (t is past the
\* entry of its wait) notifies every waiter of the queue.
RequestStop(t) ==
    /\ t \in StopAware \ stop
    /\ Cardinality(stop) < MaxStops
    /\ stop' = stop \cup {t}
    /\ \/ /\ pc[t] \in {"block", "waiting", "woken"}
          /\ pc' = [u \in Threads |-> IF u \in waiters THEN "woken" ELSE pc[u]]
          /\ waiters' = {}
       \/ /\ pc[t] \notin {"block", "waiting", "woken"}
          /\ UNCHANGED <<pc, waiters>>
    /\ UNCHANGED <<depth, mutex, spurious, calls, accepted, delivered, tries>>

\* A condition variable may wake a thread for no reason.
SpuriousWake(t) ==
    /\ t \in waiters
    /\ spurious < MaxSpurious
    /\ spurious' = spurious + 1
    /\ waiters' = waiters \ {t}
    /\ GoTo(t, "woken")
    /\ UNCHANGED <<depth, mutex, stop, calls, accepted, delivered, tries>>

-----------------------------------------------------------------------------
Step(t) == \/ Call(t) \/ EnterWait(t) \/ Block(t) \/ Retest(t) \/ Act(t)
           \/ Leave(t) \/ Try(t) \/ TryNotify(t)

Next == \E t \in Threads : Step(t) \/ RequestStop(t) \/ SpuriousWake(t)

\* A thread of the pipeline keeps running and goes round its loop, and a TryPush
\* or TryPop that has begun ends.  Nothing obliges Drain's TryPop, a stop request
\* or a spurious wakeup to come.
Spec == Init /\ [][Next]_vars
        /\ (\A t \in Threads \ Unlocked : WF_vars(Step(t)))
        /\ (\A u \in Unlocked : WF_vars(TryNotify(u)))

-----------------------------------------------------------------------------
(* Properties                                                               *)

TypeOK ==
    /\ depth \in 0 .. Capacity
    /\ mutex \in Threads \cup {NoThread}
    /\ pc \in [Threads -> {"idle", "enter", "block", "waiting", "woken", "act",
                           "leave", "leaveNull", "tryNotify", "done"}]
    /\ waiters \subseteq Threads
    /\ stop \subseteq StopAware
    /\ spurious \in 0 .. MaxSpurious
    /\ calls \in [Pushers -> 0 .. Quota] /\ tries \in 0 .. MaxTries
    /\ accepted \in Nat /\ delivered \in Nat

\* "guaranteed to succeed" (stage_queue.h:155, 165): when a push reaches the
\* ring, what its wait tested still holds, so the frame whose TryPush result is
\* ignored is never silently destroyed, also with Drain's TryPop beside it.
PushFindsRoom ==
    (\A t \in Unlocked : Op[t] = "TryPop") =>
        \A t \in Pushers : pc[t] = "act" => Ready(t)

\* "guaranteed to succeed (ring not empty)" (stage_queue.h:181, 193): when a pop
\* reaches the ring there is a frame, so nullptr always means "stop requested",
\* as long as nobody takes frames without the mutex.
PopFindsFrame == tries = 0 => \A t \in Poppers : pc[t] = "act" => Ready(t)

\* What the wait of a blocking call tested still holds when the call acts on it.
QueueInv == TypeOK /\ PushFindsRoom /\ PopFindsFrame

\* As long as nobody stops or drains, a frame accepted is eventually delivered:
\* the shared condition variable never leaves every popper asleep next to a frame.
EveryFrameServed ==
    [](tries = 0 /\ stop = {}) =>
        \A k \in 1 .. Quota * Cardinality(Pushers) : (accepted >= k) ~> (delivered >= k)

\* As long as nobody drains, a pusher asleep on a queue with room is woken or
\* loses the room again.
RoomWakesPusher ==
    [](tries = 0) =>
        \A t \in Pushers : (t \in waiters /\ depth < Capacity)
                              ~> (t \notin waiters \/ depth = Capacity)

\* A stop request reaches a thread wherever it is in its wait: it leaves its
\* loop, or has nothing left to push.
StopReleases ==
    \A t \in StopAware : (t \in stop) ~> (pc[t] = "done" \/ (pc[t] = "idle" /\ ~HasWork(t)))
=============================================================================
