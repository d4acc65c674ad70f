----------------------------- MODULE GpuStreams -----------------------------
(***************************************************************************)
(* GpuStreamQueue: asynchronous copies, the driver threads' callbacks, the *)
(* lock-free completion queue (many producers, one consumer) and the GPU   *)
(* callback thread that alone resumes the waiting coroutines.              *)
(* Bounds: Callers coroutines start Copies copies between them, over Slabs *)
(* pinned transfer slabs.  CopyFails: a launched copy may end in an error. *)
(***************************************************************************)
EXTENDS Integers, FiniteSets

CONSTANTS Callers, Copies, Slabs, CopyFails

VARIABLES
  copy,     \* caller -> where its coroutine is: idle, launched, inflight
  launcher, \* caller -> what is left of await_suspend on the calling thread
  status,   \* caller -> GpuCopyAwaiter::status
  outcome,  \* caller -> how the transfer itself ended
  report,   \* caller -> the last status returned, and the outcome it stands for
  driver,   \* caller -> where the driver thread is in OnStreamDone
  slot,     \* caller -> the position its completion event claimed
  ring,     \* sequence and data of each cell, enqueue and dequeue position
  advanced, \* the ticket is no longer the one that the callback thread read
  rejected, gpu, stop, started, slabs

copyVars == <<copy, launcher, status, outcome, report, started, slabs>>
driverVars == <<driver, slot, ring, advanced, rejected>>
threadVars == <<gpu, stop>>
gpuVars == <<copyVars, driverVars, threadVars>>

NoCaller == "none"
(* CompletionQueue::Init doubles from 2 until SlabCount() + 1 cells fit.   *)
(* Bound: pools of fewer than 2 ^ 16 slabs.                                *)
RingSizes == {2, 4, 8, 16, 32, 64, 128, 256, 512, 1024, 2048, 4096, 8192, 16384, 32768, 65536}
CapacityFor(n) == CHOOSE c \in RingSizes : c >= n /\ \A d \in RingSizes : d >= n => c <= d
Capacity == CapacityFor(Slabs + 1)
Cell(pos) == pos % Capacity

GpuInit ==
  /\ copy = [c \in Callers |-> "idle"] /\ launcher = [c \in Callers |-> "none"]
  /\ status = [c \in Callers |-> "ok"] /\ outcome = [c \in Callers |-> "ok"]
  /\ report = [c \in Callers |-> <<"ok", "ok">>]
  /\ driver = [c \in Callers |-> "none"] /\ slot = [c \in Callers |-> 0]
  /\ ring = [seq |-> [i \in 0..(Capacity - 1) |-> i], enq |-> 0, deq |-> 0,
             data |-> [i \in 0..(Capacity - 1) |-> NoCaller]]
  /\ advanced = FALSE /\ rejected = FALSE /\ gpu = "loop" /\ stop = FALSE
  /\ started = 0 /\ slabs = Slabs

(***************************************************************************)
(* The coroutine: EnqueueAsyncCopy and its awaiter                         *)
(***************************************************************************)
(* await_resume: the coroutine returns status and its slab is released. *)
Finish(c) == /\ copy' = [copy EXCEPT ![c] = "idle"] /\ slabs' = slabs + 1
             /\ report' = [report EXCEPT ![c] = <<status[c], outcome[c]>>]

(* Checkpoint 1, the slab, cudaMemcpyAsync: a copy that is cancelled, gets *)
(* no slab or is not launched ends without suspending its coroutine.       *)
Enqueue(c) ==
  /\ copy[c] = "idle" /\ launcher[c] = "none" /\ driver[c] = "none"
  /\ started < Copies /\ ~stop /\ slabs > 0
  /\ started' = started + 1 /\ slabs' = slabs - 1
  /\ copy' = [copy EXCEPT ![c] = "launched"]
  /\ status' = [status EXCEPT ![c] = "ok"] /\ outcome' = [outcome EXCEPT ![c] = "ok"]
  /\ UNCHANGED <<launcher, report, driverVars, threadVars>>

(* cudaStreamAddCallback: from here on the driver may call back; or it     *)
(* fails, the stream is drained and the coroutine goes on by itself.       *)
AddCallback(c) ==
  /\ copy[c] = "launched"
  /\ \/ /\ copy' = [copy EXCEPT ![c] = "inflight"]
        /\ launcher' = [launcher EXCEPT ![c] = "registered"]
        /\ driver' = [driver EXCEPT ![c] = "copying"] /\ UNCHANGED <<slabs, report>>
     \/ Finish(c) /\ UNCHANGED <<launcher, driver>>
  /\ UNCHANGED <<status, outcome, started, slot, ring, advanced, rejected, threadVars>>

(* Its result is stored in status, which the driver may have written. *)
StoreStatus(c) ==
  /\ launcher[c] = "registered"
  /\ status' = [status EXCEPT ![c] = "ok"]
  /\ launcher' = [launcher EXCEPT ![c] = "stored"]
  /\ UNCHANGED <<copy, outcome, report, started, slabs, driverVars, threadVars>>

(* The test of status: the compiler may forward the value just stored or   *)
(* read the field again.  Anything but success resumes the coroutine here. *)
TestStatus(c) ==
  /\ launcher[c] = "stored" /\ launcher' = [launcher EXCEPT ![c] = "none"]
  /\ \/ UNCHANGED <<copy, slabs, report>>
     \/ status[c] # "ok" /\ copy[c] = "inflight" /\ Finish(c)
  /\ UNCHANGED <<status, outcome, started, driverVars, threadVars>>

(***************************************************************************)
(* The driver thread: OnStreamDone and CompletionQueue::Push               *)
(***************************************************************************)
OnStreamDone(c) ==
  /\ driver[c] = "copying" /\ driver' = [driver EXCEPT ![c] = "push"]
  /\ \E result \in IF CopyFails THEN {"ok", "error"} ELSE {"ok"} :
       /\ outcome' = [outcome EXCEPT ![c] = result]
       /\ status' = [status EXCEPT ![c] = result]
  /\ UNCHANGED <<copy, launcher, report, started, slabs, slot, ring, advanced, rejected,
                 threadVars>>

(* The position is claimed when its cell is free; a full queue rejects. *)
Claim(c) ==
  /\ driver[c] = "push"
  /\ \/ /\ ring.seq[Cell(ring.enq)] = ring.enq
        /\ ring' = [ring EXCEPT !.enq = @ + 1] /\ slot' = [slot EXCEPT ![c] = ring.enq]
        /\ driver' = [driver EXCEPT ![c] = "claimed"] /\ UNCHANGED rejected
     \/ /\ ring.seq[Cell(ring.enq)] < ring.enq /\ rejected' = TRUE
        /\ driver' = [driver EXCEPT ![c] = "none"] /\ UNCHANGED <<ring, slot>>
  /\ UNCHANGED <<advanced, copyVars, threadVars>>

Publish(c) ==
  /\ driver[c] = "claimed" /\ driver' = [driver EXCEPT ![c] = "published"]
  /\ ring' = [ring EXCEPT !.data[Cell(slot[c])] = c, !.seq[Cell(slot[c])] = slot[c] + 1]
  /\ UNCHANGED <<slot, advanced, rejected, copyVars, threadVars>>

\* Variant of Advance: a push that does not move the ticket.
AdvanceSilently(c) ==
  /\ driver[c] = "published" /\ driver' = [driver EXCEPT ![c] = "none"]
  /\ UNCHANGED <<slot, ring, advanced, rejected, copyVars, threadVars>>
Advance(c) ==
  /\ driver[c] = "published" /\ driver' = [driver EXCEPT ![c] = "none"]
  /\ advanced' = TRUE
  /\ UNCHANGED <<slot, ring, rejected, copyVars, threadVars>>

(***************************************************************************)
(* The GPU callback thread: CallbackLoop, and the destructor               *)
(***************************************************************************)
Ready == ring.seq[Cell(ring.deq)] = ring.deq + 1
Popped == ring.data[Cell(ring.deq)]

Loop ==
  /\ gpu = "loop" /\ gpu' = (IF stop THEN "drain" ELSE "pop")
  /\ advanced' = FALSE
  /\ UNCHANGED <<stop, copyVars, driver, slot, ring, rejected>>

PopResume ==
  /\ gpu \in {"pop", "drain"} /\ Ready /\ gpu' = (IF gpu = "pop" THEN "loop" ELSE "drain")
  /\ ring' = [ring EXCEPT !.seq[Cell(ring.deq)] = ring.deq + Capacity, !.deq = @ + 1,
                          !.data[Cell(ring.deq)] = NoCaller]
  /\ Finish(Popped)
  /\ UNCHANGED <<launcher, status, outcome, started, driver, slot, advanced, rejected,
                 stop>>

PopEmpty ==
  /\ gpu \in {"pop", "drain"} /\ ~Ready
  /\ gpu' = (IF gpu = "pop" THEN "wait" ELSE "exited")
  /\ UNCHANGED <<stop, copyVars, driverVars>>

Wait ==
  /\ gpu = "wait" /\ advanced /\ gpu' = "loop"
  /\ UNCHANGED <<stop, copyVars, driverVars>>

(* The destructor: request_stop, whose callback wakes, and its own WakeAll. *)
Destroy ==
  /\ ~stop /\ stop' = TRUE /\ advanced' = TRUE
  /\ UNCHANGED <<gpu, driver, slot, ring, rejected, copyVars>>

CallerStep(c) == AddCallback(c) \/ StoreStatus(c) \/ TestStatus(c)
DriverStep(c) == OnStreamDone(c) \/ Claim(c) \/ Publish(c) \/ Advance(c)
ThreadStep == Loop \/ PopResume \/ PopEmpty \/ Wait
GpuNext == \/ \E c \in Callers : Enqueue(c) \/ CallerStep(c) \/ DriverStep(c)
           \/ ThreadStep \/ Destroy
GpuSpec == GpuInit /\ [][GpuNext]_gpuVars

(***************************************************************************)
(* Properties                                                              *)
(***************************************************************************)
QueuedEvents == {i \in DOMAIN ring.data : ring.data[i] # NoCaller}
EventsOf(c) == Cardinality({i \in QueuedEvents : ring.data[i] = c})
               + (IF driver[c] \in {"copying", "push", "claimed"} THEN 1 ELSE 0)

(* One resumer (gpu_stream_queue.h:11-16): a suspended copy has exactly    *)
(* one completion on its way, an ended one none, so that its coroutine is  *)
(* resumed once; every slab is free or held by one copy; and with SlabCount*)
(* + 1 cells no driver thread is ever turned away (line 129).              *)
GpuInv ==
  /\ copy \in [Callers -> {"idle", "launched", "inflight"}] /\ started \in 0..Copies
  /\ \A c \in Callers : EventsOf(c) = IF copy[c] = "inflight" THEN 1 ELSE 0
  /\ slabs = Slabs - Cardinality({c \in Callers : copy[c] # "idle"})
  /\ ~rejected
  /\ ring.deq <= ring.enq /\ ring.enq - ring.deq <= Slabs

(* Documented (gpu_stream_queue.cpp:182-184): checkpoint 2 "just reports   *)
(* the transfer's outcome".  With copies that fail, the error that the     *)
(* driver has stored may be overwritten by the thread that issued the copy.*)
OutcomeReported == \A c \in Callers : report[c][1] = report[c][2]

(* No completion is missed (line 89): an issued copy's coroutine goes on,  *)
(* unless the queue is being destroyed.                                    *)
CopyResumed == \A c \in Callers : copy[c] = "inflight" ~> copy[c] = "idle" \/ stop
=============================================================================
