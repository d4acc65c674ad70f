------------------------------ MODULE Pipeline ------------------------------
(***************************************************************************)
(* sai::pipeline::Pipeline (src/pipeline/pipeline.cpp): a chain of stages, *)
(* each with an input queue and a pool of worker threads, and the calls    *)
(* Start, Submit, Drain and Stop made on it.                               *)
(*                                                                         *)
(* A queue is a bounded sequence whose push and pop are one step, except   *)
(* where the code lets something in between: PopBlockingWithStop tests the *)
(* queue and takes the frame under the queue's mutex, and Drain takes      *)
(* frames without it (StageQueue shows the calls themselves).  A frame is  *)
(* its submission number; what a stage computes from it is left out.       *)
(***************************************************************************)
EXTENDS Integers, Sequences, FiniteSets

CONSTANTS
    StageTypes,      \* the chain: a sequence of StageType names
    Workers,         \* worker threads
    StageOf,         \* worker -> index of its stage
    Capacity,        \* stage index -> capacity of its input queue
    CanFail,         \* stage indices whose Process may return an error
    Unscored,        \* whether Detect may return a result without scores
    OnStartMayFail,  \* whether a stage's OnStart hook may return an error
    DrainMayTimeOut, \* whether 30 s may pass in a Drain that workers serve
    Calls,           \* the calls the controlling thread makes
    MaxFrames,       \* bound: frames submitted
    MaxStarts        \* bound: calls of Start

Stages == DOMAIN StageTypes
Last == Len(StageTypes)
Frames == 1 .. MaxFrames
NoFrame == 0

ASSUME PipelineAssumption ==
    /\ StageTypes \in Seq({"Capture", "Preprocess", "Inference", "Detect",
                           "RuleEval", "Reason", "Export", "Custom"})
    /\ Last > 0 /\ StageTypes[Last] = "Export"
    /\ StageOf \in [Workers -> Stages]
    /\ Capacity \in [Stages -> Nat \ {0}]
    /\ CanFail \subseteq Stages
    /\ Unscored \in BOOLEAN /\ OnStartMayFail \in BOOLEAN /\ DrainMayTimeOut \in BOOLEAN
    /\ Calls \subseteq {"Start", "Drain", "Stop"}
    /\ MaxFrames \in Nat /\ MaxStarts \in Nat

VARIABLES
    running,       \* running_
    queue,         \* input_queues_: stage index -> frames, oldest first
    wpc,           \* worker -> "none" (no thread), a step of the loop, "exited"
    hand,          \* worker -> the frame it is processing
    stop,          \* workers whose jthread has been asked to stop
    image,         \* current_frame_image_: the frame of the snapshot, or NoFrame
    anomaly,       \* current_anomaly_, likewise
    frameCounter,  \* frame_counter_
    taken,         \* worker of Export -> what its Process took from the side channels
    cpc,           \* the controlling thread: "idle" or its step in Drain or Stop
    inStop,        \* the Drain in progress was called by Stop
    scanned,       \* queues the current pass of Drain has dealt with
    spc,           \* the submitting thread: "idle", "push"
    starts,        \* calls of Start so far
    \* history
    outcome,       \* frame -> what became of it
    exports        \* what Export did: [frame, image, anomaly, id], in order

pipeVars == <<queue, image, anomaly, frameCounter, exports, outcome>>
workerVars == <<wpc, hand, stop, taken>>
callVars == <<running, cpc, inStop, scanned, starts>>
vars == <<pipeVars, workerVars, callVars, spc>>

Outcomes == {"new", "inflight", "exported", "failed", "drained", "abandoned"}

Init ==
    /\ running = FALSE
    /\ queue = [s \in Stages |-> <<>>]
    /\ wpc = [w \in Workers |-> "none"]
    /\ hand = [w \in Workers |-> NoFrame]
    /\ stop = {}
    /\ image = NoFrame /\ anomaly = NoFrame
    /\ frameCounter = 0
    /\ taken = [w \in Workers |-> [image |-> NoFrame, anomaly |-> NoFrame]]
    /\ cpc = "idle" /\ inStop = FALSE /\ scanned = {}
    /\ spc = "idle"
    /\ starts = 0
    /\ outcome = [f \in Frames |-> "new"]
    /\ exports = <<>>

Submitted == {f \in Frames : outcome[f] # "new"}

Settle(f, how) == outcome' = [outcome EXCEPT ![f] = how]

GoTo(w, label) == wpc' = [wpc EXCEPT ![w] = label]

-----------------------------------------------------------------------------
(* Start                                                                   *)

\* running_.exchange(true), the OnStart hooks, then one jthread per worker.
\* A hook that fails returns at once and leaves running_ set.
Start ==
    /\ "Start" \in Calls /\ cpc = "idle"
    /\ starts < MaxStarts
    /\ ~running
    /\ starts' = starts + 1
    /\ running' = TRUE
    /\ \/ /\ wpc' = [w \in Workers |-> "pop"]
          /\ stop' = {}
       \/ /\ OnStartMayFail
          /\ UNCHANGED <<wpc, stop>>
    /\ UNCHANGED <<pipeVars, hand, taken, cpc, inStop, scanned, spc>>

-----------------------------------------------------------------------------
(* Submit, from a thread of its own                                        *)

\* The running_ test; the frame then exists in the call until it is pushed.
SubmitCall ==
    /\ spc = "idle" /\ running
    /\ Submitted # Frames
    /\ spc' = "push"
    /\ Settle(Cardinality(Submitted) + 1, "inflight")
    /\ UNCHANGED <<queue, image, anomaly, frameCounter, exports, workerVars, callVars>>

\* The mutex of a queue is free: no worker is between its test and its take.
Unlocked(s) == \A v \in Workers : StageOf[v] = s => wpc[v] # "take"

\* PushBlocking on the entry queue: it waits for room and looks at no stop token.
SubmitPush ==
    /\ spc = "push" /\ Unlocked(1)
    /\ Len(queue[1]) < Capacity[1]
    /\ queue' = [queue EXCEPT ![1] = Append(@, Cardinality(Submitted))]
    /\ spc' = "idle"
    /\ UNCHANGED <<image, anomaly, frameCounter, exports, outcome, workerVars, callVars>>

-----------------------------------------------------------------------------
(* The worker loop                                                         *)

\* DequeueInput: the predicate holds.
PopReady(w) ==
    /\ wpc[w] = "pop"
    /\ Unlocked(StageOf[w])
    /\ queue[StageOf[w]] # <<>>
    /\ GoTo(w, "take")
    /\ UNCHANGED <<pipeVars, hand, stop, taken, callVars, spc>>

\* DequeueInput: stop requested and nothing to take.
PopStopped(w) ==
    /\ wpc[w] = "pop"
    /\ Unlocked(StageOf[w])
    /\ w \in stop /\ queue[StageOf[w]] = <<>>
    /\ GoTo(w, "exited")
    /\ UNCHANGED <<pipeVars, hand, stop, taken, callVars, spc>>

\* Variant of PopTake: the newest frame is taken.
PopTakeNewest(w) ==
    /\ wpc[w] = "take"
    /\ LET q == queue[StageOf[w]] IN
       \/ /\ q # <<>>
          /\ hand' = [hand EXCEPT ![w] = q[Len(q)]]
          /\ queue' = [queue EXCEPT ![StageOf[w]] = SubSeq(q, 1, Len(q) - 1)]
          /\ GoTo(w, "process")
       \/ /\ q = <<>>
          /\ GoTo(w, "exited")
          /\ UNCHANGED <<hand, queue>>
    /\ UNCHANGED <<image, anomaly, frameCounter, exports, outcome, stop, taken, callVars, spc>>

\* ring_.TryPop(): a null result ends the loop like a stop does.
PopTake(w) ==
    /\ wpc[w] = "take"
    /\ LET q == queue[StageOf[w]] IN
       \/ /\ q # <<>>
          /\ hand' = [hand EXCEPT ![w] = Head(q)]
          /\ queue' = [queue EXCEPT ![StageOf[w]] = Tail(q)]
          /\ GoTo(w, "process")
       \/ /\ q = <<>>
          /\ GoTo(w, "exited")
          /\ UNCHANGED <<hand, queue>>
    /\ UNCHANGED <<image, anomaly, frameCounter, exports, outcome, stop, taken, callVars, spc>>

IsA(w, type) == StageTypes[StageOf[w]] = type

Fails(w) == /\ Settle(hand[w], "failed")
            /\ hand' = [hand EXCEPT ![w] = NoFrame]

\* Variant of Process: a worker whose stage fails leaves its loop.
ProcessFailureEndsLoop(w) ==
    /\ wpc[w] = "process" /\ ~IsA(w, "Export")
    /\ \/ /\ GoTo(w, "publish")
          /\ UNCHANGED <<hand, outcome>>
       \/ /\ StageOf[w] \in CanFail
          /\ Fails(w)
          /\ GoTo(w, "exited")
    /\ UNCHANGED <<queue, image, anomaly, frameCounter, exports, stop, taken, callVars, spc>>

\* node_ptr->Process: a failure is counted and the loop goes on.
Process(w) ==
    /\ wpc[w] = "process" /\ ~IsA(w, "Export")
    /\ \/ /\ GoTo(w, "publish")
          /\ UNCHANGED <<hand, outcome>>
       \/ /\ StageOf[w] \in CanFail
          /\ Fails(w)
          /\ GoTo(w, "pop")
    /\ UNCHANGED <<queue, image, anomaly, frameCounter, exports, stop, taken, callVars, spc>>

\* Process of Export takes the image snapshot and writes the result, ...
ProcessExport(w) ==
    /\ wpc[w] = "process" /\ IsA(w, "Export")
    /\ taken' = [taken EXCEPT ![w] = [image |-> image, anomaly |-> NoFrame]]
    /\ image' = NoFrame
    /\ \/ /\ GoTo(w, "heatmap")
          /\ UNCHANGED <<hand, outcome>>
       \/ /\ StageOf[w] \in CanFail
          /\ Fails(w)
          /\ GoTo(w, "pop")
    /\ UNCHANGED <<queue, anomaly, frameCounter, exports, stop, callVars, spc>>

\* ... then takes the scores and writes the heatmap.
ProcessHeatmap(w) ==
    /\ wpc[w] = "heatmap"
    /\ taken' = [taken EXCEPT ![w].anomaly = anomaly]
    /\ anomaly' = NoFrame
    /\ GoTo(w, "publish")
    /\ UNCHANGED <<queue, image, frameCounter, exports, outcome, hand, stop, callVars, spc>>

\* Variant of PublishImage: a snapshot that Export has not taken yet is kept.
PublishImageKeepsPending(w) == image' = IF IsA(w, "Preprocess") /\ image = NoFrame
                                        THEN hand[w] ELSE image

\* SetFrameImage after Preprocess: the one snapshot is replaced.
PublishImage(w) == image' = IF IsA(w, "Preprocess") THEN hand[w] ELSE image

\* SetAnomalyScores after Detect, unless the result has no scores (a bootstrap
\* frame, or one whose detector failed).
PublishScores(w) == \/ anomaly' = IF IsA(w, "Detect") THEN hand[w] ELSE anomaly
                    \/ Unscored /\ UNCHANGED anomaly

\* Variant of PublishResult: the frame id is read and not advanced.
PublishResultSameId(w) ==
    IF IsA(w, "Export")
    THEN /\ exports' = Append(exports, [frame |-> hand[w], image |-> taken[w].image,
                                        anomaly |-> taken[w].anomaly, id |-> frameCounter])
         /\ UNCHANGED frameCounter
    ELSE UNCHANGED <<frameCounter, exports>>

\* frame_counter_.fetch_add and result_callback_ after Export.
PublishResult(w) ==
    IF IsA(w, "Export")
    THEN /\ frameCounter' = frameCounter + 1
         /\ exports' = Append(exports, [frame |-> hand[w], image |-> taken[w].image,
                                        anomaly |-> taken[w].anomaly, id |-> frameCounter])
    ELSE UNCHANGED <<frameCounter, exports>>

\* What the worker does with a successful result before it enqueues it.
Publish(w) ==
    /\ wpc[w] = "publish"
    /\ PublishImage(w) /\ PublishScores(w) /\ PublishResult(w)
    /\ GoTo(w, "push")
    /\ UNCHANGED <<queue, outcome, hand, stop, taken, callVars, spc>>

\* Variant of PushNext: the frame is also kept by the worker's next iteration.
PushNextTwice(w) ==
    /\ wpc[w] = "push" /\ StageOf[w] < Last
    /\ LET s == StageOf[w] + 1 IN
       /\ Unlocked(s) /\ Len(queue[s]) < Capacity[s]
       /\ queue' = [queue EXCEPT ![s] = Append(@, hand[w])]
       /\ GoTo(w, "process")
    /\ UNCHANGED <<image, anomaly, frameCounter, exports, outcome, hand, stop, taken, callVars, spc>>

\* EnqueueOutputs: the downstream queue has room.
PushNext(w) ==
    /\ wpc[w] = "push" /\ StageOf[w] < Last
    /\ LET s == StageOf[w] + 1 IN
       /\ Unlocked(s) /\ Len(queue[s]) < Capacity[s]
       /\ queue' = [queue EXCEPT ![s] = Append(@, hand[w])]
    /\ hand' = [hand EXCEPT ![w] = NoFrame]
    /\ GoTo(w, "pop")
    /\ UNCHANGED <<image, anomaly, frameCounter, exports, outcome, stop, taken, callVars, spc>>

\* Variant of PushStopped: the overload of EnqueueOutputs without a stop token.
PushStoppedNever(w) == FALSE /\ UNCHANGED vars

\* EnqueueOutputs: the downstream queue is full and stop is requested.  The
\* output is dropped and the worker leaves its loop.
PushStopped(w) ==
    /\ wpc[w] = "push" /\ StageOf[w] < Last
    /\ LET s == StageOf[w] + 1 IN Unlocked(s) /\ Len(queue[s]) = Capacity[s]
    /\ w \in stop
    /\ Settle(hand[w], "abandoned")
    /\ hand' = [hand EXCEPT ![w] = NoFrame]
    /\ GoTo(w, "exited")
    /\ UNCHANGED <<queue, image, anomaly, frameCounter, exports, stop, taken, callVars, spc>>

\* EnqueueOutputs of the terminal stage: the item is consumed.
PushTerminal(w) ==
    /\ wpc[w] = "push" /\ StageOf[w] = Last
    /\ Settle(hand[w], "exported")
    /\ hand' = [hand EXCEPT ![w] = NoFrame]
    /\ GoTo(w, "pop")
    /\ UNCHANGED <<queue, image, anomaly, frameCounter, exports, stop, taken, callVars, spc>>

Work(w) == \/ PopReady(w) \/ PopStopped(w) \/ PopTake(w)
           \/ Process(w) \/ ProcessExport(w) \/ ProcessHeatmap(w) \/ Publish(w)
           \/ PushNext(w) \/ PushStopped(w) \/ PushTerminal(w)

-----------------------------------------------------------------------------
(* Drain                                                                   *)

DrainCall ==
    /\ "Drain" \in Calls /\ cpc = "idle"
    /\ cpc' = "poll"
    /\ inStop' = FALSE
    /\ scanned' = {}
    /\ UNCHANGED <<pipeVars, workerVars, running, starts, spc>>

\* One queue of the pass over input_queues_ (an unordered map): the pass breaks
\* off at a queue that is not empty and starts again after the sleep.
DrainPoll(s) ==
    /\ cpc = "poll" /\ s \in Stages \ scanned
    /\ scanned' = IF queue[s] = <<>> THEN scanned \cup {s} ELSE {}
    /\ UNCHANGED <<pipeVars, workerVars, running, cpc, inStop, starts, spc>>

\* Variant of DrainPollEnd: no deadline.
DrainPollEndNoDeadline ==
    /\ cpc = "poll" /\ scanned = Stages
    /\ cpc' = "force"
    /\ scanned' = {}
    /\ UNCHANGED <<pipeVars, workerVars, running, inStop, starts, spc>>

\* The pass found every queue empty, or the deadline has passed.
DrainPollEnd ==
    /\ cpc = "poll"
    /\ \/ scanned = Stages
       \/ DrainMayTimeOut \/ inStop
    /\ cpc' = "force"
    /\ scanned' = {}
    /\ UNCHANGED <<pipeVars, workerVars, running, inStop, starts, spc>>

\* while (q->Depth() > 0) q->TryPop(), queue after queue.
DrainForce(s) ==
    /\ cpc = "force" /\ s \in Stages \ scanned
    /\ \/ /\ queue[s] # <<>>
          /\ queue' = [queue EXCEPT ![s] = Tail(@)]
          /\ Settle(Head(queue[s]), "drained")
          /\ UNCHANGED scanned
       \/ /\ queue[s] = <<>>
          /\ scanned' = scanned \cup {s}
          /\ UNCHANGED <<queue, outcome>>
    /\ UNCHANGED <<image, anomaly, frameCounter, exports, workerVars, running, cpc, inStop, starts, spc>>

DrainReturn ==
    /\ cpc = "force" /\ scanned = Stages
    /\ cpc' = "idle"
    /\ inStop' = FALSE
    /\ scanned' = {}
    /\ UNCHANGED <<pipeVars, workerVars, running, starts, spc>>

-----------------------------------------------------------------------------
(* Stop                                                                    *)

StopCall ==
    /\ "Stop" \in Calls /\ cpc = "idle"
    /\ running' = FALSE
    /\ cpc' = "request"
    /\ UNCHANGED <<pipeVars, workerVars, inStop, scanned, starts, spc>>

\* t.request_stop(), one worker after the other.
StopRequest(w) ==
    /\ cpc = "request" /\ wpc[w] # "none" /\ w \notin stop
    /\ stop' = stop \cup {w}
    /\ UNCHANGED <<pipeVars, wpc, hand, taken, callVars, spc>>

\* Variant of StopJoin: the workers are not joined.
StopNoJoin ==
    /\ cpc = "request"
    /\ \A w \in Workers : wpc[w] # "none" => w \in stop
    /\ cpc' = "poll" /\ inStop' = TRUE /\ scanned' = {}
    /\ UNCHANGED <<pipeVars, workerVars, running, starts, spc>>

\* Every worker has been asked and has been joined; Stop goes on to Drain and
\* the OnStop hooks.
StopJoin ==
    /\ cpc = "request"
    /\ \A w \in Workers : wpc[w] \in {"none", "exited"} /\ (wpc[w] = "exited" => w \in stop)
    /\ wpc' = [w \in Workers |-> "none"]
    /\ cpc' = "poll" /\ inStop' = TRUE /\ scanned' = {}
    /\ UNCHANGED <<pipeVars, hand, stop, taken, running, starts, spc>>

-----------------------------------------------------------------------------
DrainStep == \/ DrainPollEnd \/ DrainReturn
             \/ \E s \in Stages : DrainPoll(s) \/ DrainForce(s)
StopStep == StopJoin \/ \E w \in Workers : StopRequest(w)

Next == \/ Start \/ SubmitCall \/ SubmitPush
        \/ DrainCall \/ StopCall \/ DrainStep \/ StopStep
        \/ \E w \in Workers : Work(w)

\* Worker threads, a Submit that can push and a call of Drain or Stop that can
\* go on are not held up for ever; nobody is obliged to make a call.  The
\* deadline of a Drain passes eventually (DrainPollEnd).
Fairness == /\ \A w \in Workers : WF_vars(Work(w))
            /\ WF_vars(SubmitPush)
            /\ WF_vars(StopJoin) /\ WF_vars(\E w \in Workers : StopRequest(w))
            /\ WF_vars(DrainPollEnd) /\ WF_vars(DrainReturn)
            /\ WF_vars(\E s \in Stages : DrainForce(s))

Spec == Init /\ [][Next]_vars /\ Fairness

-----------------------------------------------------------------------------
(* Properties                                                              *)

TypeOK ==
    /\ running \in BOOLEAN /\ inStop \in BOOLEAN
    /\ queue \in [Stages -> Seq(Frames)]
    /\ \A s \in Stages : Len(queue[s]) <= Capacity[s]
    /\ wpc \in [Workers -> {"none", "pop", "take", "process", "heatmap", "publish", "push", "exited"}]
    /\ hand \in [Workers -> Frames \cup {NoFrame}]
    /\ stop \subseteq Workers
    /\ {image, anomaly} \subseteq Frames \cup {NoFrame}
    /\ frameCounter \in Nat /\ starts \in 0 .. MaxStarts
    /\ taken \in [Workers -> [image : Frames \cup {NoFrame}, anomaly : Frames \cup {NoFrame}]]
    /\ cpc \in {"idle", "poll", "force", "request"}
    /\ scanned \subseteq Stages
    /\ spc \in {"idle", "push"}
    /\ outcome \in [Frames -> Outcomes]
    /\ exports \in Seq([frame : Frames, image : Frames \cup {NoFrame},
                        anomaly : Frames \cup {NoFrame}, id : Nat])

\* Number of owners of a frame: slots of queues, workers, a Submit in progress.
Slots == UNION {{s} \X DOMAIN queue[s] : s \in Stages}
Owners(f) ==
    Cardinality({p \in Slots : queue[p[1]][p[2]] = f})
    + Cardinality({w \in Workers : hand[w] = f})
    + (IF spc = "push" /\ f = Cardinality(Submitted) THEN 1 ELSE 0)

\* A frame that was accepted and not yet exported, failed or discarded has
\* exactly one owner, and any other frame has none: through pops that race with
\* a drain, failing stages, stops and restarts, no frame is lost without an
\* account and none is processed twice.
OneOwner == \A f \in Frames : Owners(f) = IF outcome[f] = "inflight" THEN 1 ELSE 0

\* The state of the pipeline is well formed, no queue holds more than its
\* capacity, and every frame in flight has its one owner.
PipelineInv == TypeOK /\ OneOwner

\* With one worker per stage (the milestone 6 design, line 662, lets a stage process
\* its frames in the order of its queue, without concurrency) the result callback
\* sees the frames in the order in which they were submitted, and frame ids count
\* them without a gap, across failures, drains and restarts.  The pools that scheduler.cpp allocates without
\* pool_config have two threads for Capture, Preprocess, RuleEval and Reason, which
\* overtake each other.
ExportInOrder ==
    /\ \A i, j \in DOMAIN exports : i < j => exports[i].frame < exports[j].frame
    /\ \A i \in DOMAIN exports : exports[i].id = i - 1

\* With one worker per stage the side channel never gives Export the image of an
\* older frame: what it takes belongs to its own frame or to a later one that has
\* overtaken it, or is missing.
ImageNotOlder ==
    \A i \in DOMAIN exports : exports[i].image = NoFrame \/ exports[i].image >= exports[i].frame

\* When Stop has returned, no frame is left in the pipeline but the one whose
\* Submit overlapped it.
StopLeavesOnlyTheLastSubmit ==
    ~running /\ cpc = "idle" =>
        \A f \in Frames : outcome[f] = "inflight" => f = Cardinality(Submitted)

\* Stop returns: no worker waits for ever on a full or an empty queue once it
\* has been asked to stop, whatever the other workers do.
StopTerminates == (cpc = "request") ~> (cpc = "idle")

\* As long as nobody calls Drain or Stop, every frame accepted after a Start that
\* launched the workers is exported or fails.
EveryFrameSettles ==
    [](cpc = "idle") =>
        \A f \in Frames : (outcome[f] = "inflight" /\ \E w \in Workers : wpc[w] # "none")
                              ~> outcome[f] \in {"exported", "failed"}

-----------------------------------------------------------------------------
(* What the documentation says and the code does not do: see the README.     *)

\* Documented (milestone 7 design, line 1066 and 1311): Drain waits for the
\* frames in flight to complete, and a restart loses none.
DrainKeepsFrames == \A f \in Frames : outcome[f] # "drained"

\* Documented (pipeline.cpp:188-190): a worker goes on until stop is requested
\* and its input queue is drained.
ExitedMeansDrained == \A w \in Workers : wpc[w] = "exited" => queue[StageOf[w]] = <<>>

\* Documented (pipeline.h, the "per-frame image side channel"): Export takes the
\* image of the frame it exports.
ExportHasOwnImage == \A i \in DOMAIN exports : exports[i].image = exports[i].frame

\* Documented (pipeline.h:163-165, the "per-frame anomaly heatmap side channel"):
\* a heatmap is never written from the scores of an earlier frame.
ScoresNotOlder ==
    \A i \in DOMAIN exports : exports[i].anomaly = NoFrame \/ exports[i].anomaly >= exports[i].frame

\* Documented (pipeline.cpp:344-348): a Submit is accepted only while the
\* pipeline runs, that is, once Start() has launched its workers.
AcceptedMeansServed == spc = "push" => \E w \in Workers : wpc[w] # "none"
=============================================================================
