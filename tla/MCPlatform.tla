------------------------------ MODULE MCPlatform -----------------------------
(***************************************************************************)
(* The library's infrastructure for TLC: the slab pools, a stage queue's   *)
(* ring under its mutex, the GPU stream queue, the worker pools and task   *)
(* graphs, the plugins and modules, the configuration store, the log sink, *)
(* the cameras and the OPC UA client.  These components share no state, so *)
(* a behaviour is one of the component in focus, the others at rest: the   *)
(* behaviours checked are each component's own, all in one run.            *)
(***************************************************************************)
EXTENDS MemoryPool, SequencesExt

CONSTANTS s1, s2
TwoSlabs == {s1, s2}
TwoSlabList == <<s1, s2>>

VARIABLES
  focus,
  qhead, qtail, qbuffer, qdropped, qmutex, qpc, qidx, qold, dpc, dtail, pushed, removed, rcvd, dpushed, dzero,
  copy, launcher, status, outcome, report, driver, slot, gring, advanced, rejected, gpu, gstop, started, slabs,
  run, queue, worker, pools, mapped, stop, closing,
  phase, handles, loadStack, order, loads, loadFailed, stopped, context, modules,
  file, writing, written, root, loader, watch, parsed, events, stopping,
  files, exists, size, day, today, logged, kept,
  cam, ring, shot, plc, opc

(***************************************************************************)
(* The components                                                          *)
(***************************************************************************)
\* A ring whose two sides are held under StageQueue::mutex_, frames dropped when full.
Ring == INSTANCE StageRing WITH
  Capacity <- 2, Policy <- "DropOldest", Producers <- {"p1", "p2"}, Consumers <- {"c1", "c2"},
  Locked <- {"p1", "p2", "c1", "c2"}, NoThread <- "none", SpuriousCas <- FALSE, MaxPush <- 4,
  head <- qhead, tail <- qtail, buffer <- qbuffer, dropped <- qdropped, mutex <- qmutex, pc <- qpc,
  idx <- qidx, old <- qold

\* Two coroutines over two slabs, so that a completion finds the ring at its turn.
Gpu == INSTANCE GpuStreams WITH Callers <- {"c1", "c2"}, Copies <- 3, Slabs <- 2, CopyFails <- FALSE,
                                ring <- gring, stop <- gstop

\* A graph over two pools in two iteration orders, and one that names a missing node.
Diamond == [deps |-> [n \in {"a", "b", "c"} |-> CASE n = "a" -> <<>> [] n = "b" -> <<"a">> [] n = "c" -> <<"a", "b">>],
            key |-> [n \in {"a", "b", "c"} |-> IF n = "b" THEN "IO" ELSE "Cap"]]
Dangling == [deps |-> [n \in {"a", "b"} |-> IF n = "a" THEN <<>> ELSE <<"a", "x">>], key |-> [n \in {"a", "b"} |-> "Cap"]]
PoolThreads == {<<"Cap", 1>>, <<"IO", 1>>}
Task == INSTANCE TaskRuntime WITH
  Drivers <- {"d1", "d2"}, Keys <- {"Cap", "IO"}, KeyOrder <- <<"Cap", "IO">>, Threads <- PoolThreads, Capacity <- 1,
  Jobs <- {<<Diamond, <<"c", "b", "a">>>>, <<Diamond, <<"a", "b", "c">>>>, <<Dangling, <<"a", "b">>>>}

\* Chains, a diamond, a cycle through x and y, and v, whose dependency has the next major version.
Needing(names) == [i \in DOMAIN names |-> [name |-> names[i], min |-> <<1, 2, 3>>, max |-> <<2, 0, 0>>]]
PluginManifest(version, names) == [version |-> version, needs |-> Needing(names)]
PluginManifests == [a |-> PluginManifest(<<1, 2, 1>>, <<>>), b |-> PluginManifest(<<1, 9, 0>>, <<"a">>),
                    c |-> PluginManifest(<<2, 0, 0>>, <<"a", "b">>), x |-> PluginManifest(<<1, 3, 0>>, <<"a", "y">>),
                    y |-> PluginManifest(<<1, 3, 0>>, <<"b", "x">>), v |-> PluginManifest(<<1, 1, 9>>, <<"c">>)]
Life == INSTANCE Lifecycle WITH Plugins <- DOMAIN PluginManifests, Modules <- {"m1", "m2"}, Manifests <- PluginManifests,
                                MaxLoads <- 2, stack <- loadStack
Conf == INSTANCE ConfigStore WITH Versions <- 4, Valid <- {1, 2, 4}
Log == INSTANCE LogSink WITH MaxSize <- 3, MaxFiles <- 2, Messages <- 8, Days <- 3, written <- logged
Dev == INSTANCE Devices WITH Kinds <- {"fake", "genicam"}, Capacity <- 2, MaxFrames <- 4, MaxStreams <- 2,
                             Variables <- {"a", "b"}, PlcValues <- {"null", "x", "y"}

poolVars == vars
queueVars == <<qhead, qtail, qbuffer, qdropped, qmutex, qpc, qidx, qold, dpc, dtail, pushed, removed, rcvd, dpushed, dzero>>
gpuVars == <<copy, launcher, status, outcome, report, driver, slot, gring, advanced, rejected, gpu, gstop, started, slabs>>
taskVars == <<run, queue, worker, pools, mapped, stop, closing>>
lifeVars == <<phase, handles, loadStack, order, loads, loadFailed, stopped, context, modules>>
confVars == <<file, writing, written, root, loader, watch, parsed, events, stopping>>
logVars == <<files, exists, size, day, today, logged, kept>>
devVars == <<cam, ring, shot, plc, opc>>

PlatformInit ==
  /\ focus \in {"pool", "queue", "gpu", "task", "life", "conf", "log", "cam", "opc"}
  /\ Init /\ Ring!Init /\ Gpu!GpuInit /\ Task!TaskInit /\ Life!LifeInit /\ Conf!ConfInit /\ Log!LogInit /\ Dev!DevInit
  /\ focus # "cam" => cam.kind = "fake"

PlatformNext ==
  /\ UNCHANGED focus
  /\ \/ /\ focus = "pool" /\ Next
        /\ UNCHANGED <<queueVars, gpuVars, taskVars, lifeVars, confVars, logVars, devVars>>
     \/ /\ focus = "queue" /\ Ring!Next
        /\ UNCHANGED <<poolVars, gpuVars, taskVars, lifeVars, confVars, logVars, devVars>>
     \/ /\ focus = "gpu" /\ Gpu!GpuNext
        /\ UNCHANGED <<poolVars, queueVars, taskVars, lifeVars, confVars, logVars, devVars>>
     \/ /\ focus = "task" /\ Task!TaskNext
        /\ UNCHANGED <<poolVars, queueVars, gpuVars, lifeVars, confVars, logVars, devVars>>
     \/ /\ focus = "life" /\ Life!LifeNext
        /\ UNCHANGED <<poolVars, queueVars, gpuVars, taskVars, confVars, logVars, devVars>>
     \/ /\ focus = "conf" /\ Conf!ConfNext
        /\ UNCHANGED <<poolVars, queueVars, gpuVars, taskVars, lifeVars, logVars, devVars>>
     \/ /\ focus = "log" /\ Log!LogNext
        /\ UNCHANGED <<poolVars, queueVars, gpuVars, taskVars, lifeVars, confVars, devVars>>
     \/ /\ \/ focus = "cam" /\ Dev!CameraNext
           \/ focus = "opc" /\ Dev!OpcNext
        /\ UNCHANGED <<poolVars, queueVars, gpuVars, taskVars, lifeVars, confVars, logVars>>

\* Threads run on: the GPU queue's callers, the driver's callback thread and the queue's
\* own thread, the drivers and workers of task graphs, and the configuration's watch.
PlatformSpec ==
  /\ PlatformInit /\ [][PlatformNext]_<<focus, poolVars, queueVars, gpuVars, taskVars, lifeVars, confVars, logVars, devVars>>
  /\ \A c \in {"c1", "c2"} : /\ WF_gpuVars(focus = "gpu" /\ Gpu!CallerStep(c))
                             /\ WF_gpuVars(focus = "gpu" /\ Gpu!DriverStep(c))
  /\ WF_gpuVars(focus = "gpu" /\ Gpu!ThreadStep)
  /\ \A d \in {"d1", "d2"} : WF_taskVars(focus = "task" /\ Task!Drive(d))
  /\ \A w \in PoolThreads : WF_taskVars(focus = "task" /\ Task!Work(w))
  /\ WF_confVars(focus = "conf" /\ Conf!WatchStep)

(***************************************************************************)
(* Properties, each the component's own                                    *)
(***************************************************************************)
\* PoolInv and SlabsAccounted are MemoryPool's.
\* Under the mutex a ring that drops its oldest frame is a bounded FIFO queue.
RefinesFifo == Ring!RefinesFifo
\* A ring under its mutex has room when it writes, and dropped_count_ accounts for the frames it
\* loses; a copy that was issued has one completion on its way; a node of a task graph runs once,
\* after all that it depends on.
RuntimeInv == /\ focus = "queue" => Ring!LockedInv
              /\ focus = "gpu" => Gpu!GpuInv
              /\ focus = "task" => Task!TaskInv
\* A copy's coroutine goes on, a run of a task graph ends.
CopyResumed == Gpu!CopyResumed
RunEnds == Task!RunEnds
\* Plugins and modules start after what they need and stop before it; the configuration in use
\* has been validated; the log's files hold the messages in order; frames leave the camera's
\* ring in order, and a read gives each variable its own value.
PlatformInv == /\ focus = "life" => Life!LifeInv
               /\ focus = "conf" => Conf!ConfInv
               /\ focus = "log" => Log!LogInv
               /\ focus = "cam" => Dev!FramesInOrder
               /\ focus = "opc" => Dev!ReadsOwnValue
\* What is on disk comes into use, once the watch has seen it.
ConfigCurrent == Conf!ConfigCurrent
=============================================================================
