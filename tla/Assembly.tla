------------------------------- MODULE Assembly ------------------------------
(***************************************************************************)
(* From a pipeline's configuration to a frame's way through its stages:    *)
(* PipelineBuilder (parse, validate), StageFactory, the pools' threads, the *)
(* wiring of Pipeline::LoadFromYAML, Start, Submit and what every stage's  *)
(* Process takes and gives.  One frame at a time: what the frames in the   *)
(* queues do to each other is module Pipeline's subject.                   *)
(* Bound: MaxFrames frames.                                                *)
(***************************************************************************)
EXTENDS Integers, Sequences, FiniteSets, SequencesExt, FiniteSetsExt

CONSTANTS
  Configs,   \* [named, version, stages: Seq([id, type, deps, capacity, policy]), threads: pool key -> number]
  Cameras,   \* whether Capture stages have a camera
  MaxFrames

VARIABLES
  config,   \* the configuration file
  line,     \* the pipeline: phase, the stages that have nodes, the entry, running_, the stages with workers
  walk,     \* the frame: the stage whose queue holds it, its data, the stages it went through, its end
  walks     \* how many were submitted

assemblyVars == <<config, line, walk, walks>>

StageType == {"Capture", "Preprocess", "Inference", "Detect", "RuleEval", "Reason", "Export", "Custom"}
BackpressurePolicy == {"block", "drop_oldest", "degrade"}
Ids(c) == {s.id : s \in Range(c.stages)}
Stage(c, id) == CHOOSE s \in Range(c.stages) : s.id = id

NoLine == [phase |-> "none", nodes |-> {}, entry |-> "none", running |-> FALSE, workers |-> {}]
NoWalk == [at |-> "none", data |-> "none", trace |-> <<>>, end |-> "none"]
AssemblyInit == config \in Configs /\ line = NoLine /\ walk = NoWalk /\ walks = 0

(***************************************************************************)
(* PipelineBuilder                                                         *)
(***************************************************************************)
\* An unknown name in the file is an exception, which ParseFromYAML returns as an error.
ParseFromYAML(c) == \A s \in Range(c.stages) : s.type \in StageType /\ s.policy \in BackpressurePolicy

Dependants(c, id) == UNION {{<<s.id, j>> : j \in {k \in DOMAIN s.deps : s.deps[k] = id}} : s \in Range(c.stages)}
Entries(c) == {i \in DOMAIN c.stages : c.stages[i].deps = <<>>}
Exits(c)   == {i \in DOMAIN c.stages : Dependants(c, c.stages[i].id) = {}}

\* Kahn's algorithm: what is left when the stages without a remaining dependency are taken, round by round.
IsAcyclic(c) ==
  LET left[n \in 0 .. Len(c.stages)] ==
        IF n = 0 THEN Range(c.stages)
        ELSE LET before == left[n - 1] IN {s \in before : \E t \in before : t.id \in Range(s.deps)}
  IN  left[Len(c.stages)] = {}

OutputTypeIndex(t) ==
  [Capture |-> 0, Preprocess |-> 1, Inference |-> 2, Detect |-> 3, RuleEval |-> 4, Reason |-> 6,
   Export |-> 6, Custom |-> 0][t]
InputTypeIndex(t) ==
  [Capture |-> 0, Preprocess |-> 0, Inference |-> 1, Detect |-> 2, RuleEval |-> 3, Reason |-> 4,
   Export |-> 6, Custom |-> 0][t]
CheckTypeCompatibility(up, down) == OutputTypeIndex(up.type) = InputTypeIndex(down.type)

\* Variant of Validate: without the last two tests, that of fan-out and that of the types.
ValidateShape(c) ==
  /\ c.stages # <<>> /\ \A s \in Range(c.stages) : Range(s.deps) \subseteq Ids(c)
  /\ Cardinality(Ids(c)) = Len(c.stages) /\ IsAcyclic(c)
  /\ \E i \in Entries(c) : c.stages[i].type = "Capture"
  /\ \E i \in Exits(c) : c.stages[i].type = "Export"
Validate(c) ==
  /\ c.named /\ c.version /\ c.stages # <<>>
  /\ \A s \in Range(c.stages) : s.id # ""
  /\ Cardinality(Ids(c)) = Len(c.stages)
  /\ \A s \in Range(c.stages) : Range(s.deps) \subseteq Ids(c)
  /\ IsAcyclic(c)
  /\ \E i \in Entries(c) : c.stages[i].type = "Capture"
  /\ \E i \in Exits(c) : c.stages[i].type = "Export"
  /\ \A id \in Ids(c) : Cardinality(Dependants(c, id)) <= 1
  /\ \A s \in Range(c.stages) : \A id \in Range(s.deps) : CheckTypeCompatibility(Stage(c, id), s)

(***************************************************************************)
(* The pipeline                                                            *)
(***************************************************************************)
CreateStage(s) == s.type # "Custom"
StageTypeToPoolKey(t) ==
  CASE t \in {"Capture", "Preprocess"} -> "Capture" [] t \in {"Inference", "Detect"} -> "Inference"
    [] t \in {"RuleEval", "Reason"} -> "Reason" [] t = "Export" -> "IO" [] OTHER -> "Background"
BuildQueueWiring(c) == \A s \in Range(c.stages) : s.capacity > 0
Downstreams(c, id) == {i \in DOMAIN c.stages : id \in Range(c.stages[i].deps)}

LoadFromYAML ==
  /\ line.phase = "none"
  /\ LET ok == /\ ParseFromYAML(config) /\ Validate(config)
               /\ \A s \in Range(config.stages) : CreateStage(s)
               /\ BuildQueueWiring(config)
     IN  line' = IF ok THEN [line EXCEPT !.phase = "loaded", !.nodes = Ids(config),
                                         !.entry = config.stages[Min(Entries(config))].id]
                 ELSE [line EXCEPT !.phase = "rejected"]
  /\ UNCHANGED <<config, walk, walks>>

\* CaptureStage::OnStart: connect, trigger mode, callback and acquisition may each fail.
OnStartFails == Cameras /\ \E s \in Range(config.stages) : s.type = "Capture"
\* running_ is set before the OnStart hooks, the first of which to fail ends Start.
Start ==
  /\ line.phase = "loaded" /\ ~line.running
  /\ \/ line' = [line EXCEPT !.running = TRUE,
                   !.workers = {id \in line.nodes :
                                  config.threads[StageTypeToPoolKey(Stage(config, id).type)] > 0}]
     \/ OnStartFails /\ line' = [line EXCEPT !.running = TRUE]
  /\ UNCHANGED <<config, walk, walks>>

Submit ==
  /\ line.running /\ walks < MaxFrames /\ walk.at = "none"
  /\ walk' = [at |-> line.entry, data |-> "RawImage", trace |-> <<>>, end |-> "none"]
  /\ walks' = walks + 1 /\ UNCHANGED <<config, line>>

(***************************************************************************)
(* The stages' Process                                                     *)
(***************************************************************************)
Takes(t) ==
  [Capture |-> "RawImage", Preprocess |-> "RawImage", Inference |-> "SurfaceImage",
   Detect |-> "Embedding", RuleEval |-> "DetectionResult", Reason |-> "RuleEvalOutput",
   Export |-> "ReasoningResult"][t]
Gives(t) ==
  [Capture |-> "RawImage", Preprocess |-> "SurfaceImage", Inference |-> "Embedding",
   Detect |-> "DetectionResult", RuleEval |-> "RuleEvalOutput", Reason |-> "ReasoningResult",
   Export |-> "ReasoningResult"][t]
\* Stages whose Process may also fail on data of its type; Inference gives an empty embedding instead.
CanFail == {"Preprocess", "Detect", "RuleEval", "Reason", "Export"}
\* A stage with several downstreams gives its output to the first.
EnqueueOutputs(id) ==
  LET down == Downstreams(config, id) IN IF down = {} THEN "none" ELSE config.stages[Min(down)].id
Work(id) ==
  LET t == Stage(config, id).type
      went == Append(walk.trace, id)
  IN  /\ walk.at = id /\ id \in line.workers
      /\ IF walk.data # Takes(t)
           THEN walk' = [at |-> "none", data |-> walk.data, trace |-> went, end |-> "mismatch"]
           ELSE LET next == EnqueueOutputs(id)
                IN  \/ walk' = [at |-> next, data |-> Gives(t), trace |-> went,
                                end |-> IF next = "none" THEN "done" ELSE "none"]
                    \/ t \in CanFail /\ walk' = [at |-> "none", data |-> "none", trace |-> went, end |-> "failed"]
      /\ UNCHANGED <<config, line, walks>>

WorkAny == walk.at # "none" /\ Work(walk.at)
AssemblyNext == LoadFromYAML \/ Start \/ Submit \/ WorkAny
AssemblySpec == AssemblyInit /\ [][AssemblyNext]_assemblyVars /\ WF_assemblyVars(WorkAny)

(***************************************************************************)
(* Properties                                                              *)
(***************************************************************************)
\* Of an accepted configuration no stage refuses the type of what the stage before it gives (only
\* the entry may refuse a submitted image), and with a single entry a frame that comes out has been
\* through every stage exactly once, from a Capture stage to an Export stage.
RoutedThroughout ==
  /\ walk.end = "mismatch" => walk.trace = <<line.entry>>
  /\ walk.end = "done" /\ Cardinality(Entries(config)) = 1 =>
       /\ IsInjective(walk.trace) /\ Range(walk.trace) = Ids(config)
       /\ Stage(config, Head(walk.trace)).type = "Capture"
       /\ Stage(config, Last(walk.trace)).type = "Export"
\* Documented (pipeline_builder.cpp:157): the entry stage is a Capture stage.  The code asks for one
\* among the entries, and submits to the first of them in the file.
EntryCaptures == line.entry # "none" => Stage(config, line.entry).type = "Capture"
\* Documented (pipeline_builder.cpp:177, "only supports linear pipelines"): a frame that is not
\* lost to an error leaves from an Export stage.  Several entries are accepted.
LeavesByExport == walk.end = "done" => Stage(config, Last(walk.trace)).type = "Export"
\* Documented (pipeline.h, Submit feeds a running pipeline): a frame waits at a stage that has a
\* worker.  A failed OnStart and a pool override of no threads both leave it without.
SubmitServed == walk.at # "none" => walk.at \in line.workers
==============================================================================
