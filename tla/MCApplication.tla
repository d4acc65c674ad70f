----------------------------- MODULE MCApplication ---------------------------
(***************************************************************************)
(* What decides about a frame, for TLC: the image chain and the inference  *)
(* stage, the detectors' regions, the coreset banks and their profiles,    *)
(* rules, reasoning, the knowledge store and its retrieval, the search for *)
(* better parameters, the assembly of the pipeline they are stages of, and *)
(* the display and the web server, which show what came of a frame.        *)
(* Each has its state for itself, so a behaviour is one of the component   *)
(* in focus, the others at rest.                                           *)
(***************************************************************************)
EXTENDS Integers, Sequences, SequencesExt, FiniteSets, Functions

CONSTANTS w1, slab1, slab2

VARIABLES
  focus,
  ruleSets, phase, snapshot, batch, ruled, resolved,
  db, committed, tx, saves, pending,
  tree, evaluated, facts, walk, result, bank, cache, found, write, flush, recorded,
  index, vec_to_node, answer,
  disk, job, builds, app, boots, last, frames,
  config, line, route, routes,
  engine, cuda, free, worker, reload, taken,
  chain, steps, image, imported, slab, stage,
  setting, nodes, since, current, cost, observations, hyper, factor, at, point, left, flat, returned,
  detector, detection,
  coreset, asked, profile, fast,
  mode, counter, camera, cached, latest, paths, accepted, detected, running, export, results, view, board, posted, reading,
  shown, tick, served, status,
  owner, listening, svr, server, thread, updates, history, counts, reply

(***************************************************************************)
(* Rules: rule sets with shared conditions, overrides both ways, a path, a *)
(* constant, and one with an unknown operator, that does not load          *)
(***************************************************************************)
Number(n) == <<"num", n>>
Truth(b) == <<"bool", b>>
Compare(f, op, n) == [field |-> [scalar |-> f], op |-> [scalar |-> op], value |-> [scalar |-> Number(n)]]
Gt(f, n) == Compare(f, "gt", n)
Both(a, b) == [and |-> [seq |-> <<a, b>>]]
Rule(n, c, over, by) == [name |-> n, condition |-> c, overrides |-> over, overriddenBy |-> by]
RuleDocs ==
  {[A |-> <<Rule("crack", Both(Gt("x", 1), Gt("n", 0)), {"major", "minor"}, {}),
            Rule("major", Both(Gt("x", 0), Gt("n", 0)), {"minor"}, {"crack"}),
            Rule("minor", [or |-> [seq |-> <<Gt("m", 0), Gt("x", 0)>>]], {}, {"crack", "major"})>>,
    B |-> <<Rule("batch", Both(Gt("x", 1), Gt("n", 1)), {}, {}), Rule("always", [null |-> TRUE], {}, {"minor"})>>],
   [A |-> <<Rule("a", [not |-> Gt("x", 1)], {"b"}, {}), Rule("b", Gt("n", 0), {"a"}, {}),
            Rule("c", Both(Gt("n", 0), Gt("n", 1)), {}, {})>>,
    B |-> <<Rule("d", [path |-> [scalar |-> "m->s"]], {"a"}, {}),
            Rule("e", [scalar |-> Truth(FALSE)], {}, {})>>],
   [A |-> <<Rule("a", Compare("x", "like", 1), {}, {})>>]}
RuleFacts == {[f \in {"x", "n"} |-> IF f = "x" THEN Number(x) ELSE Number(n)] : x, n \in 0 .. 2}
             \cup {<<>>} \cup {[f \in {"m.s"} |-> Truth(TRUE)]}
Rul == INSTANCE Rules WITH Docs <- RuleDocs, Facts <- RuleFacts, SetOrder <- <<"A", "B">>,
                           Flatten <- [t \in {"m->s"} |-> "m.s"], evaluated <- ruled

(***************************************************************************)
(* Knowledge: a graph with a cycle and two ways to a node                  *)
(***************************************************************************)
Graphs == {[nodes |-> 4, edges |-> << <<1, 2>>, <<2, 3>>, <<1, 3>>, <<3, 4>>, <<4, 1>> >>]}
Know == INSTANCE Knowledge WITH MaxNodes <- 2, MaxEdges <- 1, MaxLog <- 2, MaxSnaps <- 1, Values <- {9}, Binary <- 9,
                                Seeds <- Graphs, disk <- committed

(***************************************************************************)
(* Reasoning: the shipped tree in tenths, one that maps scores, and one    *)
(* without branches; a material with a good and a bad batch                *)
(***************************************************************************)
FrameOf(s, m, r, q) == [paths |-> <<>>, surface |-> s, max |-> m, image |-> 5, regions |-> r, query |-> q]
ReasonFrames == {FrameOf("driver", 9, 0, 2), FrameOf("default", 9, 0, 0),
  [FrameOf("default", 7, 4, 1) EXCEPT !.paths = << <<"Material", "PRODUCED_AS", "rate">>, <<"Supplier", "name">> >>]}
Material == [nodes |-> << [type |-> "Material"], [type |-> "Batch", rate |-> 8], [type |-> "Batch", rate |-> 15] >>,
             edges |-> {[from |-> 1, rel |-> "PRODUCED_AS", to |-> n] : n \in {2, 3}}]
Leaf(l, ws, fs, t) == [kind |-> "leaf", label |-> l, formulas |-> <<[weights |-> ws, features |-> fs, threshold |-> t]>>]
On(op, n, node) == [test |-> [op |-> op, n |-> n], node |-> node]
Branch(field, kids, other) == [kind |-> "branch", field |-> field, branches |-> kids, default |-> other]
Seat ==
  Branch(<<"max">>, {On(">", 8, Leaf("NG", <<5, 5>>, << <<"max">>, <<"image">> >>, 30))},
    Branch(<<"max">>,
      {On(">", 6, Branch(<<"regions">>,
                    {On(">", 3, Leaf("NG", <<3, 3, 4>>, << <<"max">>, <<"image">>, <<"regions">> >>, 35)),
                     On(">", 0, Leaf("WARN", <<5, 5>>, << <<"max">>, <<"image">> >>, 40))},
                    Leaf("UNCERTAIN", <<10>>, << <<"image">> >>, 50)))},
      Branch(<<"max">>, {On(">", 4, Leaf("WARN", <<6, 4>>, << <<"image">>, <<"max">> >>, 45))},
        Leaf("OK", <<10>>, << <<"image">> >>, 50))))
Scored == Branch(<<"regions">>, {On("<=", 3, Leaf("", <<10>>, << <<"max">> >>, 0))}, Leaf("", <<10>>, << <<"image">> >>, 0))
DecisionTrees == <<[root |-> Seat, mapping |-> [ng |-> 84, warn |-> -85]], [root |-> Scored, mapping |-> [ng |-> 84, warn |-> 40]],
                   [root |-> [kind |-> "branch", field |-> <<"max">>, branches |-> {}], mapping |-> [ng |-> 84, warn |-> -85]]>>
Dec == INSTANCE DecisionTree
Reas == INSTANCE Reasoning WITH Frames <- ReasonFrames, Batched <- {"driver"}, Graph <- Material,
                                Trees <- [i \in DOMAIN DecisionTrees |-> Dec!LoadFromYAML(DecisionTrees[i])],
                                Epsilon <- 2, BufferSize <- 2, MaxFrames <- 3, MaxSamples <- 1
Retr == INSTANCE Retrieval WITH MaxSamples <- 3, Values <- {0, 2, 5}, Types <- <<"Batch", "Batch", "Material">>,
                                Filters <- {{}, {"Batch"}, {"Supplier"}}, TopK <- 2, RangeThreshold <- 5, MaxResults <- 2,
                                Alpha <- 7, RrfK <- 60, bank <- index

(***************************************************************************)
(* Banks: datasets of two positions, one of them not decoded as colour     *)
(***************************************************************************)
Colour == [tiff |-> FALSE, bits |-> 8, channels |-> 3]
Grey == {[tiff |-> FALSE, bits |-> 8, channels |-> 1], [tiff |-> FALSE, bits |-> 16, channels |-> 1],
         [tiff |-> TRUE, bits |-> 8, channels |-> 1]}
BankDatasets == {<<[pos |-> 0, emb |-> <<0, 9, 10>>, file |-> Colour], [pos |-> q, emb |-> <<5, 1>>, file |-> f]>> :
                   q \in {0, 1}, f \in Grey}
BankBootstraps == {[on |-> FALSE, min |-> 1, target |-> 1], [on |-> TRUE, min |-> 2, target |-> 3],
                   [on |-> TRUE, min |-> 2, target |-> 1]}
Bank == INSTANCE Banks WITH Surfaces <- {"seat"}, Positions <- {0, 1}, Embeddings <- {<<>>, <<0, 9, 10>>, <<5, 1>>},
                            Datasets <- BankDatasets, Bootstraps <- BankBootstraps, MaxSamples <- 3, MaxBuilds <- 2, MaxFrames <- 2

(***************************************************************************)
(* Assembly: the shipped chain of seven stages, and what one edit makes of *)
(* it: a stage of another type, other dependencies, a stage more, ...      *)
(***************************************************************************)
Ids == <<"cap", "pre", "inf", "det", "rul", "rea", "exp">>
Types == <<"Capture", "Preprocess", "Inference", "Detect", "RuleEval", "Reason", "Export">>
StageOf(id, t, deps) == [id |-> id, type |-> t, deps |-> deps, capacity |-> 2, policy |-> "block"]
Shipped == [i \in 1 .. 7 |-> StageOf(Ids[i], Types[i], IF i = 1 THEN <<>> ELSE <<Ids[i - 1]>>)]
PipelineOf(stages) == [named |-> TRUE, version |-> TRUE, stages |-> stages,
                       threads |-> [k \in {"Capture", "Inference", "Reason", "IO", "Background"} |-> 1]]
Single == {<<>>} \cup {<<a>> : a \in Range(Ids)}
Depending == Single \cup {<<a, b>> : a, b \in Range(Ids)}
Retyped == {[Shipped EXCEPT ![i].type = t] : i \in 1 .. 7, t \in Range(Types) \cup {"Unknown"}}
Rewired == {[Shipped EXCEPT ![i].deps = d] : i \in 1 .. 7, d \in Depending}
Extended == UNION {{<<s>> \o Shipped, Append(Shipped, s)} : s \in {StageOf("x", t, d) : t \in Range(Types), d \in Depending}}
Spliced == {Append([Shipped EXCEPT ![i].deps = <<"x">>], StageOf("x", t, d)) : i \in 1 .. 7, t \in Range(Types), d \in Single}
Odd == {Reverse(Shipped), [Shipped EXCEPT ![3].capacity = 0], [Shipped EXCEPT ![3].policy = "x"], <<>>,
        [Shipped EXCEPT ![3].id = "cap"], [Shipped EXCEPT ![3].id = ""]}
PipelineConfigs == {PipelineOf(s) : s \in Retyped \cup Rewired \cup Extended \cup Spliced \cup Odd}
                   \cup {[PipelineOf(Shipped) EXCEPT !.named = FALSE], [PipelineOf(Shipped) EXCEPT !.version = FALSE]}
Asm == INSTANCE Assembly WITH Configs <- PipelineConfigs, Cameras <- TRUE, MaxFrames <- 1, walk <- route, walks <- routes

(***************************************************************************)
(* Inference with one position's worker, and the image chain               *)
(***************************************************************************)
Inf == INSTANCE Inference WITH Workers <- {w1}, Slabs <- {slab1, slab2}, MaxFrames <- 3, MaxReloads <- 1, Gaps <- TRUE
Small == [w |-> 2, h |-> 1]
Img == INSTANCE Imaging WITH
  Configs <- {<<"debayer", "white_balance", "resize">>, <<"debayer", "flat_field", "resize">>, <<"debayer">>,
              <<"white_balance", "resize">>, <<>>},
  Composed <- {<<"debayer", "FlatField", "Calibration", "HDR">>, <<"FlatField", "debayer", "resize">>},
  Formats <- {"BayerRG8", "Mono8", "RGB8", "BGR8"}, Files <- {[channels |-> c, deep |-> FALSE] : c \in {1, 3}},
  Sizes <- {Small, [w |-> 1, h |-> 1]},
  Target <- Small, Expected <- Small, Correction <- [w |-> 2, h |-> 1, bytes |-> 6], MaxFrames <- 3,
  taken <- imported, phase <- stage

(***************************************************************************)
(* Parameter search: a threshold and a parameter in steps that do not fit  *)
(* its range; nodes with a label, without a score, without a verdict, and  *)
(* without a timestamp                                                     *)
(***************************************************************************)
Truths == {[time |-> 0, verdict |-> "OK", label |-> "NG", score |-> 1], [time |-> 1, verdict |-> "NG", label |-> "OK", score |-> -1],
           [time |-> 1, verdict |-> "none", label |-> "OK", score |-> 1], [time |-> -1, verdict |-> "NG", label |-> "none", score |-> 0]}
Setting(f, n, m) == [first |-> f, initial |-> n, iterations |-> m, patience |-> 1]
Tune == INSTANCE TuningSearch WITH
  Space <- <<[min |-> 0, max |-> 2, step |-> 0], [min |-> 1, max |-> 2, step |-> 2]>>,
  Constraints <- {[l |-> 1, cl |-> 1, r |-> 2, cr |-> 1, bound |-> 3]}, NgIndex <- 1, FpCost <- 1, FnCost <- 5, Unit <- 6,
  GroundTruths <- Truths, MaxNodes <- 1, MaxTime <- 1, MaxObserved <- 3,
  Settings <- {Setting(<<>>, 2, 0), Setting(<<>>, 2, 1), Setting(<<1, 1>>, 1, 1)},
  cache <- factor, result <- returned

(***************************************************************************)
(* Post-processing: combs, whose teeth meet in any way below, and grids    *)
(* enlarged to twice their size; and the profiles of small banks           *)
(***************************************************************************)
PostFrame(h, w, s) == [h |-> h, w |-> w, scores |-> s]
Combs == {PostFrame(3, 5, <<2, 0, 2, 0, 2>> \o s) : s \in [1 .. 10 -> {0, 2}]}
PostDetector(by, ref, h, w, patch, sigma, threshold) ==
  [by |-> by, ref |-> ref, size |-> [h |-> h, w |-> w], patch |-> patch, sigma |-> sigma, threshold |-> threshold]
Post == INSTANCE PostProcess WITH
  Frames <- Combs \cup {PostFrame(2, 2, s) : s \in [1 .. 4 -> {0, 1, 3}]},
  Detectors <- {PostDetector("reference", 1, 3, 5, 1, 0, 1), PostDetector("reference", 1, 4, 4, 2, 0, 1),
                PostDetector("reference", 2, 4, 4, 2, 1, 0), PostDetector("maximum", 0, 4, 4, 2, 1, 0)},
  Kernel <- [s \in 0 .. 1 |-> IF s = 0 THEN <<1>> ELSE <<1, 5, 24, 40, 24, 5, 1>>]
Prof == INSTANCE Profiles WITH Coresets <- UNION {[1 .. n -> {0, 1, 3, 8}] : n \in 0 .. 4}, Neighbours <- {1, 2},
                               Samples <- {1, 2, 4}, TailMax <- 400, Far <- 9999

(***************************************************************************)
(* Display: two positions, one of them shown, with one slot for all frame  *)
(* numbers; a review whose frames are out of order, one without an image   *)
(* and one without a verdict; and the web server                           *)
(***************************************************************************)
Reviewed(f, v, i) == [frame |-> f, verdict |-> v, image |-> i]
Disp == INSTANCE Display WITH
  Cameras <- {"position 0", "position 1"}, Primary <- "position 0", Slots <- 1, kMax <- 1, Verdicts <- {"NG", "UNCERTAIN"},
  Reviews <- {<<Reviewed(1, "NG", TRUE), Reviewed(2, "?", TRUE), Reviewed(0, "OK", FALSE)>>}, MaxFrames <- 2, MaxTicks <- 2,
  line <- accepted
Web == INSTANCE WebServer WITH
  kMaxHistory <- 2, MaxAlerts <- 1, Verdicts <- {"OK", "NG", "?"}, Limits <- {-1, 0, 1, 50}, MaxUpdates <- 3, MaxStarts <- 2,
  running <- listening, answer <- reply

ruleVars == <<ruleSets, phase, snapshot, batch, ruled, resolved>>
kgVars == <<db, committed, tx, saves, pending>>
reasonVars == <<tree, evaluated, facts, walk, result, bank, cache, found, write, flush, recorded>>
retrVars == <<index, vec_to_node, answer>>
bankVars == <<disk, job, builds, app, boots, last, frames>>
assemblyVars == <<config, line, route, routes>>
inferVars == <<engine, cuda, free, worker, reload, taken>>
imageVars == <<chain, steps, image, imported, slab, stage>>
tuneVars == <<setting, nodes, since, current, cost, observations, hyper, factor, at, point, left, flat, returned>>
detectVars == <<detector, detection, coreset, asked, profile, fast>>
displayVars == <<mode, counter, camera, cached, latest, paths, accepted, detected, running, export, results, view, board,
                 posted, reading, shown, tick, served, status>>
webVars == <<owner, listening, svr, server, thread, updates, history, counts, reply>>

ApplicationInit ==
  /\ focus \in {"rules", "knowledge", "reason", "retrieval", "banks", "assembly", "inference", "image",
               "search", "regions", "profile", "display", "web"}
  /\ Rul!RuleInit /\ Know!KgInit /\ Reas!ReasonInit /\ Retr!RetrInit /\ Bank!BankInit
  /\ IF focus = "assembly" THEN Asm!AssemblyInit ELSE Asm!AssemblyInit /\ config = PipelineOf(Shipped)
  /\ Inf!InferInit
  /\ Img!ImageInit /\ (focus # "image" => steps = <<>>)
  /\ Tune!SearchInit /\ (focus # "search" => setting = Setting(<<>>, 2, 0))
  /\ Post!PostInit /\ (focus # "regions" => detector = PostDetector("reference", 1, 3, 5, 1, 0, 1))
  /\ Prof!ProfilesInit /\ Disp!DisplayInit /\ Web!WebInit

ApplicationNext ==
  /\ UNCHANGED focus
  /\ \/ /\ focus = "rules" /\ Rul!RuleNext
        /\ UNCHANGED <<kgVars, reasonVars, retrVars, bankVars, assemblyVars, inferVars, imageVars, tuneVars, detectVars, displayVars, webVars>>
     \/ /\ focus = "knowledge" /\ Know!KgNext
        /\ UNCHANGED <<ruleVars, reasonVars, retrVars, bankVars, assemblyVars, inferVars, imageVars, tuneVars, detectVars, displayVars, webVars>>
     \/ /\ focus = "reason" /\ Reas!ReasonNext
        /\ UNCHANGED <<ruleVars, kgVars, retrVars, bankVars, assemblyVars, inferVars, imageVars, tuneVars, detectVars, displayVars, webVars>>
     \/ /\ focus = "retrieval" /\ Retr!RetrNext
        /\ UNCHANGED <<ruleVars, kgVars, reasonVars, bankVars, assemblyVars, inferVars, imageVars, tuneVars, detectVars, displayVars, webVars>>
     \/ /\ focus = "banks" /\ Bank!BankNext
        /\ UNCHANGED <<ruleVars, kgVars, reasonVars, retrVars, assemblyVars, inferVars, imageVars, tuneVars, detectVars, displayVars, webVars>>
     \/ /\ focus = "assembly" /\ Asm!AssemblyNext
        /\ UNCHANGED <<ruleVars, kgVars, reasonVars, retrVars, bankVars, inferVars, imageVars, tuneVars, detectVars, displayVars, webVars>>
     \/ /\ focus = "inference" /\ Inf!InferNext
        /\ UNCHANGED <<ruleVars, kgVars, reasonVars, retrVars, bankVars, assemblyVars, imageVars, tuneVars, detectVars, displayVars, webVars>>
     \/ /\ focus = "image" /\ Img!ImageNext
        /\ UNCHANGED <<ruleVars, kgVars, reasonVars, retrVars, bankVars, assemblyVars, inferVars, tuneVars, detectVars, displayVars, webVars>>
     \/ /\ focus = "search" /\ Tune!SearchNext
        /\ UNCHANGED <<ruleVars, kgVars, reasonVars, retrVars, bankVars, assemblyVars, inferVars, imageVars, detectVars, displayVars, webVars>>
     \/ /\ focus = "regions" /\ Post!PostNext
        /\ UNCHANGED <<ruleVars, kgVars, reasonVars, retrVars, bankVars, assemblyVars, inferVars, imageVars, tuneVars, coreset, asked, profile, fast, displayVars, webVars>>
     \/ /\ focus = "profile" /\ Prof!ProfilesNext
        /\ UNCHANGED <<ruleVars, kgVars, reasonVars, retrVars, bankVars, assemblyVars, inferVars, imageVars, tuneVars, detector, detection, displayVars, webVars>>
     \/ /\ focus = "display" /\ Disp!DisplayNext
        /\ UNCHANGED <<ruleVars, kgVars, reasonVars, retrVars, bankVars, assemblyVars, inferVars, imageVars, tuneVars, detectVars, webVars>>
     \/ /\ focus = "web" /\ Web!WebNext
        /\ UNCHANGED <<ruleVars, kgVars, reasonVars, retrVars, bankVars, assemblyVars, inferVars, imageVars, tuneVars, detectVars, displayVars>>

ApplicationSpec ==
  ApplicationInit /\ [][ApplicationNext]_<<focus, ruleVars, kgVars, reasonVars, retrVars, bankVars, assemblyVars, inferVars, imageVars,
                                          tuneVars, detectVars, displayVars, webVars>>

(***************************************************************************)
(* Properties, each the component's own                                    *)
(***************************************************************************)
\* The cache of conditions changes no result, and no rule that stands is lost to a cycle of overrides.
RulesSound == focus = "rules" => Rul!CacheTransparent /\ Rul!VerdictSurvives
\* What is written down is what happened, once: the log of the knowledge store explains its
\* state, a frame is recorded once, what the parameter search answers with is the best of
\* what it observed within the declared ranges, predicted from all of it, and what the
\* display and the web server show is of the results that were reported.
RecordsTrue == /\ focus = "knowledge" => Know!KgInv
               /\ focus = "reason" => Reas!RecordedOnce
               /\ focus = "search" => Tune!SearchSound
               /\ focus = "display" => Disp!DisplaySound
               /\ focus = "web" => Web!AnswerTrue
\* What is found is there: the nodes of a walk through the graph, the neighbours of a
\* frame's query, and the nodes of a retrieval.
AnswersSound == /\ focus = "knowledge" => Know!TraverseSound
                /\ focus = "reason" => Reas!NeighboursNear
                /\ focus = "retrieval" => Retr!AnswerSound
\* A verdict is of the frame: all of its image and nothing else is seen, the regions found are
\* its own, and so are the facts that one tree decides by.
VerdictOfFrame == /\ focus = "image" => Img!FrameSeen
                  /\ focus = "regions" => Post!RegionsAreComponents /\ Post!RegionsOnlyOfDefective
                  /\ focus = "reason" => Reas!VerdictOfFrame
\* The bank of a position covers its patches, a frame is compared with its own position's,
\* and a profile speaks of distances that its bank has.
BanksSound == /\ focus = "banks" => Bank!BankCovers /\ Bank!OwnBank
              /\ focus = "profile" => Prof!ProfileDescribesBank
\* A validated configuration takes a frame from stage to stage by types that fit.
RoutedThroughout == focus = "assembly" => Asm!RoutedThroughout
\* The features a frame is judged by are of this frame.
FeaturesOfFrame == focus = "inference" => Inf!FeaturesOfFrame
=============================================================================
