-------------------------------- MODULE Banks -------------------------------
(***************************************************************************)
(* The feature banks of one output directory, from the images of a dataset *)
(* to the detector that searches them: the coreset builder                 *)
(* (apps/seat-aoi/coreset_builder.cpp) with the sampling of FeatureBank,   *)
(* the bank files and the manifest of each surface, what AssembleApplication *)
(* makes of them, and DetectStage, which picks the detector of a frame's   *)
(* key or collects a new one's first bank.  A patch vector is a number, so *)
(* that its squared distance to another is that of two points of a line.   *)
(* Bounds: MaxBuilds runs of the builder, MaxFrames frames.                *)
(***************************************************************************)
EXTENDS Integers, Sequences, FiniteSets, SequencesExt, FiniteSetsExt

CONSTANTS
  Surfaces, Positions,
  Embeddings,   \* the patch vectors an image may have; <<>> is a failed inference
  Datasets,     \* the datasets built from: sequences of [pos, emb, file]
  MaxSamples,   \* --coreset-max-samples
  Bootstraps,   \* DetectStage::SetBootstrapConfig: [on, min, target]
  MaxBuilds, MaxFrames

VARIABLES
  disk,    \* banks: the file pos_N.bin of each position; manifests: the positions each surface's lists
  job,     \* the builder: its surface, algorithm, embeddings by position, positions to do and done
  builds,
  app,     \* "down", "up", "crashed", with the positions' pipelines and the bootstrap settings
  boots,   \* DetectStage::bootstrap_states_ of each pipeline, by key
  last,    \* the frame Detect has finished: its key, its patches, the bank it was compared with
  frames

bankVars == <<disk, job, builds, app, boots, last, frames>>

NoBank == [has |-> <<>>, all |-> <<>>, algo |-> "none", key |-> <<>>, max |-> 0, grid |-> FALSE]
NoJob == [surface |-> "none", algo |-> "none", embs |-> [p \in Positions |-> <<>>], todo |-> {}, done |-> <<>>]
NoFrame == [key |-> <<>>, emb |-> <<>>, bank |-> NoBank]
Keys == (Surfaces \X Positions) \cup {<<"none", 0>>}   \* an image directory's frames carry no surface

BankInit ==
  /\ disk = [banks |-> [p \in Positions |-> NoBank], manifests |-> [s \in Surfaces |-> <<>>]]
  /\ job = NoJob /\ builds = 0
  /\ app = [phase |-> "down", positions |-> <<>>, boot |-> [on |-> FALSE, min |-> 1, target |-> 1]]
  /\ boots = <<>> /\ last = NoFrame /\ frames = 0

(* FeatureBank's sampling                                                  *)
\* Every stride-th vector, as many as max allows.
Uniform(all, max) ==
  IF Len(all) <= max THEN all
  ELSE LET stride == Len(all) \div max IN [i \in 1 .. max |-> all[(i - 1) * stride + 1]]
Sq(x, y) == (x - y) * (x - y)
Nearest(all, i, chosen) == Min({Sq(all[i], all[j]) : j \in Range(chosen)})
\* Variant of Furthest: the distances are those to the seed, whatever was picked since.
FurthestFromSeed(all, chosen) ==
  CHOOSE i \in DOMAIN all : \A j \in DOMAIN all :
    LET d(n) == IF n \in Range(chosen) THEN 0 ELSE Sq(all[n], all[1])
    IN  d(i) > d(j) \/ (d(i) = d(j) /\ i <= j)
\* The first of the vectors furthest from those chosen so far.
Furthest(all, chosen) ==
  CHOOSE i \in DOMAIN all : \A j \in DOMAIN all :
    LET d(n) == Nearest(all, n, chosen) IN d(i) > d(j) \/ (d(i) = d(j) /\ i <= j)
Greedy(all, max) ==
  LET pick[k \in 1 .. max] == IF k = 1 THEN <<1>> ELSE Append(pick[k - 1], Furthest(all, pick[k - 1]))
      chosen == pick[Min({max, Len(all)})]
  IN  [k \in DOMAIN chosen |-> all[chosen[k]]]
\* An empty sequence: no patch vector, and the build fails.
BuildBank(key, all, algo, max) ==
  [has |-> IF all = <<>> THEN <<>> ELSE IF algo = "greedy" THEN Greedy(all, max) ELSE Uniform(all, max),
   all |-> all, algo |-> algo, key |-> key, max |-> max, grid |-> TRUE]

(* BasicImporter::ImportImage.  The decoder (external) gives an 8-bit image *)
(* three channels whatever the file has, the metadata keeps the file's, and *)
(* the pixels read are as many as the metadata says.                        *)
Decoded(file) ==
  [channels |-> file.channels, bits |-> IF file.bits = 16 THEN 16 ELSE 8,
   buffer |-> IF file.tiff \/ file.bits = 16 THEN file.channels ELSE 3,
   format |-> IF file.bits = 16 THEN IF file.channels = 3 THEN "RGB16" ELSE "Mono16"
              ELSE IF file.channels = 1 THEN "Mono8" ELSE "RGB8"]
Misread == 99   \* what is extracted from pixels that are not the image's
(* The builder: import, preprocess and embed the images one by one, those  *)
(* that fail are skipped; then a bank file for each position in order, and *)
(* the manifest.  A failure ends it where it stands.                       *)
Extracted(entry) ==
  LET d == Decoded(entry.file)
  IN  IF d.channels = d.buffer THEN entry.emb ELSE [i \in DOMAIN entry.emb |-> Misread]
GroupByPosition(ds, ok) ==
  [p \in Positions |->
     FlattenSeq([i \in DOMAIN ds |-> IF i \in ok /\ ds[i].pos = p THEN Extracted(ds[i]) ELSE <<>>])]
BuildCoreset(s, ds, algo) ==
  /\ app.phase = "down" /\ job = NoJob /\ builds < MaxBuilds /\ builds' = builds + 1
  /\ \E ok \in SUBSET DOMAIN ds :
       job' = [surface |-> s, algo |-> algo, embs |-> GroupByPosition(ds, ok),
               todo |-> {ds[i].pos : i \in ok}, done |-> <<>>]
  /\ UNCHANGED <<disk, app, boots, last, frames>>
\* The file's name tells the position and not the surface.
SaveBank ==
  /\ job.todo # {}
  /\ LET p == Min(job.todo)
         bank == BuildBank(<<job.surface, p>>, job.embs[p], job.algo, MaxSamples)
     IN  \/ /\ bank.has # <<>>
            /\ disk' = [disk EXCEPT !.banks[p] = bank]
            /\ job' = [job EXCEPT !.todo = @ \ {p}, !.done = Append(@, p)]
         \/ job' = NoJob /\ UNCHANGED disk
  /\ UNCHANGED <<builds, app, boots, last, frames>>
SaveCoresetManifest ==
  /\ job # NoJob /\ job.todo = {} /\ job' = NoJob
  /\ disk' \in {disk, [disk EXCEPT !.manifests[job.surface] = job.done]}
  /\ UNCHANGED <<builds, app, boots, last, frames>>

(* AssembleApplication: the manifest's positions whose file loads, each    *)
(* with its own pipeline and detector; else one pipeline, whose detector   *)
(* never gets the bank of --coreset.                                       *)
LoadCoresetManifest(s) == disk.manifests[s]
LoadFromFile == SUBSET Positions   \* the positions whose file can be read
\* The listed ones of them, in the manifest's order.
Loadable(manifest, readable) ==
  LET found[i \in 0 .. Len(manifest)] ==
        IF i = 0 THEN <<>>
        ELSE IF manifest[i] \in readable THEN Append(found[i - 1], manifest[i]) ELSE found[i - 1]
  IN  found[Len(manifest)]
\* Variant of LoadBanks: the detectors by their place in the manifest.
LoadBanksInARow(s, readable) ==
  LET listed == Loadable(LoadCoresetManifest(s), readable)
  IN  [i \in DOMAIN listed |-> [key |-> <<s, listed[i]>>, bank |-> disk.banks[LoadCoresetManifest(s)[i]]]]
LoadBanks(s, readable) ==
  LET listed == Loadable(LoadCoresetManifest(s), readable)
  IN  [i \in DOMAIN listed |-> [key |-> <<s, listed[i]>>, bank |-> disk.banks[listed[i]]]]
Wire(found) == IF found # <<>> THEN found ELSE <<[key |-> <<"default", 0>>, bank |-> NoBank]>>
\* One detector for each pipeline, by its key; a step that fails leaves nothing.
AssembleApplication(found) ==
  /\ app.phase = "down" /\ job = NoJob
  /\ \/ \E b \in Bootstraps : app' = [phase |-> "up", positions |-> Wire(found), boot |-> b]
     \/ UNCHANGED app
  /\ boots' = [i \in DOMAIN app'.positions |-> [k \in Keys |-> [vectors |-> <<>>, frames |-> 0, bank |-> NoBank]]]
  /\ last' = NoFrame /\ UNCHANGED <<disk, job, builds, frames>>
\* --coreset names a file; LoadFromFile may refuse it.
Single(p) == disk.banks[p] # NoBank /\ AssembleApplication(<<>>)
Manifest(s) == \E readable \in LoadFromFile : AssembleApplication(LoadBanks(s, readable))

(* DetectStage::Process                                                    *)
FindPosition(key) ==
  LET own == {i \in DOMAIN app.positions : app.positions[i].key = key} IN IF own = {} THEN 1 ELSE Min(own)
Frame(key, emb) ==
  /\ app.phase = "up" /\ frames < MaxFrames /\ frames' = frames + 1
  /\ UNCHANGED <<disk, job, builds>>
Detected(key, emb, bank) == last' = [key |-> key, emb |-> emb, bank |-> IF emb = <<>> \/ ~bank.grid THEN NoBank ELSE bank]

\* A detector of the key; its own grid test refuses another grid.
DetectWithBank(key, emb) ==
  LET i == FindPosition(key) pp == app.positions[i] IN
  /\ Frame(key, emb) /\ UNCHANGED <<app, boots>>
  /\ \/ pp.key = key /\ Detected(key, emb, pp.bank)
     \/ pp.key # key /\ boots[i][key].bank # NoBank /\ Detected(key, emb, boots[i][key].bank)
\* No detector, and no default one: the result is empty.
DetectWithNothing(key, emb) ==
  /\ Frame(key, emb) /\ app.positions[FindPosition(key)].key # key /\ ~app.boot.on
  /\ Detected(key, emb, NoBank) /\ UNCHANGED <<app, boots>>
(* The bootstrap of a key: patches are sampled until there are enough      *)
(* frames.  Both quotients may have a divisor of 0.                        *)
PerFrame == app.boot.target \div app.boot.min
Sampled(emb) ==
  LET stride == IF Len(emb) > PerFrame THEN Len(emb) \div PerFrame ELSE 1
  IN  [i \in 1 .. ((Len(emb) + stride - 1) \div stride) |-> emb[(i - 1) * stride + 1]]
\* PatchCore is told that the image is as large as the grid: with its default
\* patch size no grid passes its test.
Complete(b, key) ==
  [vectors |-> <<>>, frames |-> 0,
   bank |-> IF b.vectors = <<>> THEN NoBank
            ELSE [BuildBank(key, b.vectors, "greedy", app.boot.target) EXCEPT !.grid = FALSE]]
Bootstrap(key, emb) ==
  LET i == FindPosition(key)
      b == boots[i][key]
      more == [b EXCEPT !.vectors = @ \o Sampled(emb), !.frames = @ + 1]
      enough == b.frames + 1 >= app.boot.min
  IN
  /\ Frame(key, emb) /\ app.positions[i].key # key /\ app.boot.on /\ b.bank = NoBank
  /\ Detected(key, emb, NoBank)
  /\ IF (emb # <<>> /\ PerFrame = 0 /\ Len(emb) > 0) \/ (emb = <<>> /\ enough)
     THEN app' = [app EXCEPT !.phase = "crashed"] /\ UNCHANGED boots
     ELSE boots' = [boots EXCEPT ![i][key] = IF enough THEN Complete(more, key) ELSE more] /\ UNCHANGED app

Exit ==
  /\ app.phase = "up" /\ app' = [app EXCEPT !.phase = "down", !.positions = <<>>]
  /\ boots' = <<>> /\ last' = NoFrame /\ UNCHANGED <<disk, job, builds, frames>>

BankNext ==
  \/ \E s \in Surfaces, ds \in Datasets, algo \in {"greedy", "uniform"} : BuildCoreset(s, ds, algo)
  \/ SaveBank \/ SaveCoresetManifest \/ Exit
  \/ \E p \in Positions : Single(p)
  \/ \E s \in Surfaces : Manifest(s)
  \/ \E key \in Keys, emb \in Embeddings : DetectWithBank(key, emb) \/ DetectWithNothing(key, emb) \/ Bootstrap(key, emb)
BankSpec == BankInit /\ [][BankNext]_bankVars

(***************************************************************************)
(* Properties                                                              *)
(***************************************************************************)
Banked == Range(disk.banks) \cup {app.positions[i].bank : i \in DOMAIN app.positions}
            \cup {boots[i][k].bank : i \in DOMAIN boots, k \in Keys}
Radius(all, has) == Max({Min({Sq(x, y) : y \in has}) : x \in Range(all)})
Best(all, n) == Min({Radius(all, has) : has \in {s \in SUBSET Range(all) : s # {} /\ Cardinality(s) <= n}})

(* A bank (feature_bank.cpp:152-345) has as many patches as it may, all of *)
(* its own key's images; greedy, its furthest patch is at most twice as    *)
(* far from the bank as with the best bank of its size.                    *)
BankCovers ==
  \A b \in Banked \ {NoBank} :
    /\ Len(b.has) = Min({b.max, Len(b.all)}) /\ Range(b.has) \subseteq Range(b.all)
    /\ b.algo = "greedy" => Radius(b.all, Range(b.has)) <= 4 * Best(b.all, b.max)

(* A frame is compared with the bank of its own surface and position       *)
(* (detect_stage.cpp:36-119), whichever files a builder that failed, or an *)
(* unreadable bank, has left.                                              *)
OwnBank == last.bank # NoBank => last.bank.key = last.key

\* Documented (stage_nodes.h:133-136): a completed bootstrap gives its key a
\* detector.  The one it registers refuses every grid.
BootstrapDetects ==
  \A i \in DOMAIN boots : \A k \in Keys : boots[i][k].bank # NoBank => boots[i][k].bank.grid
\* Documented (basic_importer.cpp:123): an 8-bit image is read as RGB.  A gray or
\* an RGBA file's pixels are read with the file's own channels.
PixelsRead == \A b \in Banked : Misread \notin Range(b.all)
\* Documented (README.md:125, app_builder.cpp:189-204): the bank of --coreset
\* serves a single position.  No detector gets it.
SingleDetects == app.phase = "up" => \A i \in DOMAIN app.positions : app.positions[i].bank # NoBank
=============================================================================
