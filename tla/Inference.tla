------------------------------- MODULE Inference -----------------------------
(***************************************************************************)
(* What the Inference stage's workers do with a frame on the GPU: the      *)
(* upload to a slab of the GpuPool, PatchEmbedder::ExtractGpu over         *)
(* DinoV3Adapter and TensorRtEngine, the copy of the features and their    *)
(* download.  AssembleApplication makes one embedder, with one engine, one *)
(* stream and one output buffer, and gives it to every position's          *)
(* pipeline: the workers are those of all of them.                         *)
(*                                                                         *)
(* CUDA is external: a stream runs its operations in order, some time      *)
(* after they were queued; cudaMemcpy, on the default stream, waits for    *)
(* all that was queued to the others.  An image, and the features of it,   *)
(* are the frame's number.  Bounds: MaxFrames frames, MaxReloads reloads.  *)
(***************************************************************************)
EXTENDS Integers, Sequences, FiniteSets, SequencesExt, FiniteSetsExt

CONSTANTS Workers, Slabs, MaxFrames, MaxReloads,
          Gaps   \* a Reload waits until no worker is about a frame (nothing in the engine makes it)

VARIABLES
  engine,   \* TensorRtEngine: the addresses in inputs_ and outputs_, the current context, all contexts' addresses
  cuda,     \* the stream of the embedder (0: none yet), the streams' queues, the memory, the output buffers made
  free,     \* the pool's free slabs
  worker,   \* what each worker is about
  reload,   \* a Reload under way: the new context's addresses
  taken     \* frames taken

inferVars == <<engine, cuda, free, worker, reload, taken>>

None == <<>>
Outs == {<<"out", 1>>, <<"out", 2>>}
Hosts == {<<"host", w>> : w \in Workers}
Memory == Slabs \cup Outs \cup Hosts
NoWork == [pc |-> "idle", frame |-> 0, slab |-> None, copy |-> None, stream |-> 0, data |-> 0]
NoAddr == [in |-> None, out |-> None]

InferInit ==
  /\ engine = [bound |-> NoAddr, current |-> 1, contexts |-> <<NoAddr>>]   \* loaded by the factory
  /\ cuda = [stream |-> 0, queues |-> <<>>, mem |-> [x \in Memory |-> 0], made |-> {}]
  /\ free = Slabs /\ worker = [w \in Workers |-> NoWork] /\ reload = <<>> /\ taken = 0

At(w, pc) == worker[w].pc = pc
Go(w, pc) == worker' = [worker EXCEPT ![w].pc = pc]
Drained == \A s \in DOMAIN cuda.queues : cuda.queues[s] = <<>>
Held(w) == {worker[w].slab, worker[w].copy} \ {None}
\* The stage gives an embedding without data for whatever failed; the slabs go back with the handles.
GiveUp(w) == /\ worker' = [worker EXCEPT ![w] = [NoWork EXCEPT !.pc = "done", !.frame = worker[w].frame]]
             /\ free' = free \cup Held(w)

(***************************************************************************)
(* InferenceStage::Process up to Extract                                   *)
(***************************************************************************)
\* The global embedder gets the SurfaceImage, which is none of the GPU's, and gives an error.
GlobalExtract(onGpu) == IF onGpu THEN "features" ELSE None
Upload(w) ==
  /\ At(w, "idle") /\ taken < MaxFrames /\ taken' = taken + 1
  /\ \/ \E s \in free :
          /\ Drained /\ free' = free \ {s}
          /\ cuda' = [cuda EXCEPT !.mem[s] = taken + 1]
          /\ worker' = [worker EXCEPT ![w] = [NoWork EXCEPT !.pc = "stream", !.frame = taken + 1, !.slab = s]]
     \/ /\ free = {} /\ worker' = [worker EXCEPT ![w] = [NoWork EXCEPT !.pc = "done", !.frame = taken + 1]]
        /\ UNCHANGED <<free, cuda>>
  /\ UNCHANGED <<engine, reload>>

(***************************************************************************)
(* ExtractGpu                                                              *)
(***************************************************************************)
EnsureStream(w) ==
  /\ At(w, "stream")
  /\ IF cuda.stream = 0 THEN Go(w, "create")
     ELSE worker' = [worker EXCEPT ![w].stream = cuda.stream, ![w].pc = "input"]
  /\ UNCHANGED <<engine, cuda, free, reload, taken>>
CreateStream(w) ==
  /\ At(w, "create")
  /\ LET s == Len(cuda.queues) + 1
     IN  /\ cuda' = [cuda EXCEPT !.queues = Append(@, <<>>), !.stream = s]
         /\ worker' = [worker EXCEPT ![w].stream = s, ![w].pc = "input"]
  /\ UNCHANGED <<engine, free, reload, taken>>

\* The binding, and the current context.
SetTensorAddress(port, addr) ==
  engine' = [engine EXCEPT !.bound[port] = addr, !.contexts[engine.current][port] = addr]
SetInput(w) ==
  /\ At(w, "input") /\ SetTensorAddress("in", worker[w].slab) /\ Go(w, "output")
  /\ UNCHANGED <<cuda, free, reload, taken>>
EnsureOutputBuffer(w) ==
  /\ At(w, "output")
  /\ Go(w, IF engine.bound.out = None THEN "alloc" ELSE "infer")
  /\ UNCHANGED <<engine, cuda, free, reload, taken>>
AllocOutput(w) ==
  /\ At(w, "alloc")
  /\ \E b \in Outs \ cuda.made :
       cuda' = [cuda EXCEPT !.made = @ \cup {b}] /\ SetTensorAddress("out", b)
  /\ Go(w, "infer") /\ UNCHANGED <<free, reload, taken>>
\* A context without its addresses refuses; a run may fail to be queued.
InferAsync(w) ==
  /\ At(w, "infer")
  /\ \/ /\ None \notin Range(engine.contexts[engine.current])
        /\ cuda' = [cuda EXCEPT !.queues[worker[w].stream] =
                      Append(@, [src |-> engine.contexts[engine.current].in,
                                 dst |-> engine.contexts[engine.current].out])]
        /\ Go(w, "copy") /\ UNCHANGED free
     \/ GiveUp(w) /\ UNCHANGED cuda
  /\ UNCHANGED <<engine, reload, taken>>
\* To a slab if the pool has one, else, or if that fails, to the host; a failure there returns at once.
CopyFeatures(w) ==
  LET to(dst) == cuda' = [cuda EXCEPT !.queues[worker[w].stream] = Append(@, [src |-> engine.bound.out, dst |-> dst])]
  IN  /\ At(w, "copy")
      /\ \/ \E s \in free : /\ to(s) /\ free' = free \ {s}
                            /\ worker' = [worker EXCEPT ![w].copy = s, ![w].pc = "sync"]
         \/ to(<<"host", w>>) /\ UNCHANGED free
            /\ worker' = [worker EXCEPT ![w].copy = None, ![w].pc = "sync"]
         \/ GiveUp(w) /\ UNCHANGED cuda
      /\ UNCHANGED <<engine, reload, taken>>
\* Variant of Synchronize: the worker does not wait for the stream.
DoNotSynchronize(w) ==
  /\ At(w, "sync") /\ Go(w, "download") /\ UNCHANGED <<engine, cuda, free, reload, taken>>
Synchronize(w) ==
  /\ At(w, "sync") /\ cuda.queues[worker[w].stream] = <<>>
  /\ Go(w, "download") /\ UNCHANGED <<engine, cuda, free, reload, taken>>
\* Features in a slab are downloaded by the stage; then the slabs go back.
Download(w) ==
  /\ At(w, "download") /\ (worker[w].copy # None => Drained)
  /\ LET from == IF worker[w].copy = None THEN <<"host", w>> ELSE worker[w].copy
     IN  worker' = [worker EXCEPT ![w] = [NoWork EXCEPT !.pc = "done", !.frame = worker[w].frame,
                                                       !.data = cuda.mem[from]]]
  /\ free' = free \cup Held(w) /\ UNCHANGED <<engine, cuda, reload, taken>>
NextFrame(w) ==
  /\ At(w, "done") /\ worker' = [worker EXCEPT ![w] = NoWork]
  /\ cuda' = [cuda EXCEPT !.mem[<<"host", w>>] = 0] /\ UNCHANGED <<engine, free, reload, taken>>
Work(w) == \/ Upload(w) \/ EnsureStream(w) \/ CreateStream(w) \/ SetInput(w) \/ EnsureOutputBuffer(w)
           \/ AllocOutput(w) \/ InferAsync(w) \/ CopyFeatures(w) \/ Synchronize(w) \/ Download(w) \/ NextFrame(w)

(***************************************************************************)
(* The GPU, and TensorRtEngine::Reload                                     *)
(***************************************************************************)
Execute(s) ==
  /\ cuda.queues[s] # <<>>
  /\ LET op == Head(cuda.queues[s])
     IN  cuda' = [cuda EXCEPT !.mem[op.dst] = cuda.mem[op.src], !.queues[s] = Tail(@)]
  /\ UNCHANGED <<engine, free, worker, reload, taken>>
Gap == Gaps => \A w \in Workers : At(w, "idle")
\* The new context gets the addresses that the bindings have now ...
DeserializeAndValidate ==
  /\ Gap /\ reload = <<>> /\ Len(engine.contexts) <= MaxReloads /\ reload' = <<engine.bound>>
  /\ UNCHANGED <<engine, cuda, free, worker, taken>>
\* ... and is in use from here on.
Reload ==
  /\ Gap /\ reload # <<>> /\ reload' = <<>>
  /\ engine' = [engine EXCEPT !.contexts = @ \o reload, !.current = Len(engine.contexts) + 1]
  /\ UNCHANGED <<cuda, free, worker, taken>>

InferNext == \/ \E w \in Workers : Work(w)
             \/ \E s \in DOMAIN cuda.queues : Execute(s)
             \/ DeserializeAndValidate \/ Reload
InferSpec == InferInit /\ [][InferNext]_inferVars

(***************************************************************************)
(* Properties                                                              *)
(***************************************************************************)
\* The features a worker hands on are those of the frame it took, or there are none.  (Documented,
\* app_builder.cpp:393: the positions' pipelines run independently.)
FeaturesOfFrame == \A w \in Workers : worker[w].data # 0 => worker[w].data = worker[w].frame
\* Documented (inference_stage.cpp:89): CLIP's global features go along with the patch features.
GlobalFeatures == GlobalExtract(FALSE) # None
\* Documented (patch_embedder_cuda.cpp:31): one stream per embedder, created when it is first needed.
OneStream == Len(cuda.queues) <= 1
\* Nothing queued reads or writes a slab the pool has given to somebody else.  A copy that cannot
\* be queued returns while the run before it is still to read the image's slab.
NothingOnFreeSlabs ==
  \A s \in DOMAIN cuda.queues : \A op \in Range(cuda.queues[s]) : {op.src, op.dst} \cap free = {}
==============================================================================
