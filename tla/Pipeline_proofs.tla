--------------------------- MODULE Pipeline_proofs ---------------------------
(***************************************************************************)
(* Proofs about Pipeline for every chain of stages, any number of worker   *)
(* threads, any capacities and any number of frames and restarts; and,     *)
(* from the part on the runner on, about HeadlessRunner for every chain    *)
(* with one worker for each stage: the runner is a client of the pipeline, *)
(* so that the pipeline's invariants hold of it, and its verdicts come in  *)
(* the order of the frames.                                                *)
(***************************************************************************)
EXTENDS HeadlessRunner, FiniteSetTheorems, TLAPS

-----------------------------------------------------------------------------
(* The inductive invariant                                                  *)

Count == Cardinality(Submitted)

\* Frames are numbered in the order of their submission.
Numbered == \E k \in 0 .. MaxFrames : Submitted = 1 .. k

\* A worker holds a frame exactly while it deals with one.
Busy == \A w \in Workers :
           hand[w] # NoFrame <=> wpc[w] \in {"process", "heatmap", "publish", "push"}

\* No frame is in two slots, ...
SlotsDistinct ==
    \A s, r \in Stages : \A i \in DOMAIN queue[s], j \in DOMAIN queue[r] :
        queue[s][i] = queue[r][j] => s = r /\ i = j

\* ... in a slot and with a worker, or with two workers, ...
HandsDistinct ==
    /\ \A s \in Stages, w \in Workers : \A i \in DOMAIN queue[s] : queue[s][i] # hand[w]
    /\ \A v, w \in Workers : hand[v] = hand[w] /\ hand[v] # NoFrame => v = w

\* ... or anywhere while its Submit is still to push it.
SubmitDistinct ==
    spc = "push" => /\ \A s \in Stages : \A i \in DOMAIN queue[s] : queue[s][i] # Count
                    /\ \A w \in Workers : hand[w] # Count

\* What is in the pipeline is in flight, ...
OwnedInFlight ==
    /\ \A s \in Stages : \A i \in DOMAIN queue[s] : outcome[queue[s][i]] = "inflight"
    /\ \A w \in Workers : hand[w] # NoFrame => outcome[hand[w]] = "inflight"
    /\ spc = "push" => Count \in Frames /\ outcome[Count] = "inflight"

\* ... and what is in flight is in the pipeline.
InFlightOwned ==
    \A f \in Frames : outcome[f] = "inflight" =>
        \/ \E s \in Stages : \E i \in DOMAIN queue[s] : queue[s][i] = f
        \/ \E w \in Workers : hand[w] = f
        \/ spc = "push" /\ f = Count

Placed == SlotsDistinct /\ HandsDistinct /\ SubmitDistinct /\ OwnedInFlight /\ InFlightOwned

\* A pipeline that is not running has threads only while Stop waits for them.
Lifecycle ==
    /\ inStop => ~running /\ cpc \in {"poll", "force"}
    /\ cpc = "request" => ~running
    /\ ~running /\ cpc # "request" => \A w \in Workers : wpc[w] = "none"

\* Once Stop's Drain has dealt with a queue, the queue holds at most the frame of
\* the Submit that the stop overlapped.
Left ==
    ~running /\ cpc # "request" =>
        \A s \in Stages : ~inStop \/ (cpc = "force" /\ s \in scanned) =>
            \A i \in DOMAIN queue[s] : queue[s][i] = Count

Inv == TypeOK /\ Numbered /\ Busy /\ Placed /\ Lifecycle /\ Left

-----------------------------------------------------------------------------
(* The order of frames, with one thread for each stage and one Export        *)

OneThreadPerStage ==
    /\ \A v, w \in Workers : StageOf[v] = StageOf[w] => v = w
    /\ \A s \in Stages : StageTypes[s] = "Export" => s = Last

\* A frame is at a stage: in its queue or with its worker.
At(s, f) ==
    \/ \E i \in DOMAIN queue[s] : queue[s][i] = f
    \/ \E w \in Workers : StageOf[w] = s /\ hand[w] = f

\* Frames further down the chain are older, ...
OlderDownstream ==
    \A s, r \in Stages, f, g \in Frames : s < r /\ At(r, f) /\ At(s, g) => f < g

\* ... those at the front of a queue too, and the worker's is older than its queue.
OlderInFront ==
    /\ \A s \in Stages : \A i, j \in DOMAIN queue[s] : i < j => queue[s][i] < queue[s][j]
    /\ \A w \in Workers : \A i \in DOMAIN queue[StageOf[w]] : hand[w] < queue[StageOf[w]][i]

\* The frame being submitted is newer than all of them.
NewestSubmitted ==
    \A s \in Stages, f \in Frames : At(s, f) => f <= Count /\ (spc = "push" => f < Count)

\* What has been reported is older than what is still to be reported.
ReportedOlder ==
    \A i \in DOMAIN exports :
        /\ exports[i].frame <= Count /\ (spc = "push" => exports[i].frame < Count)
        /\ \A s \in Stages : \A j \in DOMAIN queue[s] : exports[i].frame < queue[s][j]
        /\ \A w \in Workers : hand[w] # NoFrame =>
              \/ exports[i].frame < hand[w]
              \/ IsA(w, "Export") /\ wpc[w] = "push"

Order == /\ OlderDownstream /\ OlderInFront /\ NewestSubmitted /\ ReportedOlder
         /\ ExportInOrder /\ frameCounter = Len(exports)

\* No stage from s on publishes an image.
PastImages(s) == \A r \in Stages : r >= s => StageTypes[r] # "Preprocess"

\* A snapshot is not older than any frame that has passed the stages that publish.
ImageNewer ==
    image # NoFrame =>
        /\ \A s \in Stages : PastImages(s) => \A i \in DOMAIN queue[s] : queue[s][i] <= image
        /\ \A w \in Workers :
              PastImages(StageOf[w]) \/ (wpc[w] = "push" /\ PastImages(StageOf[w] + 1)) => hand[w] <= image

TakenNewer ==
    \A w \in Workers : wpc[w] \in {"heatmap", "publish"} /\ IsA(w, "Export") =>
        taken[w].image = NoFrame \/ taken[w].image >= hand[w]

Images == /\ ImageNewer /\ TakenNewer /\ ImageNotOlder
          /\ PastImages(1) => image = NoFrame

-----------------------------------------------------------------------------
(* Frames, queues and the count of submissions                              *)

\* The chain has a first and a last stage.
LEMMA Chain ==
    /\ Last \in Nat \ {0} /\ Stages = 1 .. Last /\ 1 \in Stages /\ Last \in Stages
    /\ Frames \subseteq Nat \ {0} /\ NoFrame \notin Frames
  BY PipelineAssumption DEF Last, Stages, Frames, NoFrame

\* The frames submitted so far are the first Count of them.
LEMMA Counted ==
    ASSUME Numbered
    PROVE  Count \in 0 .. MaxFrames /\ Submitted = 1 .. Count
<1>1. PICK k \in 0 .. MaxFrames : Submitted = 1 .. k
  BY DEF Numbered
<1>2. Cardinality(1 .. k) = k
  BY <1>1, FS_Interval, PipelineAssumption
<1> QED BY <1>1, <1>2 DEF Count

\* What is decided about a submitted frame leaves the count alone.
LEMMA SettleKeepsCount ==
    ASSUME TypeOK, NEW f \in Frames, outcome[f] = "inflight", NEW how \in Outcomes \ {"new"}, Settle(f, how)
    PROVE  /\ Submitted' = Submitted /\ Count' = Count
           /\ outcome'[f] = how /\ \A g \in Frames : g # f => outcome'[g] = outcome[g]
<1>1. outcome'[f] = how /\ \A g \in Frames : g # f => outcome'[g] = outcome[g]
  BY DEF TypeOK, Settle
<1>2. Submitted' = Submitted
  BY <1>1 DEF Submitted
<1> QED BY <1>1, <1>2 DEF Count

\* Taking the front of a queue moves every other slot up by one.
LEMMA Popped ==
    ASSUME TypeOK, NEW s \in Stages, queue[s] # <<>>, queue' = [queue EXCEPT ![s] = Tail(queue[s])]
    PROVE  /\ queue' \in [Stages -> Seq(Frames)]
           /\ \A r \in Stages : Len(queue'[r]) <= Len(queue[r])
           /\ 1 \in DOMAIN queue[s] /\ Head(queue[s]) = queue[s][1] /\ queue[s][1] \in Frames
           /\ \A r \in Stages : r # s => queue'[r] = queue[r]
           /\ \A i \in DOMAIN queue'[s] : i + 1 \in DOMAIN queue[s] /\ queue'[s][i] = queue[s][i + 1]
           /\ \A i \in DOMAIN queue[s] : i = 1 \/ (i - 1 \in DOMAIN queue'[s] /\ queue'[s][i - 1] = queue[s][i])
<1> DEFINE q == queue[s]
           t == Tail(q)
<1>1. queue \in [Stages -> Seq(Frames)] /\ q \in Seq(Frames) /\ q # <<>>
  BY DEF TypeOK
<1> HIDE DEF q
<1>2. /\ Len(q) \in Nat \ {0} /\ DOMAIN q = 1 .. Len(q) /\ 1 \in DOMAIN q
      /\ Head(q) = q[1] /\ q[1] \in Frames
  BY <1>1
<1>3. t \in Seq(Frames) /\ Len(t) = Len(q) - 1 /\ \A i \in 1 .. Len(t) : t[i] = q[i + 1]
  BY <1>1, <1>2
<1>4. DOMAIN t = 1 .. Len(q) - 1
  BY <1>3
<1> HIDE DEF t
<1>5. queue'[s] = t /\ \A r \in Stages : r # s => queue'[r] = queue[r]
  BY <1>1 DEF t, q
<1>6. queue' \in [Stages -> Seq(Frames)]
  BY <1>1, <1>3 DEF t, q
<1>7. \A r \in Stages : Len(queue'[r]) <= Len(queue[r])
  <2>1. \A r \in Stages : Len(queue[r]) \in Nat
    BY <1>1
  <2> QED BY <1>2, <1>3, <1>5, <2>1 DEF q
<1>8. \A i \in DOMAIN t : i + 1 \in DOMAIN q /\ t[i] = q[i + 1]
  BY <1>2, <1>3, <1>4
<1>9. \A i \in DOMAIN q : i = 1 \/ (i - 1 \in DOMAIN t /\ t[i - 1] = q[i])
  BY <1>2, <1>3, <1>4
<1> QED BY <1>2, <1>5, <1>6, <1>7, <1>8, <1>9 DEF q

\* A frame that is enqueued is in a slot of its own behind the others.
LEMMA Pushed ==
    ASSUME TypeOK, NEW s \in Stages, NEW f \in Frames, Len(queue[s]) < Capacity[s],
           queue' = [queue EXCEPT ![s] = Append(queue[s], f)]
    PROVE  /\ queue' \in [Stages -> Seq(Frames)]
           /\ \A r \in Stages : Len(queue'[r]) <= Capacity[r]
           /\ \A r \in Stages : r # s => queue'[r] = queue[r]
           /\ \A i \in DOMAIN queue[s] : i \in DOMAIN queue'[s] /\ queue'[s][i] = queue[s][i]
           /\ Len(queue[s]) \in Nat
           /\ Len(queue[s]) + 1 \in DOMAIN queue'[s] /\ queue'[s][Len(queue[s]) + 1] = f
           /\ \A i \in DOMAIN queue'[s] : \/ i \in DOMAIN queue[s] /\ queue'[s][i] = queue[s][i]
                                          \/ i = Len(queue[s]) + 1 /\ queue'[s][i] = f
<1> DEFINE q == queue[s]
           a == Append(q, f)
<1>1. queue \in [Stages -> Seq(Frames)] /\ q \in Seq(Frames)
  BY DEF TypeOK
<1>0. Capacity[s] \in Nat
  BY PipelineAssumption
<1> HIDE DEF q
<1>2. Len(q) \in Nat /\ DOMAIN q = 1 .. Len(q)
  BY <1>1
<1>3. /\ a \in Seq(Frames) /\ Len(a) = Len(q) + 1 /\ DOMAIN a = 1 .. Len(q) + 1
      /\ a[Len(q) + 1] = f /\ \A i \in 1 .. Len(q) : a[i] = q[i]
  BY <1>1, <1>2
<1> HIDE DEF a
<1>5. queue'[s] = a /\ \A r \in Stages : r # s => queue'[r] = queue[r]
  BY <1>1 DEF a, q
<1>6. queue' \in [Stages -> Seq(Frames)]
  BY <1>1, <1>3 DEF a, q
<1>7. \A r \in Stages : Len(queue'[r]) <= Capacity[r]
  <2>1. \A r \in Stages : Len(queue[r]) <= Capacity[r]
    BY DEF TypeOK
  <2>2. Len(a) <= Capacity[s]
    BY <1>0, <1>2, <1>3 DEF q
  <2> QED BY <1>5, <2>1, <2>2
<1>8. \A i \in DOMAIN q : i \in DOMAIN a /\ a[i] = q[i]
  BY <1>2, <1>3
<1>9. \A i \in DOMAIN a : \/ i \in DOMAIN q /\ a[i] = q[i]
                          \/ i = Len(q) + 1 /\ a[i] = f
  BY <1>2, <1>3
<1>10. Len(q) + 1 \in DOMAIN a
  BY <1>2, <1>3
<1> QED BY <1>2, <1>3, <1>5, <1>6, <1>7, <1>8, <1>9, <1>10 DEF q

-----------------------------------------------------------------------------
(* What the steps do to the places of the frames                            *)

\* A step that moves no frame.
LEMMA StayPlaced ==
    ASSUME Placed, Numbered, UNCHANGED <<queue, hand, spc, outcome>>
    PROVE  Placed' /\ Numbered' /\ Count' = Count
<1>1. Count' = Count /\ Submitted' = Submitted
  BY DEF Count, Submitted
<1> QED BY <1>1 DEF Placed, SlotsDistinct, HandsDistinct, SubmitDistinct, OwnedInFlight,
                    InFlightOwned, Numbered

\* The front of a queue goes to a worker that holds nothing.
LEMMA TakePlaced ==
    ASSUME TypeOK, Placed, Numbered, NEW w \in Workers, NEW s \in Stages,
           hand[w] = NoFrame, queue[s] # <<>>,
           queue' = [queue EXCEPT ![s] = Tail(queue[s])],
           hand' = [hand EXCEPT ![w] = Head(queue[s])],
           UNCHANGED <<outcome, spc>>
    PROVE  Placed' /\ Numbered' /\ Count' = Count
<1> DEFINE h == queue[s][1]
<1>0. Count' = Count /\ Numbered'
  BY DEF Count, Submitted, Numbered
<1>1. /\ 1 \in DOMAIN queue[s] /\ h \in Frames /\ h # NoFrame
      /\ hand'[w] = h /\ \A v \in Workers : v # w => hand'[v] = hand[v]
  BY Popped, Chain DEF TypeOK
<1>2. \A r \in Stages : r # s => queue'[r] = queue[r]
  BY Popped
<1>3. \A i \in DOMAIN queue'[s] : i + 1 \in DOMAIN queue[s] /\ queue'[s][i] = queue[s][i + 1]
  BY Popped
<1>4. \A i \in DOMAIN queue[s] : i = 1 \/ (i - 1 \in DOMAIN queue'[s] /\ queue'[s][i - 1] = queue[s][i])
  BY Popped, Zenon
<1>a. DOMAIN queue'[s] \subseteq Nat \ {0}
  <2>1. queue'[s] \in Seq(Frames)
    BY Popped
  <2> QED BY <2>1
<1> HIDE DEF h
<1> USE DEF Placed
<1>b. \A r \in Stages : \A i \in DOMAIN queue'[r] :
         /\ queue'[r][i] # h
         /\ \E j \in DOMAIN queue[r] : queue'[r][i] = queue[r][j]
  BY <1>1, <1>2, <1>3, <1>a DEF SlotsDistinct, h
<1>5. SlotsDistinct'
  <2> SUFFICES ASSUME NEW r \in Stages, NEW u \in Stages, NEW i \in DOMAIN queue'[r], NEW j \in DOMAIN queue'[u],
                      queue'[r][i] = queue'[u][j]
               PROVE  r = u /\ i = j
    BY DEF SlotsDistinct
  <2>1. r = u
    BY <1>2, <1>3 DEF SlotsDistinct
  <2>2. CASE r = s
    BY <2>1, <2>2, <1>3, <1>a, SMTT(60) DEF SlotsDistinct
  <2>3. CASE r # s
    BY <2>1, <2>3, <1>2 DEF SlotsDistinct
  <2> QED BY <2>1, <2>2, <2>3
<1>6. HandsDistinct'
  <2>1. \A r \in Stages, v \in Workers : \A i \in DOMAIN queue'[r] : queue'[r][i] # hand'[v]
    BY <1>1, <1>b DEF HandsDistinct
  <2>2. \A u, v \in Workers : hand'[u] = hand'[v] /\ hand'[u] # NoFrame => u = v
    BY <1>1 DEF HandsDistinct, h
  <2> QED BY <2>1, <2>2 DEF HandsDistinct
<1>7. SubmitDistinct'
  BY <1>0, <1>1, <1>b DEF SubmitDistinct, h
<1>8. OwnedInFlight'
  BY <1>0, <1>1, <1>b DEF OwnedInFlight, h
<1>9. InFlightOwned'
  <2> SUFFICES ASSUME NEW f \in Frames, outcome[f] = "inflight"
               PROVE  \/ \E r \in Stages : \E i \in DOMAIN queue'[r] : queue'[r][i] = f
                      \/ \E v \in Workers : hand'[v] = f
                      \/ spc = "push" /\ f = Count
    BY <1>0 DEF InFlightOwned
  <2>1. CASE spc = "push" /\ f = Count
    BY <2>1
  <2>2. ASSUME NEW v \in Workers, hand[v] = f
        PROVE  hand'[v] = f
    BY <2>2, <1>1, Chain
  <2>3. ASSUME NEW r \in Stages, NEW i \in DOMAIN queue[r], queue[r][i] = f
        PROVE  hand'[w] = f \/ \E j \in DOMAIN queue'[r] : queue'[r][j] = f
    <3>1. CASE r = s
      BY <2>3, <3>1, <1>1, <1>4, ZenonT(60) DEF h
    <3>2. CASE r # s
      BY <2>3, <3>2, <1>2
    <3> QED BY <3>1, <3>2
  <2> QED BY <2>1, <2>2, <2>3 DEF InFlightOwned
<1> QED BY <1>0, <1>5, <1>6, <1>7, <1>8, <1>9

\* A worker is done with its frame, which leaves the pipeline.
LEMMA DropPlaced ==
    ASSUME TypeOK, Placed, Numbered, NEW w \in Workers, hand[w] # NoFrame,
           NEW how \in Outcomes \ {"new", "inflight"}, Settle(hand[w], how),
           hand' = [hand EXCEPT ![w] = NoFrame],
           UNCHANGED <<queue, spc>>
    PROVE  Placed' /\ Numbered' /\ Count' = Count
<1> USE DEF Placed
<1> DEFINE h == hand[w]
<1>1. h \in Frames /\ hand'[w] = NoFrame /\ \A v \in Workers : v # w => hand'[v] = hand[v] /\ hand[v] # h
  BY DEF TypeOK, HandsDistinct
<1>2. outcome[h] = "inflight"
  BY DEF OwnedInFlight
<1>3. /\ Submitted' = Submitted /\ Count' = Count
      /\ outcome'[h] = how /\ \A g \in Frames : g # h => outcome'[g] = outcome[g]
  BY <1>1, <1>2, SettleKeepsCount
<1>4. \A s \in Stages : \A i \in DOMAIN queue[s] : queue[s][i] \in Frames /\ queue[s][i] # h
  BY DEF TypeOK, HandsDistinct
<1>5. \A v \in Workers : hand[v] \in Frames \cup {NoFrame}
  BY DEF TypeOK
<1>6. spc = "push" => Count # h
  BY DEF SubmitDistinct
<1> HIDE DEF h
<1>7. SlotsDistinct' /\ Numbered'
  BY <1>3 DEF SlotsDistinct, Numbered
<1>8. HandsDistinct'
  <2>1. \A s \in Stages, v \in Workers : \A i \in DOMAIN queue[s] : queue[s][i] # hand'[v]
    BY <1>1, <1>4, Chain DEF HandsDistinct
  <2>2. \A u, v \in Workers : hand'[u] = hand'[v] /\ hand'[u] # NoFrame => u = v
    BY <1>1 DEF HandsDistinct
  <2> QED BY <2>1, <2>2 DEF HandsDistinct
<1>9. SubmitDistinct'
  <2>1. spc = "push" => Count # NoFrame
    BY Chain DEF OwnedInFlight
  <2> QED BY <2>1, <1>1, <1>3 DEF SubmitDistinct
<1>10. OwnedInFlight'
  BY <1>1, <1>3, <1>4, <1>5, <1>6 DEF OwnedInFlight
<1>11. InFlightOwned'
  <2> SUFFICES ASSUME NEW f \in Frames, outcome'[f] = "inflight"
               PROVE  \/ \E s \in Stages : \E i \in DOMAIN queue[s] : queue[s][i] = f
                      \/ \E v \in Workers : hand'[v] = f
                      \/ spc = "push" /\ f = Count
    BY <1>3 DEF InFlightOwned
  <2>1. f # h /\ outcome[f] = "inflight"
    BY <1>3
  <2>2. ASSUME NEW v \in Workers, hand[v] = f
        PROVE  hand'[v] = f
    BY <2>1, <2>2, <1>1 DEF h
  <2> QED BY <2>1, <2>2 DEF InFlightOwned
<1> QED BY <1>3, <1>7, <1>8, <1>9, <1>10, <1>11

\* A worker's frame goes to the end of a queue.
LEMMA PassPlaced ==
    ASSUME TypeOK, Placed, Numbered, NEW w \in Workers, NEW s \in Stages, hand[w] # NoFrame,
           Len(queue[s]) < Capacity[s],
           queue' = [queue EXCEPT ![s] = Append(queue[s], hand[w])],
           hand' = [hand EXCEPT ![w] = NoFrame],
           UNCHANGED <<outcome, spc>>
    PROVE  Placed' /\ Numbered' /\ Count' = Count
<1> USE DEF Placed
<1> DEFINE h == hand[w]
           n == Len(queue[s]) + 1
<1>0. Count' = Count /\ Numbered'
  BY DEF Count, Submitted, Numbered
<1>1. h \in Frames /\ hand'[w] = NoFrame /\ \A v \in Workers : v # w => hand'[v] = hand[v] /\ hand[v] # h
  BY DEF TypeOK, HandsDistinct
<1>2. \A r \in Stages : r # s => queue'[r] = queue[r]
  BY <1>1, Pushed
<1>3. \A i \in DOMAIN queue'[s] : \/ i \in DOMAIN queue[s] /\ queue'[s][i] = queue[s][i]
                                  \/ i = n /\ queue'[s][i] = h
  BY <1>1, Pushed
<1>4. /\ \A i \in DOMAIN queue[s] : i \in DOMAIN queue'[s] /\ queue'[s][i] = queue[s][i]
      /\ n \in DOMAIN queue'[s] /\ queue'[s][n] = h
  BY <1>1, Pushed
<1>5. \A r \in Stages : \A i \in DOMAIN queue[r] : queue[r][i] \in Frames /\ queue[r][i] # h
  BY DEF TypeOK, HandsDistinct
<1> HIDE DEF h, n
<1>b. \A r \in Stages : \A i \in DOMAIN queue'[r] :
         \/ i \in DOMAIN queue[r] /\ queue'[r][i] = queue[r][i]
         \/ r = s /\ i = n /\ queue'[r][i] = h
  BY <1>2, <1>3
<1>6. SlotsDistinct'
  BY <1>b, <1>5 DEF SlotsDistinct
<1>7. HandsDistinct'
  <2>1. \A r \in Stages, v \in Workers : \A i \in DOMAIN queue'[r] : queue'[r][i] # hand'[v]
    BY <1>1, <1>5, <1>b, Chain DEF HandsDistinct
  <2>2. \A u, v \in Workers : hand'[u] = hand'[v] /\ hand'[u] # NoFrame => u = v
    BY <1>1 DEF HandsDistinct
  <2> QED BY <2>1, <2>2 DEF HandsDistinct
<1>8. SubmitDistinct'
  <2>1. spc = "push" => Count # NoFrame
    BY Chain DEF OwnedInFlight
  <2> QED BY <2>1, <1>0, <1>1, <1>b DEF SubmitDistinct, h
<1>9. OwnedInFlight'
  BY <1>0, <1>1, <1>b DEF OwnedInFlight, h
<1>10. InFlightOwned'
  <2> SUFFICES ASSUME NEW f \in Frames, outcome[f] = "inflight"
               PROVE  \/ \E r \in Stages : \E i \in DOMAIN queue'[r] : queue'[r][i] = f
                      \/ \E v \in Workers : hand'[v] = f
                      \/ spc = "push" /\ f = Count
    BY <1>0 DEF InFlightOwned
  <2>1. CASE spc = "push" /\ f = Count
    BY <2>1
  <2>2. ASSUME NEW v \in Workers, hand[v] = f
        PROVE  hand'[v] = f \/ \E i \in DOMAIN queue'[s] : queue'[s][i] = f
    BY <2>2, <1>1, <1>4 DEF h
  <2>3. ASSUME NEW r \in Stages, NEW i \in DOMAIN queue[r], queue[r][i] = f
        PROVE  \E j \in DOMAIN queue'[r] : queue'[r][j] = f
    BY <2>3, <1>2, <1>4
  <2> QED BY <2>1, <2>2, <2>3 DEF InFlightOwned
<1> QED BY <1>0, <1>6, <1>7, <1>8, <1>9, <1>10

-----------------------------------------------------------------------------
(* The steps, action by action                                              *)

\* While a worker is in its loop, the pipeline runs or Stop waits for the worker.
LEMMA WorkerRuns ==
    ASSUME Inv, NEW w \in Workers, wpc[w] # "none", UNCHANGED callVars
    PROVE  Lifecycle' /\ Left'
<1>1. running \/ cpc = "request"
  BY DEF Inv, Lifecycle
<1> QED BY <1>1 DEF Inv, Lifecycle, Left, callVars

\* Threads are made when the previous ones are gone, or none are when a hook fails.
LEMMA StartInv ==
    ASSUME Inv, Start
    PROVE  Inv'
<1> USE DEF Inv, Start, pipeVars
<1>1. TypeOK'
  BY PipelineAssumption DEF TypeOK
<1>2. Placed' /\ Numbered'
  BY StayPlaced
<1>3. Busy'
  BY Chain DEF Busy, Lifecycle
<1>4. Lifecycle' /\ Left'
  BY DEF Lifecycle, Left, TypeOK
<1> QED BY <1>1, <1>2, <1>3, <1>4

\* A submitted frame has the next number.
LEMMA SubmitCallInv ==
    ASSUME Inv, SubmitCall
    PROVE  Inv'
<1> USE DEF Inv, SubmitCall, workerVars, callVars
<1> DEFINE f == Count + 1
<1>1. Count \in 0 .. MaxFrames /\ Submitted = 1 .. Count
  BY Counted
<1>2. f \in Frames /\ Count < MaxFrames
  BY <1>1, PipelineAssumption DEF Frames
<1>3. outcome' = [outcome EXCEPT ![f] = "inflight"]
  BY DEF Settle, Count
<1>4. outcome[f] = "new"
  BY <1>1, <1>2 DEF Submitted
<1>5. outcome'[f] = "inflight" /\ \A g \in Frames : g # f => outcome'[g] = outcome[g]
  BY <1>2, <1>3 DEF TypeOK
<1>6. Submitted' = 1 .. f
  <2>1. Submitted' = Submitted \cup {f}
    BY <1>2, <1>5 DEF Submitted
  <2> QED BY <2>1, <1>1
<1>7. Numbered'
  BY <1>1, <1>2, <1>6, PipelineAssumption DEF Numbered
<1>8. Count' = f
  <2>1. Cardinality(1 .. f) = f
    BY <1>1, FS_Interval
  <2> QED BY <2>1, <1>6 DEF Count
<1> HIDE DEF f
<1>9. TypeOK'
  BY <1>2, <1>3 DEF TypeOK, Outcomes
<1>10. /\ \A s \in Stages : \A i \in DOMAIN queue[s] : queue[s][i] \in Frames /\ queue[s][i] # f
       /\ \A w \in Workers : hand[w] # f /\ hand[w] \in Frames \cup {NoFrame}
  BY <1>2, <1>4, Chain DEF Placed, OwnedInFlight, TypeOK
<1>11. SlotsDistinct' /\ HandsDistinct' /\ SubmitDistinct'
  BY <1>8, <1>10 DEF Placed, SlotsDistinct, HandsDistinct, SubmitDistinct
<1>12. OwnedInFlight'
  BY <1>2, <1>5, <1>8, <1>10 DEF Placed, OwnedInFlight
<1>13. InFlightOwned'
  BY <1>5, <1>8 DEF Placed, InFlightOwned
<1>14. Busy' /\ Lifecycle' /\ Left'
  BY DEF Busy, Lifecycle, Left
<1> QED BY <1>7, <1>9, <1>11, <1>12, <1>13, <1>14 DEF Placed

\* The frame that is pushed had no other place.
LEMMA SubmitPushInv ==
    ASSUME Inv, SubmitPush
    PROVE  Inv'
<1> USE DEF Inv, SubmitPush, workerVars, callVars
<1> DEFINE n == Len(queue[1]) + 1
<1>0. Count' = Count /\ Numbered' /\ queue' = [queue EXCEPT ![1] = Append(queue[1], Count)]
  BY DEF Count, Submitted, Numbered
<1>1. Count \in Frames /\ 1 \in Stages /\ outcome[Count] = "inflight"
  BY Chain DEF Placed, OwnedInFlight
<1>2. /\ \A r \in Stages : r # 1 => queue'[r] = queue[r]
      /\ \A i \in DOMAIN queue'[1] : \/ i \in DOMAIN queue[1] /\ queue'[1][i] = queue[1][i]
                                     \/ i = n /\ queue'[1][i] = Count
  BY <1>0, <1>1, Pushed, Zenon
<1>3. /\ \A i \in DOMAIN queue[1] : i \in DOMAIN queue'[1] /\ queue'[1][i] = queue[1][i]
      /\ n \in DOMAIN queue'[1] /\ queue'[1][n] = Count
  BY <1>0, <1>1, Pushed, Zenon
<1>4. queue' \in [Stages -> Seq(Frames)] /\ \A r \in Stages : Len(queue'[r]) <= Capacity[r]
  BY <1>0, <1>1, Pushed, Zenon
<1> HIDE DEF n
<1>5. TypeOK'
  BY <1>4 DEF TypeOK
<1>b. \A r \in Stages : \A i \in DOMAIN queue'[r] :
         \/ i \in DOMAIN queue[r] /\ queue'[r][i] = queue[r][i]
         \/ r = 1 /\ i = n /\ queue'[r][i] = Count
  BY <1>2
<1> HIDE DEF SubmitPush
<1>c. spc = "push" /\ spc' = "idle" /\ UNCHANGED <<hand, outcome, wpc, running, cpc, inStop, scanned>>
  BY DEF SubmitPush
<1>6. SlotsDistinct'
  BY <1>b, <1>c DEF Placed, SlotsDistinct, SubmitDistinct
<1>7. HandsDistinct'
  BY <1>b, <1>c DEF Placed, HandsDistinct, SubmitDistinct
<1>8. SubmitDistinct' /\ OwnedInFlight'
  BY <1>b, <1>c, <1>1 DEF Placed, SubmitDistinct, OwnedInFlight
<1>9. InFlightOwned'
  <2> SUFFICES ASSUME NEW f \in Frames, outcome[f] = "inflight"
               PROVE  \/ \E r \in Stages : \E i \in DOMAIN queue'[r] : queue'[r][i] = f
                      \/ \E v \in Workers : hand[v] = f
    BY <1>c DEF InFlightOwned
  <2>1. CASE f = Count
    BY <2>1, <1>1, <1>3
  <2>2. ASSUME NEW r \in Stages, NEW i \in DOMAIN queue[r], queue[r][i] = f
        PROVE  \E j \in DOMAIN queue'[r] : queue'[r][j] = f
    BY <2>2, <1>2, <1>3
  <2> QED BY <2>1, <2>2 DEF Placed, InFlightOwned
<1>10. Busy' /\ Lifecycle'
  BY <1>c DEF Busy, Lifecycle
<1>11. Left'
  BY <1>0, <1>b, <1>c DEF Left
<1> QED BY <1>0, <1>5, <1>6, <1>7, <1>8, <1>9, <1>10, <1>11 DEF Placed

\* The predicate of the wait holds; nothing moves yet.
LEMMA PopReadyInv ==
    ASSUME Inv, NEW w \in Workers, PopReady(w)
    PROVE  Inv'
<1> USE DEF Inv, PopReady, GoTo, pipeVars, callVars
<1>0. StageOf[w] \in Stages /\ wpc[w] # "none" /\ UNCHANGED callVars
  BY PipelineAssumption
<1>1. TypeOK'
  BY DEF TypeOK
<1>2. Placed' /\ Numbered'
  BY StayPlaced
<1>3. Busy'
  BY Chain DEF Busy, TypeOK
<1>4. Lifecycle' /\ Left'
  BY <1>0, WorkerRuns
<1> QED BY <1>1, <1>2, <1>3, <1>4

\* The worker leaves without a frame.
LEMMA PopStoppedInv ==
    ASSUME Inv, NEW w \in Workers, PopStopped(w)
    PROVE  Inv'
<1> USE DEF Inv, PopStopped, GoTo, pipeVars, callVars
<1>0. StageOf[w] \in Stages /\ wpc[w] # "none" /\ UNCHANGED callVars
  BY PipelineAssumption
<1>1. TypeOK'
  BY DEF TypeOK
<1>2. Placed' /\ Numbered'
  BY StayPlaced
<1>3. Busy'
  BY Chain DEF Busy, TypeOK
<1>4. Lifecycle' /\ Left'
  BY <1>0, WorkerRuns
<1> QED BY <1>1, <1>2, <1>3, <1>4

\* The oldest frame of the queue goes to the worker, or there is none any more.
LEMMA PopTakeInv ==
    ASSUME Inv, NEW w \in Workers, PopTake(w)
    PROVE  Inv'
<1> USE DEF Inv, PopTake, GoTo, callVars
<1>0. StageOf[w] \in Stages /\ wpc[w] # "none" /\ UNCHANGED callVars
  BY PipelineAssumption
<1>1. TypeOK'
  <2>1. CASE queue[StageOf[w]] = <<>>
    BY <2>1 DEF TypeOK
  <2>2. CASE queue[StageOf[w]] # <<>>
    <3>1. queue' = [queue EXCEPT ![StageOf[w]] = Tail(queue[StageOf[w]])]
      BY <2>2
    <3>2. /\ queue' \in [Stages -> Seq(Frames)] /\ Head(queue[StageOf[w]]) \in Frames
          /\ \A r \in Stages : Len(queue'[r]) <= Len(queue[r])
      BY <2>2, <3>1, <1>0, Popped, ZenonT(60)
    <3>3. \A r \in Stages : Len(queue'[r]) <= Capacity[r]
      <4>1. \A r \in Stages : Len(queue'[r]) \in Nat /\ Len(queue[r]) \in Nat /\ Len(queue[r]) <= Capacity[r] /\ Capacity[r] \in Nat
        BY <3>2, PipelineAssumption DEF TypeOK
      <4> QED BY <3>2, <4>1
    <3> QED BY <2>2, <3>2, <3>3, ZenonT(60) DEF TypeOK
  <2> QED BY <2>1, <2>2
<1>2. Placed' /\ Numbered'
  <2>1. CASE queue[StageOf[w]] = <<>>
    BY <2>1, StayPlaced
  <2>2. CASE queue[StageOf[w]] # <<>>
    <3>1. hand[w] = NoFrame
      BY DEF Busy
    <3> QED BY <2>2, <3>1, <1>0, TakePlaced
  <2> QED BY <2>1, <2>2
<1>3. Busy'
  <2>1. CASE queue[StageOf[w]] = <<>>
    BY <2>1, Chain DEF Busy, TypeOK
  <2>2. CASE queue[StageOf[w]] # <<>>
    <3>1. Head(queue[StageOf[w]]) \in Frames
      BY <2>2, <1>0 DEF TypeOK
    <3> QED BY <2>2, <3>1, Chain DEF Busy, TypeOK
  <2> QED BY <2>1, <2>2
<1>4. Lifecycle' /\ Left'
  BY <1>0, WorkerRuns
<1> QED BY <1>1, <1>2, <1>3, <1>4

\* A stage keeps its frame or, when it fails, gives it up.
LEMMA ProcessInv ==
    ASSUME Inv, NEW w \in Workers, Process(w)
    PROVE  Inv'
<1> USE DEF Inv, Process, GoTo, callVars
<1>0. StageOf[w] \in Stages /\ wpc[w] # "none" /\ UNCHANGED callVars
  BY PipelineAssumption
<1>a. hand[w] \in Frames /\ hand[w] # NoFrame
  BY DEF Busy, TypeOK
<1>1. TypeOK'
  BY <1>a DEF TypeOK, Fails, Settle, Outcomes
<1>2. Placed' /\ Numbered'
  <2>1. CASE UNCHANGED <<hand, outcome>>
    BY <2>1, StayPlaced
  <2>2. CASE Fails(w)
    BY <2>2, <1>a, DropPlaced DEF Fails, Outcomes
  <2> QED BY <2>1, <2>2
<1>3. Busy'
  BY <1>a, Chain DEF Busy, TypeOK, Fails
<1>4. Lifecycle' /\ Left'
  BY <1>0, WorkerRuns
<1> QED BY <1>1, <1>2, <1>3, <1>4

\* So does Export, which takes the snapshot in any case.
LEMMA ProcessExportInv ==
    ASSUME Inv, NEW w \in Workers, ProcessExport(w)
    PROVE  Inv'
<1> USE DEF Inv, ProcessExport, GoTo, callVars
<1>0. StageOf[w] \in Stages /\ wpc[w] # "none" /\ UNCHANGED callVars
  BY PipelineAssumption
<1>a. hand[w] \in Frames /\ hand[w] # NoFrame
  BY DEF Busy, TypeOK
<1>1. TypeOK'
  BY <1>a DEF TypeOK, Fails, Settle, Outcomes
<1>2. Placed' /\ Numbered'
  <2>1. CASE UNCHANGED <<hand, outcome>>
    BY <2>1, StayPlaced
  <2>2. CASE Fails(w)
    BY <2>2, <1>a, DropPlaced DEF Fails, Outcomes
  <2> QED BY <2>1, <2>2
<1>3. Busy'
  BY <1>a, Chain DEF Busy, TypeOK, Fails
<1>4. Lifecycle' /\ Left'
  BY <1>0, WorkerRuns
<1> QED BY <1>1, <1>2, <1>3, <1>4

\* The scores are taken for the same frame.
LEMMA ProcessHeatmapInv ==
    ASSUME Inv, NEW w \in Workers, ProcessHeatmap(w)
    PROVE  Inv'
<1> USE DEF Inv, ProcessHeatmap, GoTo, callVars
<1>0. StageOf[w] \in Stages /\ wpc[w] # "none" /\ UNCHANGED callVars
  BY PipelineAssumption
<1>1. TypeOK'
  BY DEF TypeOK
<1>2. Placed' /\ Numbered'
  BY StayPlaced
<1>3. Busy'
  BY Chain DEF Busy, TypeOK
<1>4. Lifecycle' /\ Left'
  BY <1>0, WorkerRuns
<1> QED BY <1>1, <1>2, <1>3, <1>4

\* The side channels and the callback get the worker's frame, which stays with it.
LEMMA PublishInv ==
    ASSUME Inv, NEW w \in Workers, Publish(w)
    PROVE  Inv'
<1> USE DEF Inv, Publish, GoTo, callVars
<1>0. StageOf[w] \in Stages /\ wpc[w] # "none" /\ UNCHANGED callVars
  BY PipelineAssumption
<1>a. hand[w] \in Frames /\ hand[w] # NoFrame
  BY DEF Busy, TypeOK
<1>1. TypeOK'
  <2>1. image' \in Frames \cup {NoFrame} /\ anomaly' \in Frames \cup {NoFrame}
    BY <1>a DEF TypeOK, PublishImage, PublishScores
  <2>2. /\ frameCounter' \in Nat
        /\ exports' \in Seq([frame : Frames, image : Frames \cup {NoFrame},
                             anomaly : Frames \cup {NoFrame}, id : Nat])
    <3>1. taken[w] \in [image : Frames \cup {NoFrame}, anomaly : Frames \cup {NoFrame}]
      BY DEF TypeOK
    <3> DEFINE T == [frame : Frames, image : Frames \cup {NoFrame}, anomaly : Frames \cup {NoFrame}, id : Nat]
               e == [frame |-> hand[w], image |-> taken[w].image, anomaly |-> taken[w].anomaly, id |-> frameCounter]
    <3>2. e \in T /\ exports \in Seq(T) /\ frameCounter \in Nat
      BY <1>a, <3>1 DEF TypeOK
    <3>3. \/ UNCHANGED <<frameCounter, exports>>
          \/ frameCounter' = frameCounter + 1 /\ exports' = Append(exports, e)
      BY DEF PublishResult
    <3> HIDE DEF e, T
    <3>4. exports' \in Seq(T) /\ frameCounter' \in Nat
      BY <3>2, <3>3, SMTT(60)
    <3> QED BY <3>4 DEF T
  <2>3. wpc' \in [Workers -> {"none", "pop", "take", "process", "heatmap", "publish", "push", "exited"}]
    BY DEF TypeOK
  <2> QED BY <2>1, <2>2, <2>3 DEF TypeOK
<1>2. Placed' /\ Numbered'
  BY StayPlaced
<1>3. Busy'
  BY Chain DEF Busy, TypeOK
<1>4. Lifecycle' /\ Left'
  BY <1>0, WorkerRuns
<1> QED BY <1>1, <1>2, <1>3, <1>4

\* The frame moves to the next queue.
LEMMA PushNextInv ==
    ASSUME Inv, NEW w \in Workers, PushNext(w)
    PROVE  Inv'
<1> USE DEF Inv, PushNext, GoTo, callVars
<1>0. StageOf[w] \in Stages /\ wpc[w] # "none" /\ UNCHANGED callVars
  BY PipelineAssumption
<1>a. hand[w] \in Frames /\ hand[w] # NoFrame
  BY DEF Busy, TypeOK
<1>b. StageOf[w] + 1 \in Stages
  BY <1>0, Chain
<1>1. TypeOK'
  <2>1. queue' \in [Stages -> Seq(Frames)] /\ \A r \in Stages : Len(queue'[r]) <= Capacity[r]
    BY <1>a, <1>b, Pushed
  <2> QED BY <2>1 DEF TypeOK
<1>2. Placed' /\ Numbered'
  BY <1>a, <1>b, PassPlaced
<1>3. Busy'
  BY <1>a, Chain DEF Busy, TypeOK
<1>4. Lifecycle' /\ Left'
  BY <1>0, WorkerRuns
<1> QED BY <1>1, <1>2, <1>3, <1>4

\* A full queue and a stop: the output is given up.
LEMMA PushStoppedInv ==
    ASSUME Inv, NEW w \in Workers, PushStopped(w)
    PROVE  Inv'
<1> USE DEF Inv, PushStopped, GoTo, callVars
<1>0. StageOf[w] \in Stages /\ wpc[w] # "none" /\ UNCHANGED callVars
  BY PipelineAssumption
<1>a. hand[w] \in Frames /\ hand[w] # NoFrame
  BY DEF Busy, TypeOK
<1>1. TypeOK'
  BY <1>a DEF TypeOK, Settle, Outcomes
<1>2. Placed' /\ Numbered'
  BY <1>a, DropPlaced DEF Outcomes
<1>3. Busy'
  BY <1>a, Chain DEF Busy, TypeOK
<1>4. Lifecycle' /\ Left'
  BY <1>0, WorkerRuns
<1> QED BY <1>1, <1>2, <1>3, <1>4

\* Behind Export there is nothing.
LEMMA PushTerminalInv ==
    ASSUME Inv, NEW w \in Workers, PushTerminal(w)
    PROVE  Inv'
<1> USE DEF Inv, PushTerminal, GoTo, callVars
<1>0. StageOf[w] \in Stages /\ wpc[w] # "none" /\ UNCHANGED callVars
  BY PipelineAssumption
<1>a. hand[w] \in Frames /\ hand[w] # NoFrame
  BY DEF Busy, TypeOK
<1>1. TypeOK'
  BY <1>a DEF TypeOK, Settle, Outcomes
<1>2. Placed' /\ Numbered'
  BY <1>a, DropPlaced DEF Outcomes
<1>3. Busy'
  BY <1>a, Chain DEF Busy, TypeOK
<1>4. Lifecycle' /\ Left'
  BY <1>0, WorkerRuns
<1> QED BY <1>1, <1>2, <1>3, <1>4

\* An application's Drain begins with no queue scanned.
LEMMA DrainCallInv ==
    ASSUME Inv, DrainCall
    PROVE  Inv'
<1> USE DEF Inv, DrainCall, pipeVars, workerVars
<1>1. TypeOK'
  BY Chain DEF TypeOK
<1>2. Placed' /\ Numbered' /\ Count' = Count
  BY StayPlaced
<1>3. Busy'
  BY DEF Busy, Lifecycle
<1>4. Lifecycle'
  BY DEF Lifecycle, TypeOK
<1>5. Left'
  BY <1>2 DEF Left, Lifecycle, TypeOK
<1> QED BY <1>1, <1>2, <1>3, <1>4, <1>5

\* A look at one queue.
LEMMA DrainPollInv ==
    ASSUME Inv, NEW s \in Stages, DrainPoll(s)
    PROVE  Inv'
<1> USE DEF Inv, DrainPoll, pipeVars, workerVars
<1>1. TypeOK'
  BY Chain DEF TypeOK
<1>2. Placed' /\ Numbered' /\ Count' = Count
  BY StayPlaced
<1>3. Busy'
  BY DEF Busy, Lifecycle
<1>4. Lifecycle'
  BY DEF Lifecycle, TypeOK
<1>5. Left'
  BY <1>2 DEF Left, Lifecycle, TypeOK
<1> QED BY <1>1, <1>2, <1>3, <1>4, <1>5

\* The look is over; the forced drain begins with no queue scanned.
LEMMA DrainPollEndInv ==
    ASSUME Inv, DrainPollEnd
    PROVE  Inv'
<1> USE DEF Inv, DrainPollEnd, pipeVars, workerVars
<1>1. TypeOK'
  BY Chain DEF TypeOK
<1>2. Placed' /\ Numbered' /\ Count' = Count
  BY StayPlaced
<1>3. Busy'
  BY DEF Busy, Lifecycle
<1>4. Lifecycle'
  BY DEF Lifecycle, TypeOK
<1>5. Left'
  BY <1>2 DEF Left, Lifecycle, TypeOK
<1> QED BY <1>1, <1>2, <1>3, <1>4, <1>5

\* A frame that is drained has no place any more.
LEMMA DrainForceInv ==
    ASSUME Inv, NEW s \in Stages, DrainForce(s)
    PROVE  Inv'
<1> USE DEF Inv
<1>0. /\ cpc = "force" /\ s \notin scanned
      /\ UNCHANGED <<image, anomaly, frameCounter, exports, wpc, hand, stop, taken, running, cpc, inStop, starts, spc>>
  BY DEF DrainForce, workerVars
<1>1. CASE queue[s] = <<>> /\ scanned' = scanned \cup {s} /\ UNCHANGED <<queue, outcome>>
  <2>1. TypeOK' /\ Busy' /\ Lifecycle'
    BY <1>0, <1>1 DEF TypeOK, Busy, Lifecycle
  <2>2. Placed' /\ Numbered' /\ Count' = Count
    BY <1>0, <1>1, StayPlaced
  <2>3. Left'
    <3>1. DOMAIN queue[s] = {}
      BY <1>1
    <3> QED BY <3>1, <2>2, <1>0, <1>1 DEF Left
  <2> QED BY <2>1, <2>2, <2>3
<1>2. CASE /\ queue[s] # <<>> /\ queue' = [queue EXCEPT ![s] = Tail(queue[s])]
           /\ Settle(Head(queue[s]), "drained") /\ UNCHANGED scanned
  <2> DEFINE h == queue[s][1]
  <2>1. /\ queue' \in [Stages -> Seq(Frames)] /\ \A r \in Stages : Len(queue'[r]) <= Len(queue[r])
        /\ 1 \in DOMAIN queue[s] /\ Head(queue[s]) = h /\ h \in Frames
        /\ \A r \in Stages : r # s => queue'[r] = queue[r]
    BY <1>2, Popped
  <2>2. \A i \in DOMAIN queue'[s] : i + 1 \in DOMAIN queue[s] /\ queue'[s][i] = queue[s][i + 1]
    BY <1>2, Popped
  <2>3. \A i \in DOMAIN queue[s] : i = 1 \/ (i - 1 \in DOMAIN queue'[s] /\ queue'[s][i - 1] = queue[s][i])
    BY <1>2, Popped, Zenon
  <2>4. DOMAIN queue'[s] \subseteq Nat \ {0}
    <3>1. queue'[s] \in Seq(Frames)
      BY <2>1
    <3> QED BY <3>1
  <2>5. outcome[h] = "inflight"
    BY <2>1 DEF Placed, OwnedInFlight
  <2>6. /\ Submitted' = Submitted /\ Count' = Count
        /\ outcome'[h] = "drained" /\ \A g \in Frames : g # h => outcome'[g] = outcome[g]
    BY <1>2, <2>1, <2>5, SettleKeepsCount DEF Outcomes
  <2>7. /\ \A r \in Stages : \A i \in DOMAIN queue'[r] : queue'[r][i] # h /\ queue'[r][i] \in Frames
        /\ \A w \in Workers : hand[w] # h /\ hand[w] \in Frames \cup {NoFrame}
        /\ spc = "push" => Count # h
    <3>1. \A r \in Stages : \A i \in DOMAIN queue'[r] : queue'[r][i] # h
      BY <2>1, <2>2, <2>4 DEF Placed, SlotsDistinct
    <3>2. \A r \in Stages : \A i \in DOMAIN queue'[r] : queue'[r][i] \in Frames
      BY <2>1
    <3>3. \A w \in Workers : hand[w] # h /\ hand[w] \in Frames \cup {NoFrame}
      BY <2>1 DEF Placed, HandsDistinct, TypeOK
    <3>4. spc = "push" => Count # h
      BY <2>1 DEF Placed, SubmitDistinct
    <3> QED BY <3>1, <3>2, <3>3, <3>4
  <2> HIDE DEF h
  <2>8. \A r \in Stages : \A i \in DOMAIN queue'[r] : \E j \in DOMAIN queue[r] : queue'[r][i] = queue[r][j]
    BY <2>1, <2>2
  <2>9. TypeOK'
    <3>1. \A r \in Stages : Len(queue'[r]) <= Capacity[r]
      <4>1. \A r \in Stages : Len(queue'[r]) \in Nat /\ Len(queue[r]) \in Nat /\ Len(queue[r]) <= Capacity[r] /\ Capacity[r] \in Nat
        BY <2>1, PipelineAssumption DEF TypeOK
      <4> QED BY <2>1, <4>1
    <3>2. outcome' \in [Frames -> Outcomes]
      BY <1>2 DEF TypeOK, Settle, Outcomes
    <3> QED BY <3>1, <3>2, <2>1, <1>0, <1>2 DEF TypeOK
  <2>10. SlotsDistinct'
    <3> SUFFICES ASSUME NEW r \in Stages, NEW u \in Stages, NEW i \in DOMAIN queue'[r], NEW j \in DOMAIN queue'[u],
                        queue'[r][i] = queue'[u][j]
                 PROVE  r = u /\ i = j
      BY DEF SlotsDistinct
    <3>1. r = u
      BY <2>8 DEF Placed, SlotsDistinct
    <3>2. CASE r = s
      BY <3>1, <3>2, <2>2, <2>4 DEF Placed, SlotsDistinct
    <3>3. CASE r # s
      BY <3>1, <3>3, <2>1 DEF Placed, SlotsDistinct
    <3> QED BY <3>1, <3>2, <3>3
  <2>11. HandsDistinct'
    BY <1>0, <2>8 DEF Placed, HandsDistinct
  <2>12. SubmitDistinct' /\ OwnedInFlight'
    BY <1>0, <2>6, <2>7, <2>8 DEF Placed, SubmitDistinct, OwnedInFlight
  <2>13. InFlightOwned'
    <3> SUFFICES ASSUME NEW f \in Frames, outcome'[f] = "inflight"
                 PROVE  \/ \E r \in Stages : \E i \in DOMAIN queue'[r] : queue'[r][i] = f
                        \/ \E v \in Workers : hand[v] = f
                        \/ spc = "push" /\ f = Count
      BY <1>0, <2>6 DEF InFlightOwned
    <3>1. f # h /\ outcome[f] = "inflight"
      BY <2>6
    <3>2. ASSUME NEW r \in Stages, NEW i \in DOMAIN queue[r], queue[r][i] = f
          PROVE  \E j \in DOMAIN queue'[r] : queue'[r][j] = f
      <4>1. CASE r = s
        BY <3>1, <3>2, <4>1, <2>3 DEF h
      <4>2. CASE r # s
        BY <3>2, <4>2, <2>1
      <4> QED BY <4>1, <4>2
    <3> QED BY <3>1, <3>2 DEF Placed, InFlightOwned
  <2>14. Numbered' /\ Busy' /\ Lifecycle'
    BY <1>0, <2>6 DEF Numbered, Busy, Lifecycle
  <2>15. Left'
    BY <1>0, <1>2, <2>6, <2>8 DEF Left
  <2> QED BY <2>9, <2>10, <2>11, <2>12, <2>13, <2>14, <2>15 DEF Placed
<1> QED BY <1>1, <1>2 DEF DrainForce

\* After Stop's Drain every queue has been dealt with.
LEMMA DrainReturnInv ==
    ASSUME Inv, DrainReturn
    PROVE  Inv'
<1> USE DEF Inv, DrainReturn, pipeVars, workerVars
<1>1. TypeOK'
  BY Chain DEF TypeOK
<1>2. Placed' /\ Numbered' /\ Count' = Count
  BY StayPlaced
<1>3. Busy'
  BY DEF Busy, Lifecycle
<1>4. Lifecycle'
  BY DEF Lifecycle, TypeOK
<1>5. Left'
  BY <1>2 DEF Left, Lifecycle, TypeOK
<1> QED BY <1>1, <1>2, <1>3, <1>4, <1>5

\* The pipeline does not run any more; its threads still do.
LEMMA StopCallInv ==
    ASSUME Inv, StopCall
    PROVE  Inv'
<1> USE DEF Inv, StopCall, pipeVars, workerVars
<1>1. TypeOK'
  BY Chain DEF TypeOK
<1>2. Placed' /\ Numbered' /\ Count' = Count
  BY StayPlaced
<1>3. Busy'
  BY DEF Busy, Lifecycle
<1>4. Lifecycle'
  BY DEF Lifecycle, TypeOK
<1>5. Left'
  BY <1>2 DEF Left, Lifecycle, TypeOK
<1> QED BY <1>1, <1>2, <1>3, <1>4, <1>5

\* A worker is asked to stop.
LEMMA StopRequestInv ==
    ASSUME Inv, NEW w \in Workers, StopRequest(w)
    PROVE  Inv'
<1> USE DEF Inv, StopRequest, pipeVars, callVars
<1>1. TypeOK'
  BY Chain DEF TypeOK
<1>2. Placed' /\ Numbered' /\ Count' = Count
  BY StayPlaced
<1>3. Busy'
  BY DEF Busy, Lifecycle
<1>4. Lifecycle'
  BY DEF Lifecycle, TypeOK
<1>5. Left'
  BY <1>2 DEF Left, Lifecycle, TypeOK
<1> QED BY <1>1, <1>2, <1>3, <1>4, <1>5

\* The workers are gone, with no frame in hand; Stop's Drain begins.
LEMMA StopJoinInv ==
    ASSUME Inv, StopJoin
    PROVE  Inv'
<1> USE DEF Inv, StopJoin, pipeVars
<1>1. TypeOK'
  BY Chain DEF TypeOK
<1>2. Placed' /\ Numbered' /\ Count' = Count
  BY StayPlaced
<1>3. Busy'
  BY Chain DEF Busy, Lifecycle
<1>4. Lifecycle'
  BY DEF Lifecycle, TypeOK
<1>5. Left'
  BY <1>2 DEF Left, Lifecycle, TypeOK
<1> QED BY <1>1, <1>2, <1>3, <1>4, <1>5

\* Every step of the workers and of the callers keeps the invariant.
LEMMA InvStep == Inv /\ [Next]_vars => Inv'
<1> SUFFICES ASSUME Inv, [Next]_vars PROVE Inv'
  OBVIOUS
<1>1. CASE UNCHANGED vars
  <2> USE <1>1 DEF vars, pipeVars, workerVars, callVars, Inv
  <2>1. Placed' /\ Numbered' /\ Count' = Count
    BY StayPlaced
  <2>2. TypeOK'
    BY DEF TypeOK
  <2>3. Busy' /\ Lifecycle' /\ Left'
    BY <2>1 DEF Busy, Lifecycle, Left
  <2> QED BY <2>1, <2>2, <2>3
<1>2. CASE Start \/ SubmitCall \/ SubmitPush \/ DrainCall \/ StopCall
  BY <1>2, StartInv, SubmitCallInv, SubmitPushInv, DrainCallInv, StopCallInv, Zenon
<1>3. CASE DrainStep
  BY <1>3, DrainPollEndInv, DrainReturnInv, DrainPollInv, DrainForceInv, Zenon DEF DrainStep
<1>4. CASE StopStep
  BY <1>4, StopJoinInv, StopRequestInv, Zenon DEF StopStep
<1>5. ASSUME NEW w \in Workers, Work(w) PROVE Inv'
  BY <1>5, PopReadyInv, PopStoppedInv, PopTakeInv, ProcessInv, ProcessExportInv, ProcessHeatmapInv,
     PublishInv, PushNextInv, PushStoppedInv, PushTerminalInv, Zenon DEF Work
<1> QED BY <1>1, <1>2, <1>3, <1>4, <1>5, Zenon DEF Next

\* Nothing is submitted yet.
LEMMA InvInit == Init => Inv
<1> SUFFICES ASSUME Init PROVE Inv
  OBVIOUS
<1> USE DEF Init
<1>1. Submitted = {} /\ Submitted = 1 .. 0
  BY DEF Submitted
<1>2. TypeOK
  <2>1. \A s \in Stages : Len(queue[s]) = 0 /\ Capacity[s] \in Nat
    BY PipelineAssumption
  <2>2. MaxStarts \in Nat /\ queue \in [Stages -> Seq(Frames)] /\ exports = <<>>
    BY PipelineAssumption
  <2>3. \A S : <<>> \in Seq(S)
    OBVIOUS
  <2>4. \A s \in Stages : Len(queue[s]) <= Capacity[s]
    BY <2>1
  <2>5. taken \in [Workers -> [image : Frames \cup {NoFrame}, anomaly : Frames \cup {NoFrame}]]
    OBVIOUS
  <2>6. hand \in [Workers -> Frames \cup {NoFrame}] /\ outcome \in [Frames -> Outcomes]
    BY DEF Outcomes
  <2>7. starts \in 0 .. MaxStarts /\ frameCounter \in Nat
    BY <2>2
  <2> QED BY <2>2, <2>3, <2>4, <2>5, <2>6, <2>7 DEF TypeOK
<1>3. Numbered
  <2>1. 0 \in 0 .. MaxFrames
    BY PipelineAssumption
  <2> QED BY <1>1, <2>1 DEF Numbered
<1>4. \A s \in Stages : DOMAIN queue[s] = {}
  OBVIOUS
<1>5. Placed
  BY <1>4 DEF Placed, SlotsDistinct, HandsDistinct, SubmitDistinct, OwnedInFlight, InFlightOwned
<1>6. Busy /\ Lifecycle /\ Left
  BY <1>4 DEF Busy, Lifecycle, Left
<1> QED BY <1>2, <1>3, <1>5, <1>6 DEF Inv

\* The invariant holds in every state of the pipeline.
LEMMA InvAlways == Spec => []Inv
  BY InvInit, InvStep, PTL DEF Spec

-----------------------------------------------------------------------------
(* What holds for any chain and any number of threads                       *)

\* What holds of places one by one, counted: one owner in flight, else none.
LEMMA OwnersCounted ==
    ASSUME Inv
    PROVE  OneOwner
<1> SUFFICES ASSUME NEW f \in Frames
             PROVE  Owners(f) = IF outcome[f] = "inflight" THEN 1 ELSE 0
  BY DEF OneOwner
<1> DEFINE S == {p \in Slots : queue[p[1]][p[2]] = f}
           H == {w \in Workers : hand[w] = f}
           N == IF spc = "push" /\ f = Count THEN 1 ELSE 0
<1>1. Owners(f) = Cardinality(S) + Cardinality(H) + N
  BY DEF Owners, Count
<1>2. \A p : p \in S <=> \E s \in Stages : \E i \in DOMAIN queue[s] : p = <<s, i>> /\ queue[s][i] = f
  BY DEF Slots
<1>3. \A w : w \in H <=> w \in Workers /\ hand[w] = f
  OBVIOUS
<1>4. f # NoFrame
  BY Chain
<1> HIDE DEF S, H
<1>5. CASE \E s \in Stages : \E i \in DOMAIN queue[s] : queue[s][i] = f
  <2>0. PICK s \in Stages : \E i \in DOMAIN queue[s] : queue[s][i] = f
    BY <1>5
  <2>1. PICK i \in DOMAIN queue[s] : queue[s][i] = f
    BY <2>0
  <2>2. S = {<<s, i>>}
    BY <1>2, <2>1 DEF Inv, Placed, SlotsDistinct
  <2>3. H = {} /\ N = 0
    BY <1>3, <2>1 DEF Inv, Placed, HandsDistinct, SubmitDistinct
  <2>4. outcome[f] = "inflight"
    BY <2>1 DEF Inv, Placed, OwnedInFlight
  <2>5. Cardinality(S) = 1 /\ Cardinality(H) = 0
    BY <2>2, <2>3, FS_Singleton, FS_EmptySet
  <2> QED BY <1>1, <2>3, <2>4, <2>5
<1>6. CASE ~\E s \in Stages : \E i \in DOMAIN queue[s] : queue[s][i] = f
  <2>1. S = {}
    BY <1>2, <1>6
  <2>2. Cardinality(S) = 0
    BY <2>1, FS_EmptySet
  <2>3. CASE \E w \in Workers : hand[w] = f
    <3>1. PICK w \in Workers : hand[w] = f
      BY <2>3
    <3>2. H = {w} /\ N = 0
      BY <1>3, <1>4, <3>1 DEF Inv, Placed, HandsDistinct, SubmitDistinct
    <3>3. outcome[f] = "inflight" /\ Cardinality(H) = 1
      BY <1>4, <3>1, <3>2, FS_Singleton DEF Inv, Placed, OwnedInFlight
    <3> QED BY <1>1, <2>2, <3>2, <3>3
  <2>4. CASE ~\E w \in Workers : hand[w] = f
    <3>1. H = {}
      BY <1>3, <2>4
    <3>2. Cardinality(H) = 0
      BY <3>1, FS_EmptySet
    <3>3. outcome[f] = "inflight" <=> spc = "push" /\ f = Count
      BY <1>6, <2>4 DEF Inv, Placed, InFlightOwned, OwnedInFlight
    <3> QED BY <1>1, <2>2, <3>2, <3>3
  <2> QED BY <2>3, <2>4
<1> QED BY <1>5, <1>6

\* EnqueueOutputs, DequeueInput, Drain and Stop hand every accepted frame from one
\* owner to the next: between Submit and its end (exported, failed, drained or
\* given up at a stop) a frame is in exactly one queue slot, worker or Submit, and
\* no queue outgrows its capacity, whatever the chain, the threads and the calls.
THEOREM EveryFrameHasOneOwner == Spec => []PipelineInv
<1>1. Inv => PipelineInv
  BY OwnersCounted DEF Inv, PipelineInv
<1> QED BY <1>1, InvAlways, PTL

\* Pipeline::Stop joins the workers and drains the queues: after it has returned,
\* and until the next Start, the one frame the pipeline may hold is that of a
\* Submit which passed the running_ test before the stop.
THEOREM NothingLeftByStop == Spec => []StopLeavesOnlyTheLastSubmit
<1>1. Inv => StopLeavesOnlyTheLastSubmit
  <2> SUFFICES ASSUME Inv, ~running, cpc = "idle", NEW f \in Frames, outcome[f] = "inflight"
               PROVE  f = Count
    BY DEF StopLeavesOnlyTheLastSubmit, Count
  <2>1. ~inStop /\ \A w \in Workers : hand[w] = NoFrame
    BY DEF Inv, Lifecycle, Busy
  <2>2. \A s \in Stages : \A i \in DOMAIN queue[s] : queue[s][i] = Count
    BY <2>1 DEF Inv, Left
  <2> QED BY <2>1, <2>2, Chain DEF Inv, Placed, InFlightOwned
<1> QED BY <1>1, InvAlways, PTL

-----------------------------------------------------------------------------
(* The order of frames                                                      *)

\* Frames are compared as numbers.
LEMMA Numbers ==
    ASSUME Inv
    PROVE  /\ Count \in Nat
           /\ \A s \in Stages : /\ DOMAIN queue[s] \subseteq Nat \ {0}
                                /\ \A i \in DOMAIN queue[s] : queue[s][i] \in Frames
           /\ \A w \in Workers : StageOf[w] \in Stages /\ hand[w] \in Frames \cup {NoFrame}
           /\ Frames \subseteq Nat \ {0} /\ NoFrame = 0 /\ Stages \subseteq Nat \ {0}
           /\ image \in Frames \cup {NoFrame}
           /\ \A w \in Workers : taken[w].image \in Frames \cup {NoFrame}
           /\ exports \in Seq([frame : Frames, image : Frames \cup {NoFrame},
                               anomaly : Frames \cup {NoFrame}, id : Nat])
           /\ DOMAIN exports = 1 .. Len(exports) /\ Len(exports) \in Nat
           /\ \A i \in DOMAIN exports : exports[i].frame \in Frames /\ exports[i].image \in Frames \cup {NoFrame}
<1>1. Count \in Nat
  BY Counted, PipelineAssumption DEF Inv
<1>2. \A s \in Stages : queue[s] \in Seq(Frames)
  BY DEF Inv, TypeOK
<1>3. exports \in Seq([frame : Frames, image : Frames \cup {NoFrame},
                       anomaly : Frames \cup {NoFrame}, id : Nat])
  BY DEF Inv, TypeOK
<1>4. DOMAIN exports = 1 .. Len(exports) /\ Len(exports) \in Nat
  BY <1>3
<1>5. \A i \in DOMAIN exports : exports[i].frame \in Frames /\ exports[i].image \in Frames \cup {NoFrame}
  <2> DEFINE T == [frame : Frames, image : Frames \cup {NoFrame}, anomaly : Frames \cup {NoFrame}, id : Nat]
  <2> HIDE DEF T
  <2>1. exports \in Seq(T)
    BY <1>3 DEF T
  <2>2. \A i \in DOMAIN exports : exports[i] \in T
    BY <2>1
  <2> QED BY <2>2 DEF T
<1>6. /\ \A w \in Workers : StageOf[w] \in Stages /\ hand[w] \in Frames \cup {NoFrame}
      /\ image \in Frames \cup {NoFrame}
      /\ \A w \in Workers : taken[w].image \in Frames \cup {NoFrame}
  BY PipelineAssumption DEF Inv, TypeOK
<1> QED BY <1>1, <1>2, <1>3, <1>4, <1>5, <1>6, Chain DEF NoFrame

\* A step that moves and reports no frame.
LEMMA StayOrdered ==
    ASSUME Order, UNCHANGED <<queue, hand, spc, outcome, exports, frameCounter>>,
           \A w \in Workers : wpc[w] = "push" /\ hand[w] # NoFrame => wpc'[w] = "push"
    PROVE  Order'
<1>1. Count' = Count
  BY DEF Count, Submitted
<1>2. \A s, f : At(s, f)' <=> At(s, f)
  BY DEF At
<1>3. OlderDownstream' /\ OlderInFront' /\ NewestSubmitted'
  BY <1>1, <1>2 DEF Order, OlderDownstream, OlderInFront, NewestSubmitted
<1>4. ReportedOlder'
  BY <1>1 DEF Order, ReportedOlder, IsA
<1>5. ExportInOrder' /\ frameCounter' = Len(exports')
  BY DEF Order, ExportInOrder
<1> QED BY <1>3, <1>4, <1>5 DEF Order

\* The frame being submitted is newer than everything there is.
LEMMA SubmitCallOrdered ==
    ASSUME Inv, Order, SubmitCall
    PROVE  Order'
<1> USE DEF Order, SubmitCall, workerVars, callVars
<1>1. Count \in 0 .. MaxFrames /\ Submitted = 1 .. Count /\ Count + 1 \in Frames
  BY Counted, PipelineAssumption DEF Inv, Frames
<1>2. Count' = Count + 1
  <2>1. outcome'[Count + 1] = "inflight" /\ \A g \in Frames : g # Count + 1 => outcome'[g] = outcome[g]
    BY <1>1 DEF Inv, TypeOK, Settle, Count
  <2>2. Submitted' = Submitted \cup {Count + 1}
    BY <1>1, <2>1 DEF Submitted
  <2>3. Submitted' = 1 .. Count + 1
    BY <1>1, <2>2
  <2>4. Cardinality(1 .. Count + 1) = Count + 1
    BY <1>1, FS_Interval
  <2> QED BY <2>3, <2>4 DEF Count
<1>3. \A s, f : At(s, f)' <=> At(s, f)
  BY DEF At
<1>4. OlderDownstream' /\ OlderInFront'
  BY <1>3 DEF OlderDownstream, OlderInFront
<1>5. NewestSubmitted'
  BY <1>2, <1>3, Numbers DEF NewestSubmitted
<1>6. ReportedOlder'
  BY <1>2, Numbers, SMTT(60) DEF ReportedOlder, IsA
<1>7. ExportInOrder' /\ frameCounter' = Len(exports')
  BY DEF ExportInOrder
<1> QED BY <1>4, <1>5, <1>6, <1>7

\* It is pushed behind everything in the first queue.
LEMMA SubmitPushOrdered ==
    ASSUME Inv, Order, SubmitPush
    PROVE  Order'
<1> USE DEF Order
<1> DEFINE n == Len(queue[1]) + 1
<1>0. /\ spc = "push" /\ spc' = "idle" /\ Count \in Frames
      /\ UNCHANGED <<hand, wpc, exports, frameCounter, outcome>>
  BY DEF SubmitPush, workerVars, Inv, Placed, OwnedInFlight
<1>1. Count' = Count /\ queue' = [queue EXCEPT ![1] = Append(queue[1], Count)] /\ 1 \in Stages
      /\ Len(queue[1]) < Capacity[1]
  BY Chain DEF SubmitPush, Count, Submitted
<1>2. /\ \A r \in Stages : r # 1 => queue'[r] = queue[r]
      /\ \A i \in DOMAIN queue'[1] : \/ i \in DOMAIN queue[1] /\ queue'[1][i] = queue[1][i]
                                     \/ i = n /\ queue'[1][i] = Count
  BY <1>0, <1>1, Pushed DEF Inv
<1>3. Len(queue[1]) \in Nat /\ DOMAIN queue[1] = 1 .. Len(queue[1])
  BY <1>1 DEF Inv, TypeOK
<1>4. \A i \in DOMAIN queue[1] : i < n
  BY <1>3
<1> HIDE DEF n
<1>5. \A r \in Stages : \A i \in DOMAIN queue'[r] :
         \/ i \in DOMAIN queue[r] /\ queue'[r][i] = queue[r][i]
         \/ r = 1 /\ i = n /\ queue'[r][i] = Count
  BY <1>2
<1>6. \A r \in Stages, f \in Frames : At(r, f)' => At(r, f) \/ (r = 1 /\ f = Count)
  BY <1>0, <1>5 DEF At
<1>7. \A r \in Stages, f \in Frames : At(r, f) => f < Count
  BY <1>0 DEF NewestSubmitted
<1>8. OlderDownstream'
  BY <1>6, <1>7, Numbers DEF OlderDownstream
<1>9. OlderInFront'
  <2>1. \A i \in DOMAIN queue[1] : queue[1][i] < Count
    <3>1. \A i \in DOMAIN queue[1] : queue[1][i] \in Frames
      BY <1>1, Numbers
    <3>2. \A i \in DOMAIN queue[1] : At(1, queue[1][i])
      BY DEF At
    <3> QED BY <1>1, <1>7, <3>1, <3>2, ZenonT(30)
  <2>2. ASSUME NEW r \in Stages, NEW i \in DOMAIN queue'[r], NEW j \in DOMAIN queue'[r], i < j
        PROVE  queue'[r][i] < queue'[r][j]
    <3>1. CASE i \in DOMAIN queue[r] /\ queue'[r][i] = queue[r][i]
      <4>1. CASE j \in DOMAIN queue[r] /\ queue'[r][j] = queue[r][j]
        BY <2>2, <3>1, <4>1 DEF OlderInFront
      <4>2. CASE r = 1 /\ queue'[r][j] = Count
        BY <3>1, <4>2, <2>1
      <4> QED BY <4>1, <4>2, <1>5
    <3>2. CASE r = 1 /\ i = n
      <4>1. j \in DOMAIN queue[1] \/ j = n
        BY <3>2, <1>5
      <4> QED BY <4>1, <3>2, <2>2, <1>3, <1>4 DEF n
    <3> QED BY <3>1, <3>2, <1>5
  <2>3. \A w \in Workers : hand[w] < Count
    BY <1>0, <1>7, Numbers, SMTT(60) DEF At
  <2>4. ASSUME NEW w \in Workers, NEW i \in DOMAIN queue'[StageOf[w]]
        PROVE  hand[w] < queue'[StageOf[w]][i]
    <3>1. \/ i \in DOMAIN queue[StageOf[w]] /\ queue'[StageOf[w]][i] = queue[StageOf[w]][i]
          \/ queue'[StageOf[w]][i] = Count
      BY <1>5, Numbers
    <3> QED BY <3>1, <2>3 DEF OlderInFront
  <2> QED BY <1>0, <2>2, <2>4 DEF OlderInFront
<1>10. NewestSubmitted'
  BY <1>0, <1>1, <1>6, <1>7, Numbers DEF NewestSubmitted
<1>11. ReportedOlder'
  BY <1>0, <1>1, <1>5, Numbers, SMTT(60) DEF ReportedOlder, IsA
<1>12. ExportInOrder' /\ frameCounter' = Len(exports')
  BY <1>0 DEF ExportInOrder
<1> QED BY <1>8, <1>9, <1>10, <1>11, <1>12

\* The oldest frame of the queue goes to the stage's one worker.
LEMMA PopTakeOrdered ==
    ASSUME OneThreadPerStage, Inv, Order, NEW w \in Workers, PopTake(w)
    PROVE  Order'
<1> USE DEF Order
<1> DEFINE s == StageOf[w]
<1>0. /\ UNCHANGED <<outcome, spc, exports, frameCounter>> /\ Count' = Count
      /\ s \in Stages /\ hand[w] = NoFrame
      /\ \A v \in Workers : v # w => wpc'[v] = wpc[v]
      /\ wpc'[w] # "push"
  BY PipelineAssumption DEF PopTake, GoTo, Count, Submitted, Inv, Busy, TypeOK
<1>1. CASE UNCHANGED <<hand, queue>>
  BY <1>0, <1>1, StayOrdered
<1>2. CASE /\ queue[s] # <<>> /\ hand' = [hand EXCEPT ![w] = Head(queue[s])]
           /\ queue' = [queue EXCEPT ![s] = Tail(queue[s])]
  <2> DEFINE h == queue[s][1]
  <2>1. /\ 1 \in DOMAIN queue[s] /\ h \in Frames /\ hand'[w] = h
        /\ \A v \in Workers : v # w => hand'[v] = hand[v]
    BY <1>0, <1>2, Popped DEF Inv, TypeOK
  <2>2. /\ \A r \in Stages : r # s => queue'[r] = queue[r]
        /\ \A i \in DOMAIN queue'[s] : i + 1 \in DOMAIN queue[s] /\ queue'[s][i] = queue[s][i + 1]
    BY <1>0, <1>2, Popped DEF Inv
  <2>3. DOMAIN queue'[s] \subseteq Nat \ {0}
    <3>1. queue' \in [Stages -> Seq(Frames)]
      BY <1>0, <1>2, Popped DEF Inv
    <3> QED BY <1>0, <3>1
  <2>4. \A v \in Workers : StageOf[v] = s => v = w
    BY DEF OneThreadPerStage
  <2> HIDE DEF h, s
  <2>5. \A r \in Stages : \A i \in DOMAIN queue'[r] : \E j \in DOMAIN queue[r] : queue'[r][i] = queue[r][j]
    BY <2>2
  <2>6. \A r \in Stages, f \in Frames : At(r, f)' => At(r, f)
    BY <2>1, <2>5, <1>0 DEF At, h, s
  <2>7. OlderDownstream' /\ NewestSubmitted'
    BY <1>0, <2>6 DEF OlderDownstream, NewestSubmitted
  <2>8. OlderInFront'
    <3>1. ASSUME NEW r \in Stages, NEW i \in DOMAIN queue'[r], NEW j \in DOMAIN queue'[r], i < j
          PROVE  queue'[r][i] < queue'[r][j]
      BY <3>1, <2>2, <2>3 DEF OlderInFront
    <3>2. \A i \in DOMAIN queue'[s] : h < queue'[s][i]
      BY <1>0, <2>1, <2>2, <2>3 DEF OlderInFront, h
    <3>3. ASSUME NEW v \in Workers, NEW i \in DOMAIN queue'[StageOf[v]]
          PROVE  hand'[v] < queue'[StageOf[v]][i]
      BY <3>2, <2>1, <2>2, <2>4, Numbers DEF OlderInFront, s
    <3> QED BY <3>1, <3>3 DEF OlderInFront
  <2>9. ReportedOlder'
    BY <1>0, <2>1, <2>5 DEF ReportedOlder, IsA, h
  <2>10. ExportInOrder' /\ frameCounter' = Len(exports')
    BY <1>0 DEF ExportInOrder
  <2> QED BY <2>7, <2>8, <2>9, <2>10
<1> QED BY <1>1, <1>2 DEF PopTake

\* A frame that leaves the pipeline leaves the others in order.
LEMMA DropOrdered ==
    ASSUME Inv, Order, NEW w \in Workers, hand[w] # NoFrame,
           NEW how \in Outcomes \ {"new"}, Settle(hand[w], how),
           hand' = [hand EXCEPT ![w] = NoFrame],
           \A v \in Workers : v # w => wpc'[v] = wpc[v],
           UNCHANGED <<queue, spc, exports, frameCounter>>
    PROVE  Order'
<1> USE DEF Order
<1>1. /\ hand[w] \in Frames /\ outcome[hand[w]] = "inflight" /\ hand'[w] = NoFrame
      /\ \A v \in Workers : v # w => hand'[v] = hand[v]
  BY DEF Inv, TypeOK, Placed, OwnedInFlight
<1>2. Count' = Count
  BY <1>1, SettleKeepsCount DEF Inv
<1>3. \A r \in Stages, f \in Frames : At(r, f)' => At(r, f)
  BY <1>1, Chain DEF At
<1>4. OlderDownstream' /\ NewestSubmitted'
  BY <1>2, <1>3 DEF OlderDownstream, NewestSubmitted
<1>5. OlderInFront'
  <2>1. ASSUME NEW v \in Workers, NEW i \in DOMAIN queue[StageOf[v]]
        PROVE  hand'[v] < queue[StageOf[v]][i]
    <3>1. CASE v = w
      <4>1. queue[StageOf[v]][i] \in Nat \ {0}
        BY Numbers
      <4> QED BY <4>1, <3>1, <1>1, Numbers
    <3>2. CASE v # w
      BY <3>2, <1>1 DEF OlderInFront
    <3> QED BY <3>1, <3>2
  <2> QED BY <2>1 DEF OlderInFront
<1>6. ReportedOlder'
  BY <1>1, <1>2 DEF ReportedOlder, IsA
<1>7. ExportInOrder' /\ frameCounter' = Len(exports')
  BY DEF ExportInOrder
<1> QED BY <1>4, <1>5, <1>6, <1>7

\* Export reports a frame older than all that are still to be reported.
LEMMA PublishOrdered ==
    ASSUME OneThreadPerStage, Inv, Order, NEW w \in Workers, Publish(w)
    PROVE  Order'
<1> USE DEF Order
<1>0. /\ wpc[w] = "publish" /\ wpc'[w] = "push" /\ \A v \in Workers : v # w => wpc'[v] = wpc[v]
      /\ UNCHANGED <<queue, outcome, hand, spc>> /\ Count' = Count /\ PublishResult(w)
      /\ hand[w] \in Frames /\ hand[w] # NoFrame
  BY DEF Publish, GoTo, Count, Submitted, Inv, Busy, TypeOK
<1>1. \A s, f : At(s, f)' <=> At(s, f)
  BY <1>0 DEF At
<1>2. OlderDownstream' /\ OlderInFront' /\ NewestSubmitted'
  BY <1>0, <1>1 DEF OlderDownstream, OlderInFront, NewestSubmitted
<1>3. CASE ~IsA(w, "Export")
  <2>1. UNCHANGED <<exports, frameCounter>>
    BY <1>0, <1>3 DEF PublishResult
  <2>2. \A v \in Workers : wpc[v] = "push" => wpc'[v] = "push"
    BY <1>0
  <2> QED BY <1>0, <2>1, <2>2, StayOrdered
<1>4. CASE IsA(w, "Export")
  <2> DEFINE e == [frame |-> hand[w], image |-> taken[w].image, anomaly |-> taken[w].anomaly, id |-> frameCounter]
             n == Len(exports)
  <2>1. exports' = Append(exports, e) /\ frameCounter' = frameCounter + 1
    BY <1>0, <1>4 DEF PublishResult
  <2>2. e.frame = hand[w] /\ e.id = frameCounter
    OBVIOUS
  <2> HIDE DEF e
  <2>3. /\ n \in Nat /\ DOMAIN exports = 1 .. n /\ DOMAIN exports' = 1 .. n + 1 /\ Len(exports') = n + 1
        /\ exports'[n + 1] = e /\ \A i \in 1 .. n : exports'[i] = exports[i]
    BY <2>1, Numbers
  <2> HIDE DEF n
  <2>4. \A i \in 1 .. n : exports[i].frame < hand[w]
    BY <1>0, <2>3 DEF ReportedOlder
  <2>5. ExportInOrder'
    <3>1. ASSUME NEW i \in 1 .. n + 1, NEW j \in 1 .. n + 1, i < j
          PROVE  exports'[i].frame < exports'[j].frame
      <4>1. CASE j \in 1 .. n
        <5>1. i \in 1 .. n
          BY <4>1, <3>1, <2>3
        <5> QED BY <5>1, <4>1, <3>1, <2>3 DEF ExportInOrder
      <4>2. CASE j = n + 1
        <5>1. i \in 1 .. n
          BY <4>2, <3>1, <2>3
        <5> QED BY <5>1, <4>2, <2>2, <2>3, <2>4
      <4> QED BY <4>1, <4>2, <2>3
    <3>2. ASSUME NEW i \in 1 .. n + 1
          PROVE  exports'[i].id = i - 1
      <4>1. frameCounter = n
        BY DEF n
      <4> QED BY <4>1, <2>2, <2>3 DEF ExportInOrder
    <3> QED BY <3>1, <3>2, <2>3 DEF ExportInOrder
  <2>6. frameCounter' = Len(exports')
    BY <2>1, <2>3 DEF n
  <2>7. StageOf[w] = Last /\ Last \in Stages
    BY <1>4, Numbers, Chain DEF OneThreadPerStage, IsA
  <2>8. At(Last, hand[w])
    BY <2>7 DEF At
  <2>9. hand[w] <= Count /\ (spc = "push" => hand[w] < Count)
    BY <1>0, <2>7, <2>8 DEF NewestSubmitted
  <2>10. ASSUME NEW s \in Stages, NEW j \in DOMAIN queue[s]
         PROVE  hand[w] < queue[s][j]
    <3>1. CASE s = Last
      BY <3>1, <2>7 DEF OlderInFront
    <3>2. CASE s # Last
      <4>1. s < Last /\ queue[s][j] \in Frames
        BY <3>2, <2>7, Chain, Numbers
      <4>2. At(s, queue[s][j])
        BY DEF At
      <4> QED BY <4>1, <4>2, <1>0, <2>7, <2>8 DEF OlderDownstream
    <3> QED BY <3>1, <3>2
  <2>11. ASSUME NEW v \in Workers, v # w, hand[v] # NoFrame
         PROVE  hand[w] < hand[v]
    <3>1. StageOf[v] < Last /\ hand[v] \in Frames /\ StageOf[v] \in Stages
      <4>1. StageOf[v] # Last
        BY <2>7, <2>11 DEF OneThreadPerStage
      <4> QED BY <4>1, <2>11, Chain, Numbers
    <3>2. At(StageOf[v], hand[v])
      BY DEF At
    <3> QED BY <3>1, <3>2, <1>0, <2>7, <2>8 DEF OlderDownstream
  <2>12. ReportedOlder'
    <3> SUFFICES ASSUME NEW i \in 1 .. n + 1
                 PROVE  /\ exports'[i].frame <= Count /\ (spc = "push" => exports'[i].frame < Count)
                        /\ \A s \in Stages : \A j \in DOMAIN queue[s] : exports'[i].frame < queue[s][j]
                        /\ \A v \in Workers : hand[v] # NoFrame =>
                              \/ exports'[i].frame < hand[v]
                              \/ IsA(v, "Export") /\ wpc'[v] = "push"
      BY <1>0, <2>3 DEF ReportedOlder, IsA
    <3>1. CASE i \in 1 .. n
      BY <3>1, <2>3, <1>0 DEF ReportedOlder
    <3>2. CASE i = n + 1
      BY <3>2, <1>0, <1>4, <2>2, <2>3, <2>9, <2>10, <2>11
    <3> QED BY <3>1, <3>2, <2>3
  <2> QED BY <1>2, <2>5, <2>6, <2>12
<1> QED BY <1>3, <1>4

\* A frame goes behind all that have passed its stage before it.
LEMMA PushNextOrdered ==
    ASSUME OneThreadPerStage, Inv, Order, NEW w \in Workers, PushNext(w)
    PROVE  Order'
<1> USE DEF Order
<1> DEFINE s == StageOf[w]
           h == hand[w]
           n == Len(queue[s + 1]) + 1
<1>0. /\ UNCHANGED <<outcome, spc, exports, frameCounter>> /\ Count' = Count
      /\ s \in Stages /\ s + 1 \in Stages /\ s < Last /\ wpc[w] = "push"
      /\ h \in Frames /\ hand'[w] = NoFrame
      /\ \A v \in Workers : v # w => wpc'[v] = wpc[v] /\ hand'[v] = hand[v]
  <2>1. UNCHANGED <<outcome, spc, exports, frameCounter>> /\ Count' = Count
    BY DEF PushNext, Count, Submitted
  <2>2. s \in Stages /\ s < Last /\ wpc[w] = "push" /\ h \in Frames
    BY PipelineAssumption DEF PushNext, Inv, Busy, TypeOK
  <2>3. s + 1 \in Stages
    BY <2>2, Chain
  <2>4. hand'[w] = NoFrame /\ \A v \in Workers : v # w => wpc'[v] = wpc[v] /\ hand'[v] = hand[v]
    BY DEF PushNext, GoTo, Inv, TypeOK
  <2> QED BY <2>1, <2>2, <2>3, <2>4
<1>1. Len(queue[s + 1]) < Capacity[s + 1] /\ queue' = [queue EXCEPT ![s + 1] = Append(queue[s + 1], h)]
  BY DEF PushNext
<1>2. /\ \A r \in Stages : r # s + 1 => queue'[r] = queue[r]
      /\ \A i \in DOMAIN queue'[s + 1] : \/ i \in DOMAIN queue[s + 1] /\ queue'[s + 1][i] = queue[s + 1][i]
                                         \/ i = n /\ queue'[s + 1][i] = h
  BY <1>0, <1>1, Pushed DEF Inv
<1>3. Len(queue[s + 1]) \in Nat /\ DOMAIN queue[s + 1] = 1 .. Len(queue[s + 1])
  BY <1>0 DEF Inv, TypeOK
<1>4. \A i \in DOMAIN queue[s + 1] : i < n
  BY <1>3
<1>5. \A v \in Workers : StageOf[v] = s => v = w
  BY DEF OneThreadPerStage
<1>6. At(s, h)
  BY DEF At
<1>7. \A v \in Workers : hand'[v] = hand[v] \/ (v = w /\ hand'[v] = NoFrame)
  BY <1>0
<1>8. ~IsA(w, "Export")
  BY <1>0, Numbers DEF OneThreadPerStage, IsA
<1>9. \A i \in DOMAIN queue[s] : h < queue[s][i]
  BY DEF OlderInFront
<1>10. s + 1 # s /\ s \in Nat
  BY <1>0, Numbers
<1> HIDE DEF s, h, n
<1>11. \A r \in Stages : \A i \in DOMAIN queue'[r] :
         \/ i \in DOMAIN queue[r] /\ queue'[r][i] = queue[r][i]
         \/ r = s + 1 /\ i = n /\ queue'[r][i] = h
  BY <1>2
<1>12. \A r \in Stages, f \in Frames : At(r, f)' => At(r, f) \/ (r = s + 1 /\ f = h)
  BY <1>7, <1>11, Chain DEF At
<1>13. \A g \in Frames : At(s, g)' => h < g
  <2> SUFFICES ASSUME NEW g \in Frames, At(s, g)'
               PROVE  h < g
    OBVIOUS
  <2>1. \A v \in Workers : StageOf[v] = s => hand'[v] # g
    BY <1>0, <1>5, Chain
  <2>2. PICK i \in DOMAIN queue'[s] : queue'[s][i] = g
    BY <2>1 DEF At
  <2> QED BY <2>2, <1>0, <1>2, <1>9, <1>10
<1>14. \A r \in Stages, f \in Frames : r > s /\ At(r, f) => f < h
  BY <1>0, <1>6 DEF OlderDownstream
<1>15. OlderDownstream'
  <2> SUFFICES ASSUME NEW t \in Stages, NEW r \in Stages, NEW f \in Frames, NEW g \in Frames,
                      t < r, At(r, f)', At(t, g)'
               PROVE  f < g
    BY DEF OlderDownstream
  <2>1. CASE At(r, f) /\ At(t, g)
    BY <2>1 DEF OlderDownstream
  <2>2. CASE t = s + 1 /\ g = h /\ At(r, f)
    <3>1. r > s
      BY <2>2, <1>10, Numbers
    <3> QED BY <3>1, <2>2, <1>14
  <2>3. CASE r = s + 1 /\ f = h
    <3>1. t = s \/ t < s
      BY <2>3, <1>10, Numbers
    <3>2. CASE t = s
      BY <3>2, <2>3, <1>13
    <3>3. CASE t < s
      <4>1. At(t, g)
        BY <3>3, <1>10, <1>12, Numbers
      <4> QED BY <4>1, <3>3, <2>3, <1>0, <1>6 DEF OlderDownstream
    <3> QED BY <3>1, <3>2, <3>3
  <2> QED BY <2>1, <2>2, <2>3, <1>12
<1>16. OlderInFront'
  <2>0. s + 1 > s /\ s + 1 \in Stages
    BY <1>0, <1>10
  <2>1. \A i \in DOMAIN queue[s + 1] : queue[s + 1][i] < h
    <3>1. \A i \in DOMAIN queue[s + 1] : queue[s + 1][i] \in Frames /\ At(s + 1, queue[s + 1][i])
      BY <2>0, Numbers DEF At
    <3> QED BY <3>1, <2>0, <1>14
  <2>2. ASSUME NEW r \in Stages, NEW i \in DOMAIN queue'[r], NEW j \in DOMAIN queue'[r], i < j
        PROVE  queue'[r][i] < queue'[r][j]
    <3>1. CASE i \in DOMAIN queue[r] /\ queue'[r][i] = queue[r][i]
      <4>1. CASE j \in DOMAIN queue[r] /\ queue'[r][j] = queue[r][j]
        BY <2>2, <3>1, <4>1 DEF OlderInFront
      <4>2. CASE r = s + 1 /\ queue'[r][j] = h
        BY <3>1, <4>2, <2>1
      <4> QED BY <4>1, <4>2, <1>11
    <3>2. CASE r = s + 1 /\ i = n
      <4>1. j \in DOMAIN queue[s + 1] \/ j = n
        BY <3>2, <1>11
      <4> QED BY <4>1, <3>2, <2>2, <1>3, <1>4 DEF n
    <3> QED BY <3>1, <3>2, <1>11
  <2>3. \A v \in Workers : StageOf[v] = s + 1 => hand[v] < h
    <3> SUFFICES ASSUME NEW v \in Workers, StageOf[v] = s + 1 PROVE hand[v] < h
      OBVIOUS
    <3>1. CASE hand[v] = NoFrame
      BY <3>1, <1>0, Numbers
    <3>2. CASE hand[v] \in Frames
      <4>1. At(s + 1, hand[v])
        BY DEF At
      <4> QED BY <4>1, <3>2, <2>0, <1>14
    <3> QED BY <3>1, <3>2, Numbers
  <2>4. ASSUME NEW v \in Workers, NEW i \in DOMAIN queue'[StageOf[v]]
        PROVE  hand'[v] < queue'[StageOf[v]][i]
    <3>1. \/ i \in DOMAIN queue[StageOf[v]] /\ queue'[StageOf[v]][i] = queue[StageOf[v]][i]
          \/ StageOf[v] = s + 1 /\ queue'[StageOf[v]][i] = h
      BY <1>11, <2>4, Numbers
    <3>2. CASE hand'[v] = NoFrame
      BY <3>1, <3>2, <1>0, Numbers
    <3>3. CASE hand'[v] = hand[v]
      BY <3>1, <3>3, <2>3 DEF OlderInFront
    <3> QED BY <3>2, <3>3, <1>7
  <2> QED BY <2>2, <2>4 DEF OlderInFront
<1>17. NewestSubmitted'
  BY <1>0, <1>6, <1>12 DEF NewestSubmitted
<1>18. ReportedOlder'
  <2>1. \A i \in DOMAIN exports : exports[i].frame < h
    BY <1>0, <1>8, Chain DEF ReportedOlder, h
  <2> QED BY <1>0, <1>7, <1>11, <2>1 DEF ReportedOlder, IsA
<1>19. ExportInOrder' /\ frameCounter' = Len(exports')
  BY <1>0 DEF ExportInOrder
<1> QED BY <1>15, <1>16, <1>17, <1>18, <1>19

\* A drained frame leaves the others in order.
LEMMA DrainForceOrdered ==
    ASSUME Inv, Order, NEW s \in Stages, DrainForce(s)
    PROVE  Order'
<1> USE DEF Order
<1>0. UNCHANGED <<wpc, hand, spc, exports, frameCounter>>
  BY DEF DrainForce, workerVars
<1>1. CASE UNCHANGED <<queue, outcome>>
  BY <1>0, <1>1, StayOrdered
<1>2. CASE /\ queue[s] # <<>> /\ queue' = [queue EXCEPT ![s] = Tail(queue[s])]
           /\ Settle(Head(queue[s]), "drained")
  <2>1. /\ 1 \in DOMAIN queue[s] /\ Head(queue[s]) = queue[s][1] /\ queue[s][1] \in Frames
        /\ \A r \in Stages : r # s => queue'[r] = queue[r]
        /\ \A i \in DOMAIN queue'[s] : i + 1 \in DOMAIN queue[s] /\ queue'[s][i] = queue[s][i + 1]
    BY <1>2, Popped DEF Inv
  <2>2. Count' = Count
    BY <1>2, <2>1, SettleKeepsCount DEF Inv, Outcomes, Placed, OwnedInFlight
  <2>3. DOMAIN queue'[s] \subseteq Nat \ {0}
    <3>1. queue' \in [Stages -> Seq(Frames)]
      BY <1>2, Popped DEF Inv
    <3> QED BY <3>1
  <2>4. \A r \in Stages : \A i \in DOMAIN queue'[r] : \E j \in DOMAIN queue[r] : queue'[r][i] = queue[r][j]
    BY <2>1
  <2>5. \A r \in Stages, f \in Frames : At(r, f)' => At(r, f)
    BY <1>0, <2>4 DEF At
  <2>6. OlderDownstream' /\ NewestSubmitted'
    BY <1>0, <2>2, <2>5 DEF OlderDownstream, NewestSubmitted
  <2>7. OlderInFront'
    <3>1. ASSUME NEW r \in Stages, NEW i \in DOMAIN queue'[r], NEW j \in DOMAIN queue'[r], i < j
          PROVE  queue'[r][i] < queue'[r][j]
      BY <3>1, <2>1, <2>3 DEF OlderInFront
    <3>2. ASSUME NEW v \in Workers, NEW i \in DOMAIN queue'[StageOf[v]]
          PROVE  hand[v] < queue'[StageOf[v]][i]
      <4>0. StageOf[v] \in Stages
        BY Numbers
      <4>1. \E j \in DOMAIN queue[StageOf[v]] : queue'[StageOf[v]][i] = queue[StageOf[v]][j]
        BY <2>4, <4>0, Zenon
      <4> QED BY <4>1 DEF OlderInFront
    <3> QED BY <1>0, <3>1, <3>2 DEF OlderInFront
  <2>8. ReportedOlder'
    BY <1>0, <2>2, <2>4 DEF ReportedOlder, IsA
  <2>9. ExportInOrder' /\ frameCounter' = Len(exports')
    BY <1>0 DEF ExportInOrder
  <2> QED BY <2>6, <2>7, <2>8, <2>9
<1> QED BY <1>1, <1>2 DEF DrainForce

-----------------------------------------------------------------------------
(* The image side channel                                                   *)

\* A snapshot that nobody replaces stays newer than what is downstream of it.
LEMMA ImageStays ==
    ASSUME Inv, Images, exports' = exports, image' = image \/ image' = NoFrame,
           \A r \in Stages : \A i \in DOMAIN queue'[r] : \E j \in DOMAIN queue[r] : queue'[r][i] = queue[r][j],
           \A v \in Workers :
              \/ hand'[v] = NoFrame
              \/ hand'[v] = hand[v] /\ (wpc'[v] = "push" => wpc[v] = "push")
    PROVE  ImageNewer' /\ ImageNotOlder' /\ (PastImages(1) => image' = NoFrame)
<1>1. ImageNotOlder' /\ (PastImages(1) => image' = NoFrame)
  BY DEF Images, ImageNotOlder
<1>2. ImageNewer'
  <2> SUFFICES ASSUME image' # NoFrame
               PROVE  /\ \A s \in Stages : PastImages(s) => \A i \in DOMAIN queue'[s] : queue'[s][i] <= image
                      /\ \A w \in Workers :
                            PastImages(StageOf[w]) \/ (wpc'[w] = "push" /\ PastImages(StageOf[w] + 1))
                               => hand'[w] <= image
    BY DEF ImageNewer, PastImages
  <2>1. image # NoFrame /\ image \in Nat /\ NoFrame <= image
    BY Numbers
  <2>2. \A s \in Stages : PastImages(s) => \A i \in DOMAIN queue'[s] : queue'[s][i] <= image
    BY <2>1 DEF Images, ImageNewer
  <2>3. ASSUME NEW w \in Workers, PastImages(StageOf[w]) \/ (wpc'[w] = "push" /\ PastImages(StageOf[w] + 1))
        PROVE  hand'[w] <= image
    BY <2>1, <2>3 DEF Images, ImageNewer
  <2> QED BY <2>2, <2>3
<1> QED BY <1>1, <1>2

\* What Export has taken stays with the frame it took it for.
LEMMA TakenStays ==
    ASSUME Images,
           \A v \in Workers : wpc'[v] \in {"heatmap", "publish"} /\ IsA(v, "Export") =>
              /\ wpc[v] \in {"heatmap", "publish"}
              /\ hand'[v] = hand[v] /\ taken'[v].image = taken[v].image
    PROVE  TakenNewer'
  BY DEF Images, TakenNewer, IsA

\* A step that moves no frame and touches no snapshot.
LEMMA StayImages ==
    ASSUME Inv, Images, UNCHANGED <<queue, hand, exports, image, taken>>,
           \A v \in Workers : wpc'[v] \in {"heatmap", "publish", "push"} => wpc'[v] = wpc[v]
    PROVE  Images'
<1>1. TakenNewer'
  BY TakenStays
<1>2. ImageNewer' /\ ImageNotOlder' /\ (PastImages(1) => image' = NoFrame)
  BY ImageStays
<1> QED BY <1>1, <1>2 DEF Images, PastImages

\* A frame that is pushed has all stages ahead of it.
LEMMA SubmitPushImages ==
    ASSUME Inv, Images, SubmitPush
    PROVE  Images'
<1>0. /\ UNCHANGED <<hand, wpc, exports, image, taken>> /\ Count \in Frames
      /\ queue' = [queue EXCEPT ![1] = Append(queue[1], Count)] /\ 1 \in Stages
      /\ Len(queue[1]) < Capacity[1]
  BY Chain DEF SubmitPush, workerVars, Inv, Placed, OwnedInFlight, Count
<1>1. \A r \in Stages : r # 1 => queue'[r] = queue[r]
  BY <1>0, Pushed DEF Inv
<1>2. TakenNewer'
  BY <1>0, TakenStays
<1>3. ImageNotOlder' /\ (PastImages(1) => image' = NoFrame)
  BY <1>0 DEF Images, ImageNotOlder
<1>4. ImageNewer'
  BY <1>0, <1>1 DEF Images, ImageNewer, PastImages
<1> QED BY <1>2, <1>3, <1>4 DEF Images, PastImages

\* The worker's frame is the one that was in its queue.
LEMMA PopTakeImages ==
    ASSUME Inv, Images, NEW w \in Workers, PopTake(w)
    PROVE  Images'
<1> DEFINE s == StageOf[w]
<1>0. /\ UNCHANGED <<exports, image, taken>> /\ s \in Stages
      /\ wpc'[w] \notin {"heatmap", "publish", "push"} /\ \A v \in Workers : v # w => wpc'[v] = wpc[v]
  BY PipelineAssumption DEF PopTake, GoTo, Inv, TypeOK
<1>1. CASE UNCHANGED <<hand, queue>>
  BY <1>0, <1>1, StayImages
<1>2. CASE /\ queue[s] # <<>> /\ hand' = [hand EXCEPT ![w] = Head(queue[s])]
           /\ queue' = [queue EXCEPT ![s] = Tail(queue[s])]
  <2> HIDE DEF s
  <2>1. /\ 1 \in DOMAIN queue[s] /\ hand'[w] = queue[s][1]
        /\ \A v \in Workers : v # w => hand'[v] = hand[v]
    BY <1>0, <1>2, Popped DEF Inv, TypeOK
  <2>2. /\ \A r \in Stages : r # s => queue'[r] = queue[r]
        /\ \A i \in DOMAIN queue'[s] : i + 1 \in DOMAIN queue[s] /\ queue'[s][i] = queue[s][i + 1]
    BY <1>0, <1>2, Popped DEF Inv
  <2>3. TakenNewer'
    BY <1>0, <2>1, TakenStays
  <2>4. ImageNotOlder' /\ (PastImages(1) => image' = NoFrame)
    BY <1>0 DEF Images, ImageNotOlder
  <2>5. ImageNewer'
    BY <1>0, <2>1, <2>2 DEF Images, ImageNewer, PastImages, s
  <2> QED BY <2>3, <2>4, <2>5 DEF Images, PastImages
<1> QED BY <1>1, <1>2 DEF PopTake

\* A frame that leaves the pipeline, with or without the snapshot.
LEMMA DropImages ==
    ASSUME Inv, Images, NEW w \in Workers,
           hand' = [hand EXCEPT ![w] = NoFrame],
           wpc'[w] \notin {"heatmap", "publish", "push"},
           \A v \in Workers : v # w => wpc'[v] = wpc[v] /\ taken'[v] = taken[v],
           image' = image \/ image' = NoFrame,
           UNCHANGED <<queue, exports>>
    PROVE  Images'
<1>1. hand'[w] = NoFrame /\ \A v \in Workers : v # w => hand'[v] = hand[v]
  BY DEF Inv, TypeOK
<1>2. TakenNewer'
  BY <1>1, TakenStays
<1>3. ImageNewer' /\ ImageNotOlder' /\ (PastImages(1) => image' = NoFrame)
  BY <1>1, ImageStays
<1> QED BY <1>2, <1>3 DEF Images, PastImages

\* Export finds the snapshot of its own frame or of a newer one.
LEMMA ProcessExportImages ==
    ASSUME OneThreadPerStage, Inv, Images, NEW w \in Workers, ProcessExport(w)
    PROVE  Images'
<1>0. /\ UNCHANGED <<queue, exports>> /\ image' = NoFrame /\ IsA(w, "Export")
      /\ taken'[w].image = image
      /\ \A v \in Workers : v # w => wpc'[v] = wpc[v] /\ taken'[v] = taken[v]
  BY DEF ProcessExport, GoTo, Inv, TypeOK
<1>1. CASE wpc'[w] = "heatmap" /\ UNCHANGED hand
  <2>1. image = NoFrame \/ hand[w] <= image
    <3>1. PastImages(StageOf[w])
      BY <1>0, Numbers, Chain DEF OneThreadPerStage, PastImages, IsA
    <3> QED BY <3>1 DEF Images, ImageNewer
  <2>2. TakenNewer'
    BY <1>0, <1>1, <2>1, Numbers DEF Images, TakenNewer, IsA
  <2>3. ImageNewer' /\ ImageNotOlder' /\ (PastImages(1) => image' = NoFrame)
    BY <1>0 DEF Images, ImageNewer, ImageNotOlder
  <2> QED BY <2>2, <2>3 DEF Images, PastImages
<1>2. CASE wpc'[w] = "pop" /\ hand' = [hand EXCEPT ![w] = NoFrame]
  BY <1>0, <1>2, DropImages
<1> QED BY <1>1, <1>2 DEF ProcessExport, GoTo, Fails, Inv, TypeOK

\* Taking the scores changes nothing about the image.
LEMMA ProcessHeatmapImages ==
    ASSUME Inv, Images, NEW w \in Workers, ProcessHeatmap(w)
    PROVE  Images'
<1>1. /\ UNCHANGED <<queue, hand, exports, image>>
      /\ \A v \in Workers : taken'[v].image = taken[v].image
      /\ wpc[w] = "heatmap" /\ wpc'[w] = "publish" /\ \A v \in Workers : v # w => wpc'[v] = wpc[v]
  BY DEF ProcessHeatmap, GoTo, Inv, TypeOK
<1>2. TakenNewer'
  BY <1>1, TakenStays
<1>3. ImageNewer' /\ ImageNotOlder' /\ (PastImages(1) => image' = NoFrame)
  BY <1>1, ImageStays
<1> QED BY <1>2, <1>3 DEF Images, PastImages

\* A new snapshot is of a frame newer than all those downstream of its stage.
LEMMA PublishImages ==
    ASSUME OneThreadPerStage, Inv, Order, Images, NEW w \in Workers, Publish(w)
    PROVE  Images'
<1> DEFINE s == StageOf[w]
<1>0. /\ UNCHANGED <<queue, hand, taken>> /\ PublishImage(w) /\ PublishResult(w)
      /\ wpc[w] = "publish" /\ wpc'[w] = "push" /\ \A v \in Workers : v # w => wpc'[v] = wpc[v]
      /\ hand[w] \in Frames /\ s \in Stages
  BY PipelineAssumption DEF Publish, GoTo, Inv, Busy, TypeOK
<1>1. TakenNewer'
  BY <1>0, TakenStays
<1>2. ImageNotOlder'
  <2>1. CASE ~IsA(w, "Export")
    BY <2>1, <1>0 DEF PublishResult, Images, ImageNotOlder
  <2>2. CASE IsA(w, "Export")
    <3> DEFINE e == [frame |-> hand[w], image |-> taken[w].image, anomaly |-> taken[w].anomaly, id |-> frameCounter]
               n == Len(exports)
    <3>1. exports' = Append(exports, e)
      BY <1>0, <2>2 DEF PublishResult
    <3>2. e.frame = hand[w] /\ e.image = taken[w].image
      OBVIOUS
    <3> HIDE DEF e
    <3>3. /\ n \in Nat /\ DOMAIN exports = 1 .. n /\ DOMAIN exports' = 1 .. n + 1
          /\ exports'[n + 1] = e /\ \A i \in 1 .. n : exports'[i] = exports[i]
      BY <3>1, Numbers
    <3> HIDE DEF n
    <3>4. e.image = NoFrame \/ e.image >= e.frame
      BY <1>0, <2>2, <3>2 DEF Images, TakenNewer
    <3> QED BY <3>3, <3>4 DEF Images, ImageNotOlder
  <2> QED BY <2>1, <2>2
<1>3. CASE IsA(w, "Preprocess")
  <2>1. image' = hand[w] /\ StageTypes[s] = "Preprocess" /\ At(s, hand[w])
    BY <1>0, <1>3 DEF PublishImage, IsA, At
  <2>2. \A r \in Stages : r > s => \A g \in Frames : At(r, g) => g <= hand[w]
    BY <1>0, <2>1, Numbers DEF Order, OlderDownstream
  <2>3. \A r \in Stages : PastImages(r) => r > s
    BY <1>0, <2>1, Numbers DEF PastImages
  <2>4. ASSUME NEW r \in Stages, PastImages(r), NEW i \in DOMAIN queue[r]
        PROVE  queue[r][i] <= hand[w]
    <3>1. queue[r][i] \in Frames /\ At(r, queue[r][i])
      BY Numbers DEF At
    <3> QED BY <3>1, <2>2, <2>3, <2>4
  <2>5. ASSUME NEW v \in Workers, PastImages(StageOf[v]) \/ PastImages(StageOf[v] + 1)
        PROVE  hand[v] <= hand[w]
    <3>1. StageOf[v] >= s
      <4>1. CASE PastImages(StageOf[v])
        BY <4>1, <2>3, <1>0, Numbers
      <4>2. CASE PastImages(StageOf[v] + 1)
        <5>1. ~(s >= StageOf[v] + 1)
          BY <4>2, <1>0, <2>1 DEF PastImages
        <5> QED BY <5>1, <1>0, Numbers
      <4> QED BY <2>5, <4>1, <4>2
    <3>2. CASE StageOf[v] = s
      <4>1. v = w
        BY <3>2 DEF OneThreadPerStage
      <4> QED BY <4>1, <1>0, Numbers
    <3>3. CASE StageOf[v] # s
      <4>1. StageOf[v] \in Stages /\ StageOf[v] > s
        BY <3>1, <3>3, <1>0, Numbers
      <4>2. CASE hand[v] = NoFrame
        BY <4>2, <1>0, Numbers
      <4>3. CASE hand[v] \in Frames
        <5>1. At(StageOf[v], hand[v])
          BY DEF At
        <5> QED BY <5>1, <4>1, <4>3, <2>2
      <4> QED BY <4>2, <4>3, Numbers
    <3> QED BY <3>2, <3>3
  <2>6. ImageNewer'
    BY <1>0, <2>1, <2>4, <2>5 DEF ImageNewer, PastImages
  <2>7. ~PastImages(1)
    BY <1>0, <2>1, <2>3, Chain, Numbers
  <2> QED BY <1>1, <1>2, <2>6, <2>7 DEF Images, PastImages
<1>4. CASE ~IsA(w, "Preprocess")
  <2>1. image' = image /\ StageTypes[s] # "Preprocess"
    BY <1>0, <1>4 DEF PublishImage, IsA
  <2>2. PastImages(s + 1) => PastImages(s)
    <3>1. \A r \in Stages : r >= s => r = s \/ r >= s + 1
      BY <1>0, Numbers
    <3> QED BY <2>1, <3>1 DEF PastImages
  <2>3. ImageNewer'
    <3> HIDE DEF s
    <3>1. ASSUME image # NoFrame, NEW v \in Workers,
                 PastImages(StageOf[v]) \/ (wpc'[v] = "push" /\ PastImages(StageOf[v] + 1))
          PROVE  hand[v] <= image
      <4>1. CASE v = w
        BY <3>1, <4>1, <2>2 DEF Images, ImageNewer, s
      <4>2. CASE v # w
        BY <3>1, <4>2, <1>0 DEF Images, ImageNewer
      <4> QED BY <4>1, <4>2
    <3>2. image # NoFrame => \A r \in Stages : PastImages(r) => \A i \in DOMAIN queue[r] : queue[r][i] <= image
      BY DEF Images, ImageNewer
    <3> QED BY <1>0, <2>1, <3>1, <3>2 DEF ImageNewer, PastImages
  <2> QED BY <1>1, <1>2, <2>1, <2>3 DEF Images, PastImages
<1> QED BY <1>3, <1>4

\* A frame that moves on has passed its stage.
LEMMA PushNextImages ==
    ASSUME Inv, Images, NEW w \in Workers, PushNext(w)
    PROVE  Images'
<1> DEFINE s == StageOf[w]
           h == hand[w]
<1>0. UNCHANGED <<exports, image, taken>> /\ wpc[w] = "push" /\ h \in Frames
  BY DEF PushNext, Inv, Busy, TypeOK
<1>1. s \in Stages /\ s < Last /\ s + 1 \in Stages
  <2>1. s \in Stages /\ s < Last
    BY PipelineAssumption DEF PushNext
  <2> QED BY <2>1, Chain
<1>2. /\ hand'[w] = NoFrame /\ \A v \in Workers : v # w => wpc'[v] = wpc[v] /\ hand'[v] = hand[v]
      /\ wpc'[w] = "pop"
  BY DEF PushNext, GoTo, Inv, TypeOK
<1>3. Len(queue[s + 1]) < Capacity[s + 1] /\ queue' = [queue EXCEPT ![s + 1] = Append(queue[s + 1], h)]
  BY DEF PushNext
<1>4. /\ \A r \in Stages : r # s + 1 => queue'[r] = queue[r]
      /\ \A i \in DOMAIN queue'[s + 1] : \/ i \in DOMAIN queue[s + 1] /\ queue'[s + 1][i] = queue[s + 1][i]
                                         \/ queue'[s + 1][i] = h
  BY <1>0, <1>1, <1>3, Pushed DEF Inv
<1>5. image # NoFrame /\ PastImages(s + 1) => h <= image
  BY <1>0 DEF Images, ImageNewer
<1> HIDE DEF s, h
<1>6. TakenNewer'
  BY <1>0, <1>2, TakenStays
<1>7. ImageNotOlder' /\ (PastImages(1) => image' = NoFrame)
  BY <1>0 DEF Images, ImageNotOlder
<1>8. ImageNewer'
  <2> SUFFICES ASSUME image # NoFrame
               PROVE  /\ \A r \in Stages : PastImages(r) => \A i \in DOMAIN queue'[r] : queue'[r][i] <= image
                      /\ \A v \in Workers :
                            PastImages(StageOf[v]) \/ (wpc'[v] = "push" /\ PastImages(StageOf[v] + 1))
                               => hand'[v] <= image
    BY <1>0 DEF ImageNewer, PastImages
  <2>1. \A r \in Stages : PastImages(r) => \A i \in DOMAIN queue'[r] : queue'[r][i] <= image
    BY <1>1, <1>4, <1>5 DEF Images, ImageNewer
  <2>2. NoFrame <= image
    BY Numbers
  <2>3. ASSUME NEW v \in Workers, PastImages(StageOf[v]) \/ (wpc'[v] = "push" /\ PastImages(StageOf[v] + 1))
        PROVE  hand'[v] <= image
    BY <1>2, <2>2, <2>3 DEF Images, ImageNewer
  <2> QED BY <2>1, <2>3
<1> QED BY <1>6, <1>7, <1>8 DEF Images, PastImages

\* A drained frame takes no snapshot with it.
LEMMA DrainForceImages ==
    ASSUME Inv, Images, NEW s \in Stages, DrainForce(s)
    PROVE  Images'
<1>0. UNCHANGED <<wpc, hand, exports, image, taken>>
  BY DEF DrainForce, workerVars
<1>1. CASE UNCHANGED queue
  BY <1>0, <1>1, StayImages
<1>2. CASE queue[s] # <<>> /\ queue' = [queue EXCEPT ![s] = Tail(queue[s])]
  <2>1. /\ \A r \in Stages : r # s => queue'[r] = queue[r]
        /\ \A i \in DOMAIN queue'[s] : i + 1 \in DOMAIN queue[s] /\ queue'[s][i] = queue[s][i + 1]
    BY <1>2, Popped DEF Inv
  <2>2. \A r \in Stages : \A i \in DOMAIN queue'[r] : \E j \in DOMAIN queue[r] : queue'[r][i] = queue[r][j]
    BY <2>1
  <2>3. TakenNewer'
    BY <1>0, TakenStays
  <2>4. ImageNewer' /\ ImageNotOlder' /\ (PastImages(1) => image' = NoFrame)
    BY <1>0, <2>2, ImageStays
  <2> QED BY <2>3, <2>4 DEF Images, PastImages
<1> QED BY <1>1, <1>2 DEF DrainForce

\* The calls of the controlling thread move no frame, but for DrainForce.
LEMMA CallOrder ==
    ASSUME Inv, Order, Images,
           \/ Start \/ DrainCall \/ StopCall \/ DrainPollEnd \/ DrainReturn \/ StopJoin
           \/ (\E s \in Stages : DrainPoll(s)) \/ \E w \in Workers : StopRequest(w)
    PROVE  Order' /\ Images'
<1>1. UNCHANGED <<queue, hand, spc, outcome, exports, frameCounter, image, taken>>
  BY DEF Start, DrainCall, StopCall, DrainPollEnd, DrainReturn, StopJoin, DrainPoll, StopRequest,
         pipeVars, workerVars
<1>2. \A w \in Workers : /\ wpc[w] = "push" => wpc'[w] = "push"
                         /\ wpc'[w] \in {"heatmap", "publish", "push"} => wpc'[w] = wpc[w]
  <2>1. CASE UNCHANGED wpc
    BY <2>1
  <2>2. CASE Start /\ wpc' = [w \in Workers |-> "pop"]
    <3>1. \A w \in Workers : wpc[w] = "none"
      BY <2>2 DEF Start, Inv, Lifecycle
    <3> QED BY <2>2, <3>1
  <2>3. CASE StopJoin
    BY <2>3 DEF StopJoin
  <2> QED BY <2>1, <2>2, <2>3 DEF Start, DrainCall, StopCall, DrainPollEnd, DrainReturn,
                                  DrainPoll, StopRequest, workerVars
<1>3. Order'
  BY <1>1, <1>2, StayOrdered
<1>4. Images'
  BY <1>1, <1>2, StayImages
<1> QED BY <1>3, <1>4

\* A worker that finds its queue ready, or is told to leave, moves no frame.
LEMMA WaitOrder ==
    ASSUME Inv, Order, Images, NEW w \in Workers, PopReady(w) \/ PopStopped(w)
    PROVE  Order' /\ Images'
<1>1. /\ UNCHANGED <<queue, hand, spc, outcome, exports, frameCounter, image, taken>>
      /\ wpc[w] = "pop" /\ wpc'[w] \in {"take", "exited"} /\ \A v \in Workers : v # w => wpc'[v] = wpc[v]
  BY DEF PopReady, PopStopped, GoTo, pipeVars, Inv, TypeOK
<1>2. Order'
  BY <1>1, StayOrdered
<1>3. Images'
  BY <1>1, StayImages
<1> QED BY <1>2, <1>3

\* A worker's frame fails, is dropped by a stop or leaves at the end of the chain.
LEMMA DropOrder ==
    ASSUME Inv, Order, Images, NEW w \in Workers, hand[w] # NoFrame,
           NEW how \in Outcomes \ {"new"}, Settle(hand[w], how),
           hand' = [hand EXCEPT ![w] = NoFrame], wpc'[w] \in {"pop", "exited"},
           \A v \in Workers : v # w => wpc'[v] = wpc[v] /\ taken'[v] = taken[v],
           image' = image \/ image' = NoFrame,
           UNCHANGED <<queue, spc, exports, frameCounter>>
    PROVE  Order' /\ Images'
<1>1. Order'
  BY DropOrdered
<1>2. Images'
  BY DropImages
<1> QED BY <1>1, <1>2

\* A stage computes its result, or fails.
LEMMA ProcessOrder ==
    ASSUME OneThreadPerStage, Inv, Order, Images, NEW w \in Workers,
           Process(w) \/ ProcessExport(w) \/ ProcessHeatmap(w)
    PROVE  Order' /\ Images'
<1>1. /\ UNCHANGED <<queue, spc, exports, frameCounter>>
      /\ image' = image \/ image' = NoFrame
      /\ wpc[w] \in {"process", "heatmap"} /\ \A v \in Workers : v # w => wpc'[v] = wpc[v] /\ taken'[v] = taken[v]
      /\ hand[w] # NoFrame
  BY DEF Process, ProcessExport, ProcessHeatmap, GoTo, Inv, TypeOK, Busy
<1>2. CASE Fails(w) /\ wpc'[w] = "pop"
  <2>1. Settle(hand[w], "failed") /\ hand' = [hand EXCEPT ![w] = NoFrame]
    BY <1>2 DEF Fails
  <2>2. "failed" \in Outcomes \ {"new"}
    BY DEF Outcomes
  <2> QED BY <1>1, <1>2, <2>1, <2>2, DropOrder
<1>3. CASE UNCHANGED <<hand, outcome>>
  <2>1. Order'
    BY <1>1, <1>3, StayOrdered
  <2>2. CASE Process(w) /\ wpc'[w] = "publish"
    <3>1. UNCHANGED <<image, taken>> /\ ~IsA(w, "Export")
      BY <2>2 DEF Process
    <3>2. TakenNewer'
      BY <1>1, <1>3, <3>1, TakenStays
    <3>3. ImageNewer' /\ ImageNotOlder' /\ (PastImages(1) => image' = NoFrame)
      BY <1>1, <1>3, <2>2, <3>1, ImageStays
    <3> QED BY <2>1, <3>2, <3>3 DEF Images, PastImages
  <2>3. CASE ProcessExport(w)
    BY <2>1, <2>3, ProcessExportImages
  <2>4. CASE ProcessHeatmap(w)
    BY <2>1, <2>4, ProcessHeatmapImages
  <2>5. CASE Process(w) /\ Fails(w)
    <3>1. hand'[w] = NoFrame
      BY <2>5 DEF Fails, Inv, TypeOK
    <3> QED BY <1>1, <1>3, <3>1
  <2>6. Process(w) => wpc'[w] = "publish" \/ Fails(w)
    BY DEF Process, GoTo, Inv, TypeOK
  <2> QED BY <2>1, <2>2, <2>3, <2>4, <2>5, <2>6
<1>4. \/ Fails(w) /\ wpc'[w] = "pop"
      \/ UNCHANGED <<hand, outcome>>
  BY DEF Process, ProcessExport, ProcessHeatmap, GoTo, Inv, TypeOK
<1> QED BY <1>2, <1>3, <1>4

\* The output goes on, is dropped by a stop, or was the last one of the chain.
LEMMA PushOrder ==
    ASSUME OneThreadPerStage, Inv, Order, Images, NEW w \in Workers,
           PushNext(w) \/ PushStopped(w) \/ PushTerminal(w)
    PROVE  Order' /\ Images'
<1>1. CASE PushNext(w)
  BY <1>1, PushNextOrdered, PushNextImages
<1>2. CASE PushStopped(w) \/ PushTerminal(w)
  <2>1. /\ UNCHANGED <<queue, spc, exports, frameCounter, image, taken>>
        /\ hand' = [hand EXCEPT ![w] = NoFrame] /\ wpc'[w] \in {"pop", "exited"}
        /\ \A v \in Workers : v # w => wpc'[v] = wpc[v]
        /\ hand[w] # NoFrame
    BY <1>2 DEF PushStopped, PushTerminal, GoTo, Inv, TypeOK, Busy
  <2>2. PICK how \in {"abandoned", "exported"} : Settle(hand[w], how)
    BY <1>2 DEF PushStopped, PushTerminal
  <2>3. how \in Outcomes \ {"new"}
    BY DEF Outcomes
  <2> QED BY <2>1, <2>2, <2>3, DropOrder
<1> QED BY <1>1, <1>2

\* Every step keeps the frames and the snapshots in order.
LEMMA OrderStep ==
    ASSUME OneThreadPerStage, Inv, Order, Images, [Next]_vars
    PROVE  Order' /\ Images'
<1>1. CASE UNCHANGED vars
  <2> USE <1>1 DEF vars, pipeVars, workerVars
  <2>1. Order'
    BY StayOrdered
  <2>2. Images'
    BY StayImages
  <2> QED BY <2>1, <2>2
<1>2. CASE SubmitCall
  <2>1. UNCHANGED <<queue, hand, exports, image, taken, wpc>>
    BY <1>2 DEF SubmitCall, workerVars
  <2>2. Images'
    BY <2>1, StayImages
  <2> QED BY <1>2, <2>2, SubmitCallOrdered
<1>3. CASE SubmitPush
  BY <1>3, SubmitPushOrdered, SubmitPushImages
<1>4. CASE Start \/ DrainCall \/ StopCall \/ DrainPollEnd \/ DrainReturn \/ StopJoin
           \/ (\E s \in Stages : DrainPoll(s)) \/ \E w \in Workers : StopRequest(w)
  BY <1>4, CallOrder
<1>5. ASSUME NEW s \in Stages, DrainForce(s) PROVE Order' /\ Images'
  BY <1>5, DrainForceOrdered, DrainForceImages
<1>6. ASSUME NEW w \in Workers, Work(w) PROVE Order' /\ Images'
  <2>1. CASE PopReady(w) \/ PopStopped(w)
    BY <2>1, WaitOrder
  <2>2. CASE PopTake(w)
    BY <2>2, PopTakeOrdered, PopTakeImages
  <2>3. CASE Process(w) \/ ProcessExport(w) \/ ProcessHeatmap(w)
    BY <2>3, ProcessOrder
  <2>4. CASE Publish(w)
    BY <2>4, PublishOrdered, PublishImages
  <2>5. CASE PushNext(w) \/ PushStopped(w) \/ PushTerminal(w)
    BY <2>5, PushOrder
  <2> QED BY <1>6, <2>1, <2>2, <2>3, <2>4, <2>5, Zenon DEF Work
<1> QED BY <1>1, <1>2, <1>3, <1>4, <1>5, <1>6, Zenon DEF Next, DrainStep, StopStep

\* Nothing is queued, held, published or reported yet.
LEMMA OrderInit == Init => Order /\ Images
<1> SUFFICES ASSUME Init PROVE Order /\ Images
  OBVIOUS
<1>1. /\ \A s \in Stages : DOMAIN queue[s] = {}
      /\ \A w \in Workers : hand[w] = NoFrame /\ wpc[w] = "none"
      /\ exports = <<>> /\ DOMAIN exports = {} /\ Len(exports) = 0 /\ frameCounter = 0
      /\ image = NoFrame /\ spc = "idle"
  BY DEF Init
<1>2. \A s \in Stages, f \in Frames : ~At(s, f)
  BY <1>1, Chain DEF At
<1>3. Order
  <2>1. OlderDownstream /\ NewestSubmitted
    BY <1>2 DEF OlderDownstream, NewestSubmitted
  <2>2. OlderInFront
    BY <1>1, PipelineAssumption DEF OlderInFront
  <2>3. ReportedOlder /\ ExportInOrder /\ frameCounter = Len(exports)
    BY <1>1 DEF ReportedOlder, ExportInOrder
  <2> QED BY <2>1, <2>2, <2>3 DEF Order
<1>4. Images
  BY <1>1 DEF Images, ImageNewer, TakenNewer, ImageNotOlder
<1> QED BY <1>3, <1>4

\* With one worker for each stage, result_callback_ is called for the frames in
\* the order of their Submit, and the frame ids it passes (frame_counter_) count
\* those calls: through failing stages, drains that race with the workers, frames
\* dropped by Stop, and restarts.
THEOREM ResultsInOrder ==
    ASSUME OneThreadPerStage
    PROVE  Spec => []ExportInOrder
<1>1. Inv /\ Order /\ Images /\ [Next]_vars => (Inv /\ Order /\ Images)'
  BY InvStep, OrderStep
<1>2. Order => ExportInOrder
  BY DEF Order
<1> QED BY <1>1, <1>2, InvInit, OrderInit, PTL DEF Spec

\* With one worker for each stage, the image that Export takes from the side
\* channel (TakeFrameImage) is never that of a frame older than the one it
\* exports: a frame that Preprocess finished later may have replaced it, and
\* another may have taken it, but none is left over.
THEOREM SnapshotNotOlder ==
    ASSUME OneThreadPerStage
    PROVE  Spec => []ImageNotOlder
<1>1. Inv /\ Order /\ Images /\ [Next]_vars => (Inv /\ Order /\ Images)'
  BY InvStep, OrderStep
<1>2. Images => ImageNotOlder
  BY DEF Images
<1> QED BY <1>1, <1>2, InvInit, OrderInit, PTL DEF Spec

-----------------------------------------------------------------------------
(* The runner's inductive invariant                                         *)

\* The verdict in the file is of a frame that Export has dealt with, and so of
\* one older than every frame that is still to come to it.
FileOlder ==
    /\ file <= Count /\ (spc = "push" => file < Count)
    /\ \A s \in Stages : \A i \in DOMAIN queue[s] : file < queue[s][i]
    /\ \A w \in Workers : hand[w] # NoFrame =>
          \/ file < hand[w]
          \/ IsA(w, "Export") /\ wpc[w] \in {"heatmap", "publish", "push"}

\* What has been read from it is not newer.
RecordsOlder ==
    /\ file \in Frames \cup {NoFrame} /\ records \in Seq(Frames \cup {NoFrame})
    /\ \A i \in DOMAIN records : records[i] <= file

RunInv == Inv /\ Order /\ Images /\ FileOlder /\ RecordsOlder /\ VerdictsAdvance

-----------------------------------------------------------------------------
(* Where a step of the pipeline takes the frames                            *)

\* A queue's frames were in a queue, with a worker that has its stage's output in
\* hand, or with Submit; a worker's frame was its own or in a queue.
Moves ==
    /\ \A s \in Stages : \A i \in DOMAIN queue'[s] :
          \/ \E r \in Stages : \E j \in DOMAIN queue[r] : queue'[s][i] = queue[r][j]
          \/ \E v \in Workers : /\ hand[v] # NoFrame /\ queue'[s][i] = hand[v]
                                /\ wpc[v] = "push" /\ StageOf[v] < Last
          \/ spc = "push" /\ queue'[s][i] = Count
    /\ \A w \in Workers : hand'[w] # NoFrame =>
          \/ \E r \in Stages : \E j \in DOMAIN queue[r] : hand'[w] = queue[r][j]
          \/ hand'[w] = hand[w] /\ (wpc[w] \in {"heatmap", "publish", "push"} =>
                                       wpc'[w] \in {"heatmap", "publish", "push"})
    /\ Count' \in Nat /\ Count <= Count'
    /\ spc' = "push" => spc = "push" \/ Count < Count'

\* Frames that stay where they are.
LEMMA StayMoves ==
    ASSUME Inv, UNCHANGED <<queue, hand, spc, outcome>>,
           \A w \in Workers : wpc[w] \in {"heatmap", "publish", "push"} /\ hand[w] # NoFrame =>
                                 wpc'[w] \in {"heatmap", "publish", "push"}
    PROVE  Moves
<1>1. Count' = Count /\ Count \in Nat
  BY Numbers DEF Count, Submitted
<1> QED BY <1>1 DEF Moves

\* A worker lets go of its frame.
LEMMA DropMoves ==
    ASSUME Inv, NEW w \in Workers, hand[w] # NoFrame,
           NEW how \in Outcomes \ {"new"}, Settle(hand[w], how),
           hand' = [hand EXCEPT ![w] = NoFrame],
           \A v \in Workers : v # w => wpc'[v] = wpc[v],
           UNCHANGED <<queue, spc>>
    PROVE  Moves
<1>1. hand[w] \in Frames /\ outcome[hand[w]] = "inflight"
  BY DEF Inv, TypeOK, Placed, OwnedInFlight
<1>2. Count' = Count /\ Count \in Nat
  BY <1>1, SettleKeepsCount, Numbers DEF Inv
<1>3. hand'[w] = NoFrame /\ \A v \in Workers : v # w => hand'[v] = hand[v]
  BY DEF Inv, TypeOK
<1> QED BY <1>2, <1>3 DEF Moves

\* Submit numbers a frame, and pushes it.
LEMMA SubmitMoves ==
    ASSUME Inv, SubmitCall \/ SubmitPush
    PROVE  Moves
<1>0. UNCHANGED <<hand, wpc>> /\ Count \in Nat
  BY Numbers DEF SubmitCall, SubmitPush, workerVars
<1>1. CASE SubmitCall
  <2>1. Count' = Count + 1
    <3>1. Count \in 0 .. MaxFrames /\ Submitted = 1 .. Count /\ Count + 1 \in Frames
      BY <1>1, Counted, PipelineAssumption DEF SubmitCall, Inv, Frames
    <3>2. outcome'[Count + 1] = "inflight" /\ \A g \in Frames : g # Count + 1 => outcome'[g] = outcome[g]
      BY <1>1, <3>1 DEF SubmitCall, Inv, TypeOK, Settle, Count
    <3>3. Submitted' = Submitted \cup {Count + 1}
      BY <3>1, <3>2 DEF Submitted
    <3>4. Submitted' = 1 .. Count + 1
      BY <3>1, <3>3
    <3>5. Cardinality(1 .. Count + 1) = Count + 1
      BY <3>1, FS_Interval
    <3> QED BY <3>4, <3>5 DEF Count
  <2>2. UNCHANGED queue
    BY <1>1 DEF SubmitCall
  <2> QED BY <1>0, <2>1, <2>2 DEF Moves
<1>2. CASE SubmitPush
  <2>1. Count' = Count /\ spc = "push" /\ spc' = "idle"
    BY <1>2 DEF SubmitPush, Count, Submitted
  <2>2. /\ queue' = [queue EXCEPT ![1] = Append(queue[1], Count)] /\ 1 \in Stages
        /\ Len(queue[1]) < Capacity[1] /\ Count \in Frames
    BY <1>2, Chain DEF SubmitPush, Inv, Placed, OwnedInFlight, Count
  <2>3. /\ \A r \in Stages : r # 1 => queue'[r] = queue[r]
        /\ \A i \in DOMAIN queue'[1] : \/ i \in DOMAIN queue[1] /\ queue'[1][i] = queue[1][i]
                                       \/ queue'[1][i] = Count
    BY <2>2, Pushed DEF Inv
  <2> QED BY <1>0, <2>1, <2>3 DEF Moves
<1> QED BY <1>1, <1>2

\* A worker takes the front of its queue, or passes its output on.
LEMMA PassMoves ==
    ASSUME Inv, NEW w \in Workers, PopTake(w) \/ PushNext(w)
    PROVE  Moves
<1>0. /\ Count' = Count /\ Count \in Nat /\ UNCHANGED <<spc, outcome>> /\ StageOf[w] \in Stages
      /\ \A v \in Workers : v # w => wpc'[v] = wpc[v]
  <2>1. UNCHANGED <<spc, outcome>>
    BY DEF PopTake, PushNext
  <2>2. Count' = Count /\ Count \in Nat /\ StageOf[w] \in Stages
    BY <2>1, Numbers DEF Count, Submitted
  <2>3. \A v \in Workers : v # w => wpc'[v] = wpc[v]
    BY DEF PopTake, PushNext, GoTo, Inv, TypeOK
  <2> QED BY <2>1, <2>2, <2>3
<1>1. CASE PopTake(w)
  <2> DEFINE s == StageOf[w]
  <2>1. CASE UNCHANGED <<hand, queue>>
    <3>1. hand[w] = NoFrame
      BY <1>1 DEF PopTake, Inv, Busy
    <3> QED BY <1>0, <2>1, <3>1, StayMoves
  <2>2. CASE /\ queue[s] # <<>> /\ hand' = [hand EXCEPT ![w] = Head(queue[s])]
             /\ queue' = [queue EXCEPT ![s] = Tail(queue[s])]
    <3>1. /\ 1 \in DOMAIN queue[s] /\ Head(queue[s]) = queue[s][1]
          /\ \A r \in Stages : r # s => queue'[r] = queue[r]
          /\ \A i \in DOMAIN queue'[s] : i + 1 \in DOMAIN queue[s] /\ queue'[s][i] = queue[s][i + 1]
      BY <1>0, <2>2, Popped DEF Inv
    <3>2. hand'[w] = queue[s][1] /\ \A v \in Workers : v # w => hand'[v] = hand[v]
      BY <2>2, <3>1 DEF Inv, TypeOK
    <3>3. \A r \in Stages : \A i \in DOMAIN queue'[r] :
             \E q \in Stages : \E j \in DOMAIN queue[q] : queue'[r][i] = queue[q][j]
      BY <1>0, <3>1
    <3>4. \A v \in Workers : hand'[v] # NoFrame =>
             \/ \E r \in Stages : \E j \in DOMAIN queue[r] : hand'[v] = queue[r][j]
             \/ hand'[v] = hand[v] /\ wpc'[v] = wpc[v]
      BY <1>0, <3>1, <3>2
    <3> QED BY <1>0, <3>3, <3>4 DEF Moves
  <2> QED BY <1>1, <2>1, <2>2 DEF PopTake
<1>2. CASE PushNext(w)
  <2> DEFINE s == StageOf[w] + 1
  <2>1. /\ wpc[w] = "push" /\ StageOf[w] < Last /\ hand[w] # NoFrame /\ hand[w] \in Frames
        /\ hand'[w] = NoFrame /\ \A v \in Workers : v # w => hand'[v] = hand[v]
        /\ Len(queue[s]) < Capacity[s] /\ queue' = [queue EXCEPT ![s] = Append(queue[s], hand[w])]
    BY <1>2 DEF PushNext, Inv, Busy, TypeOK
  <2>2. s \in Stages
    BY <1>0, <2>1, Chain
  <2>3. /\ \A r \in Stages : r # s => queue'[r] = queue[r]
        /\ \A i \in DOMAIN queue'[s] : \/ i \in DOMAIN queue[s] /\ queue'[s][i] = queue[s][i]
                                       \/ queue'[s][i] = hand[w]
    BY <2>1, <2>2, Pushed DEF Inv
  <2> HIDE DEF s
  <2>4. \A r \in Stages : \A i \in DOMAIN queue'[r] :
           \/ \E q \in Stages : \E j \in DOMAIN queue[q] : queue'[r][i] = queue[q][j]
           \/ queue'[r][i] = hand[w]
    BY <2>2, <2>3
  <2> QED BY <1>0, <2>1, <2>4 DEF Moves
<1> QED BY <1>1, <1>2

\* Drain discards the front of a queue.
LEMMA DrainForceMoves ==
    ASSUME Inv, NEW s \in Stages, DrainForce(s)
    PROVE  Moves
<1>0. UNCHANGED <<wpc, hand, spc>>
  BY DEF DrainForce, workerVars
<1>1. CASE UNCHANGED <<queue, outcome>>
  BY <1>0, <1>1, StayMoves
<1>2. CASE /\ queue[s] # <<>> /\ queue' = [queue EXCEPT ![s] = Tail(queue[s])]
           /\ Settle(Head(queue[s]), "drained")
  <2>1. /\ 1 \in DOMAIN queue[s] /\ Head(queue[s]) = queue[s][1] /\ queue[s][1] \in Frames
        /\ \A r \in Stages : r # s => queue'[r] = queue[r]
        /\ \A i \in DOMAIN queue'[s] : i + 1 \in DOMAIN queue[s] /\ queue'[s][i] = queue[s][i + 1]
    BY <1>2, Popped DEF Inv
  <2>2. outcome[Head(queue[s])] = "inflight" /\ Head(queue[s]) \in Frames
    BY <2>1 DEF Inv, Placed, OwnedInFlight
  <2>3. "drained" \in Outcomes \ {"new"}
    BY DEF Outcomes
  <2>4. Count' = Count /\ Count \in Nat
    BY <1>2, <2>2, <2>3, SettleKeepsCount, Numbers DEF Inv
  <2>5. \A r \in Stages : \A i \in DOMAIN queue'[r] :
           \E q \in Stages : \E j \in DOMAIN queue[q] : queue'[r][i] = queue[q][j]
    BY <2>1
  <2> QED BY <1>0, <2>4, <2>5 DEF Moves
<1> QED BY <1>1, <1>2 DEF DrainForce

\* Every step of the pipeline moves frames in this way.
LEMMA StepMoves ==
    ASSUME Inv, [Next]_vars
    PROVE  Moves
<1>1. CASE UNCHANGED vars
  BY <1>1, StayMoves DEF vars, pipeVars, workerVars
<1>2. CASE SubmitCall \/ SubmitPush
  BY <1>2, SubmitMoves
<1>3. CASE \/ Start \/ DrainCall \/ StopCall \/ DrainPollEnd \/ DrainReturn \/ StopJoin
           \/ (\E s \in Stages : DrainPoll(s)) \/ \E w \in Workers : StopRequest(w)
  <2>1. UNCHANGED <<queue, hand, spc, outcome>>
    BY <1>3 DEF Start, DrainCall, StopCall, DrainPollEnd, DrainReturn, StopJoin, DrainPoll, StopRequest,
                pipeVars, workerVars
  <2>2. \A w \in Workers : wpc[w] \in {"heatmap", "publish", "push"} /\ hand[w] # NoFrame =>
                              wpc'[w] \in {"heatmap", "publish", "push"}
    <3>1. CASE UNCHANGED wpc
      BY <3>1
    <3>2. CASE Start
      BY <3>2 DEF Start, Inv, Lifecycle
    <3>3. CASE StopJoin
      BY <3>3 DEF StopJoin
    <3> QED BY <1>3, <3>1, <3>2, <3>3 DEF DrainCall, StopCall, DrainPollEnd, DrainReturn,
                                          DrainPoll, StopRequest, workerVars
  <2> QED BY <2>1, <2>2, StayMoves
<1>4. ASSUME NEW s \in Stages, DrainForce(s) PROVE Moves
  BY <1>4, DrainForceMoves
<1>5. ASSUME NEW w \in Workers, Work(w) PROVE Moves
  <2>1. CASE PopReady(w) \/ PopStopped(w)
    <3>1. /\ UNCHANGED <<queue, hand, spc, outcome>> /\ wpc[w] = "pop"
          /\ \A v \in Workers : v # w => wpc'[v] = wpc[v]
      BY <2>1 DEF PopReady, PopStopped, GoTo, pipeVars, Inv, TypeOK
    <3> QED BY <3>1, StayMoves
  <2>2. CASE PopTake(w) \/ PushNext(w)
    BY <2>2, PassMoves
  <2>3. CASE ProcessHeatmap(w) \/ Publish(w)
    <3>1. /\ UNCHANGED <<queue, hand, spc, outcome>> /\ wpc'[w] \in {"publish", "push"}
          /\ \A v \in Workers : v # w => wpc'[v] = wpc[v]
      BY <2>3 DEF ProcessHeatmap, Publish, GoTo, Inv, TypeOK
    <3> QED BY <3>1, StayMoves
  <2>4. CASE Process(w) \/ ProcessExport(w)
    <3>1. /\ UNCHANGED <<queue, spc>> /\ wpc[w] = "process" /\ hand[w] # NoFrame
          /\ \A v \in Workers : v # w => wpc'[v] = wpc[v]
      BY <2>4 DEF Process, ProcessExport, GoTo, Inv, TypeOK, Busy
    <3>2. CASE UNCHANGED <<hand, outcome>>
      BY <3>1, <3>2, StayMoves
    <3>3. CASE Fails(w)
      <4>1. Settle(hand[w], "failed") /\ hand' = [hand EXCEPT ![w] = NoFrame]
        BY <3>3 DEF Fails
      <4>2. "failed" \in Outcomes \ {"new"}
        BY DEF Outcomes
      <4> QED BY <3>1, <4>1, <4>2, DropMoves
    <3> QED BY <2>4, <3>2, <3>3 DEF Process, ProcessExport
  <2>5. CASE PushStopped(w) \/ PushTerminal(w)
    <3>1. /\ UNCHANGED <<queue, spc>> /\ hand[w] # NoFrame
          /\ hand' = [hand EXCEPT ![w] = NoFrame]
          /\ \A v \in Workers : v # w => wpc'[v] = wpc[v]
      BY <2>5 DEF PushStopped, PushTerminal, GoTo, Inv, TypeOK, Busy
    <3>2. PICK how \in {"abandoned", "exported"} : Settle(hand[w], how)
      BY <2>5 DEF PushStopped, PushTerminal
    <3>3. how \in Outcomes \ {"new"}
      BY DEF Outcomes
    <3> QED BY <3>1, <3>2, <3>3, DropMoves
  <2> QED BY <1>5, <2>1, <2>2, <2>3, <2>4, <2>5, Zenon DEF Work
<1> QED BY <1>1, <1>2, <1>3, <1>4, <1>5, Zenon DEF Next, DrainStep, StopStep

-----------------------------------------------------------------------------
(* The file and the records                                                 *)

\* A step that leaves the file alone.
LEMMA FileStays ==
    ASSUME OneThreadPerStage, Inv, FileOlder, RecordsOlder, [Next]_vars, file' = file
    PROVE  FileOlder'
<1>1. Moves
  BY StepMoves
<1>2. /\ Count \in Nat /\ file \in Nat /\ StageTypes \in Seq({"Capture", "Preprocess", "Inference", "Detect",
                           "RuleEval", "Reason", "Export", "Custom"})
      /\ \A s \in Stages : \A i \in DOMAIN queue[s] : queue[s][i] \in Frames
      /\ Frames \subseteq Nat \ {0} /\ NoFrame = 0 /\ Last \in Nat
      /\ \A w \in Workers : StageOf[w] \in Stages /\ hand[w] \in Frames \cup {NoFrame}
  BY Numbers, PipelineAssumption, Chain DEF RecordsOlder
<1>3. file <= Count' /\ (spc' = "push" => file < Count')
  BY <1>1, <1>2 DEF Moves, FileOlder
<1>4. ASSUME NEW s \in Stages, NEW i \in DOMAIN queue'[s] PROVE file < queue'[s][i]
  <2>1. CASE \E r \in Stages : \E j \in DOMAIN queue[r] : queue'[s][i] = queue[r][j]
    BY <2>1 DEF FileOlder
  <2>2. ASSUME NEW v \in Workers, hand[v] # NoFrame, queue'[s][i] = hand[v], wpc[v] = "push", StageOf[v] < Last
        PROVE  file < queue'[s][i]
    <3>1. ~IsA(v, "Export")
      BY <1>2, <2>2 DEF IsA, OneThreadPerStage
    <3> QED BY <2>2, <3>1 DEF FileOlder
  <2>3. CASE spc = "push" /\ queue'[s][i] = Count
    BY <2>3 DEF FileOlder
  <2> QED BY <1>1, <2>1, <2>2, <2>3 DEF Moves
<1>5. ASSUME NEW w \in Workers, hand'[w] # NoFrame
      PROVE  file < hand'[w] \/ (IsA(w, "Export") /\ wpc'[w] \in {"heatmap", "publish", "push"})
  BY <1>1, <1>5 DEF Moves, FileOlder
<1> QED BY <1>3, <1>4, <1>5 DEF FileOlder, IsA

\* Export writes its verdict: its frame is older than all that are not past it.
LEMMA FileWritten ==
    ASSUME OneThreadPerStage, Inv, Order, FileOlder, RecordsOlder, NEW w \in Workers, ProcessExport(w), wpc'[w] = "heatmap",
           file' = hand[w]
    PROVE  FileOlder' /\ file <= file' /\ file' \in Frames
<1> DEFINE h == hand[w]
           s == StageOf[w]
<1>1. /\ wpc[w] = "process" /\ IsA(w, "Export") /\ UNCHANGED <<queue, hand, spc, outcome>>
      /\ \A v \in Workers : v # w => wpc'[v] = wpc[v]
  BY DEF ProcessExport, GoTo, Inv, TypeOK
<1>2. h \in Frames /\ s \in Stages /\ s = Last /\ At(s, h)
  <2>1. h \in Frames /\ s \in Stages
    BY <1>1, PipelineAssumption DEF Inv, Busy, TypeOK
  <2> QED BY <1>1, <2>1 DEF IsA, OneThreadPerStage, At
<1>3. Count' = Count
  BY <1>1 DEF Count, Submitted
<1>4. file < h
  BY <1>1, <1>2, Chain DEF FileOlder
<1>5. h <= Count /\ (spc = "push" => h < Count)
  BY <1>2 DEF Order, NewestSubmitted
<1>6. \A r \in Stages, f \in Frames : r # s /\ At(r, f) => h < f
  <2>1. \A r \in Stages : r # s => r < s
    BY <1>2, Chain
  <2> QED BY <1>2, <2>1 DEF Order, OlderDownstream
<1>7. ASSUME NEW r \in Stages, NEW i \in DOMAIN queue[r] PROVE h < queue[r][i]
  <2>1. queue[r][i] \in Frames /\ At(r, queue[r][i])
    BY Numbers DEF At
  <2>2. CASE r = s
    BY <2>2 DEF Order, OlderInFront
  <2> QED BY <1>6, <2>1, <2>2
<1>8. ASSUME NEW v \in Workers, hand[v] # NoFrame, v # w PROVE h < hand[v]
  <2>1. hand[v] \in Frames /\ StageOf[v] \in Stages /\ StageOf[v] # s /\ At(StageOf[v], hand[v])
    BY <1>8, Numbers DEF At, OneThreadPerStage
  <2> QED BY <1>6, <2>1
<1>9. file <= h
  <2>1. file \in Nat
    BY Chain DEF RecordsOlder, NoFrame
  <2>2. h \in Nat
    BY <1>2, Chain
  <2> QED BY <1>4, <2>1, <2>2
<1> HIDE DEF h, s
<1>10. FileOlder'
  BY <1>1, <1>3, <1>5, <1>7, <1>8 DEF FileOlder, IsA, h
<1> QED BY <1>2, <1>9, <1>10 DEF h

\* A step that records nothing.
LEMMA RecordsStay ==
    ASSUME RecordsOlder, VerdictsAdvance, records' = records, file' \in Frames \cup {NoFrame}, file <= file'
    PROVE  RecordsOlder' /\ VerdictsAdvance'
<1> DEFINE T == Frames \cup {NoFrame}
<1>1. \A i \in DOMAIN records : records[i] \in Nat
  <2>1. T \subseteq Nat /\ records \in Seq(T)
    BY Chain DEF RecordsOlder, NoFrame
  <2> HIDE DEF T
  <2>2. \A i \in DOMAIN records : records[i] \in T
    BY <2>1
  <2> QED BY <2>1, <2>2
<1> HIDE DEF T
<1>2. file \in Nat /\ file' \in Nat
  BY Chain DEF RecordsOlder, NoFrame
<1> QED BY <1>1, <1>2 DEF RecordsOlder, VerdictsAdvance

\* A read records the file or nothing.
LEMMA RecordsGrow ==
    ASSUME RecordsOlder, VerdictsAdvance, NEW r \in {file, Unknown}, records' = Append(records, r), file' = file
    PROVE  RecordsOlder' /\ VerdictsAdvance'
<1> DEFINE T == Frames \cup {NoFrame}
<1>1. records \in Seq(T) /\ r \in T /\ file \in T
  BY DEF RecordsOlder, Unknown
<1>2. T \subseteq Nat /\ Unknown = 0
  BY Chain DEF Unknown, NoFrame
<1> HIDE DEF T
<1>3. /\ records' \in Seq(T) /\ Len(records) \in Nat
      /\ DOMAIN records' = 1 .. Len(records) + 1 /\ DOMAIN records = 1 .. Len(records)
      /\ \A i \in 1 .. Len(records) : records'[i] = records[i]
      /\ records'[Len(records) + 1] = r
  BY <1>1
<1>4. \A i \in 1 .. Len(records) : records[i] \in Nat /\ records[i] <= file
  <2>1. \A i \in 1 .. Len(records) : records[i] \in T
    BY <1>1, <1>3
  <2>2. \A i \in 1 .. Len(records) : records[i] <= file
    BY <1>3 DEF RecordsOlder
  <2> QED BY <1>2, <2>1, <2>2
<1>5. r \in Nat /\ file \in Nat /\ (r = file \/ r = Unknown) /\ r <= file
  BY <1>1, <1>2
<1>6. RecordsOlder'
  BY <1>1, <1>3, <1>4, <1>5 DEF RecordsOlder, T
<1>7. VerdictsAdvance'
  <2> SUFFICES ASSUME NEW i \in 1 .. Len(records) + 1, NEW j \in 1 .. Len(records) + 1, i < j,
                      records'[i] # Unknown, records'[j] # Unknown
               PROVE  records'[i] <= records'[j]
    BY <1>3 DEF VerdictsAdvance, Unknown
  <2>1. i \in 1 .. Len(records)
    BY <1>3
  <2>2. CASE j \in 1 .. Len(records)
    BY <1>3, <2>1, <2>2 DEF VerdictsAdvance
  <2>3. CASE j = Len(records) + 1
    BY <1>3, <1>4, <1>5, <2>1, <2>3
  <2> QED BY <1>3, <2>2, <2>3
<1> QED BY <1>6, <1>7

-----------------------------------------------------------------------------
(* The runner                                                               *)

\* Every step of the runner is a step of the pipeline or leaves it alone.
LEMMA RunnerStepsPipeline == [RunNext]_runVars => [Next]_vars
<1> SUFFICES ASSUME [RunNext]_runVars PROVE [Next]_vars
  OBVIOUS
<1>1. CASE UNCHANGED runVars
  BY <1>1 DEF runVars
<1>2. CASE RunRead
  BY <1>2 DEF RunRead
<1>3. CASE RunStart \/ RunSubmit \/ RunPush \/ RunDrain \/ RunCall \/ RunStop
  BY <1>3, Zenon DEF RunStart, RunSubmit, RunPush, RunDrain, RunCall, RunStop, Next
<1>4. ASSUME NEW w \in Workers, RunWork(w) PROVE [Next]_vars
  BY <1>4, Zenon DEF RunWork, Next
<1> QED BY <1>1, <1>2, <1>3, <1>4, Zenon DEF RunNext

\* The runner's invariant is kept by every step.
LEMMA RunStep ==
    ASSUME OneThreadPerStage, RunInv, [RunNext]_runVars
    PROVE  RunInv'
<1> USE DEF RunInv
<1>1. [Next]_vars
  BY RunnerStepsPipeline
<1>2. Inv' /\ Order' /\ Images'
  BY <1>1, InvStep, OrderStep
<1>3. file \in Frames \cup {NoFrame} /\ file <= file
  BY Chain DEF RecordsOlder, NoFrame
<1>4. CASE UNCHANGED <<file, records>>
  BY <1>1, <1>2, <1>3, <1>4, FileStays, RecordsStay
<1>5. CASE RunRead
  <2>1. file' = file /\ \E r \in {file, Unknown} : records' = Append(records, r)
    BY <1>5 DEF RunRead
  <2> QED BY <1>1, <1>2, <2>1, FileStays, RecordsGrow
<1>6. ASSUME NEW w \in Workers, RunWork(w) PROVE RunInv'
  <2>1. CASE Exporting(w) /\ wpc'[w] = "heatmap"
    <3>1. ProcessExport(w) /\ file' = hand[w] /\ records' = records
      BY <1>6, <2>1 DEF RunWork, Exporting, Work, PopReady, PopStopped, PopTake, Process, ProcessHeatmap,
                        Publish, PushNext, PushStopped, PushTerminal
    <3>2. FileOlder' /\ file <= file' /\ file' \in Frames
      BY <2>1, <3>1, FileWritten
    <3> QED BY <1>2, <3>1, <3>2, RecordsStay
  <2>2. CASE ~(Exporting(w) /\ wpc'[w] = "heatmap")
    BY <1>4, <1>6, <2>2 DEF RunWork
  <2> QED BY <2>1, <2>2
<1> QED BY <1>4, <1>5, <1>6, Zenon DEF RunNext, RunStart, RunSubmit, RunPush, RunDrain, RunCall, RunStop, runVars

\* Nothing is written or recorded yet.
LEMMA RunStarts == RunInit => RunInv
<1> SUFFICES ASSUME RunInit PROVE RunInv
  OBVIOUS
<1>1. Inv /\ Order /\ Images
  BY InvInit, OrderInit DEF RunInit
<1>2. /\ file = 0 /\ records = <<>> /\ DOMAIN records = {} /\ spc = "idle"
      /\ \A w \in Workers : hand[w] = NoFrame
      /\ \A s \in Stages : DOMAIN queue[s] = {}
  BY DEF RunInit, Init, NoFrame
<1>3. Count \in Nat
  BY <1>1, Numbers
<1>4. FileOlder
  BY <1>2, <1>3 DEF FileOlder
<1>5. RecordsOlder /\ VerdictsAdvance
  BY <1>2 DEF RecordsOlder, VerdictsAdvance, NoFrame
<1> QED BY <1>1, <1>4, <1>5 DEF RunInv

\* RunHeadless only calls Start, Submit, Drain and Stop of the pipeline, in turn:
\* whatever it does, each of its frames has one owner until it is accounted for.
THEOREM RunnerKeepsPipeline == RunSpec => []PipelineInv
<1>1. RunInit => Inv
  BY InvInit DEF RunInit
<1>2. Inv /\ [RunNext]_runVars => Inv'
  BY InvStep, RunnerStepsPipeline
<1>3. Inv => PipelineInv
  BY OwnersCounted DEF Inv, PipelineInv
<1> QED BY <1>1, <1>2, <1>3, PTL DEF RunSpec

\* With one worker for each stage, the verdicts that RunHeadless reads from
\* result.json never go back to an earlier frame: not when Drain gave up on frames
\* in flight, not when Export writes late, not when a read fails.
THEOREM RecordedInOrder ==
    ASSUME OneThreadPerStage
    PROVE  RunSpec => []VerdictsAdvance
<1>1. RunInv /\ [RunNext]_runVars => RunInv'
  BY RunStep
<1>2. RunInv => VerdictsAdvance
  BY DEF RunInv
<1> QED BY <1>1, <1>2, RunStarts, PTL DEF RunSpec

=============================================================================
