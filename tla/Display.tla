------------------------------- MODULE Display -------------------------------
(***************************************************************************)
(* What the operator sees (src/src/visualization, apps/seat-aoi            *)
(* gui_runner.cpp): the picture of a camera, the last verdict with its     *)
(* evidence and defects, and the counts of the dashboard.                  *)
(*                                                                         *)
(* Live, each position has a camera thread that numbers its frame, puts    *)
(* the picture into a cache of Slots and submits the frame; only the       *)
(* Primary position's pipeline reports to the display.  Its Export worker  *)
(* writes the view models field by field and posts events; the GUI thread  *)
(* takes the events one by one and reads the fields one by one.  In review *)
(* mode the GUI thread fills the same view models from an index.           *)
(*                                                                         *)
(* A frame number stands for all that belongs to the frame: its picture,   *)
(* its confidence, its texts, its evidence and its regions.                *)
(***************************************************************************)
EXTENDS Integers, Sequences, SequencesExt, FiniteSets

CONSTANTS
    Cameras, Primary,  \* the positions' cameras, and the one that is displayed
    Slots,             \* kCacheSize
    kMax,              \* kMaxFrameSummaries
    Verdicts,          \* verdicts of the reasoner or of a review index
    Reviews,           \* review indices: the frames, with number, verdict and image
    MaxFrames,         \* bound: frames taken
    MaxTicks           \* bound: pictures asked for

VARIABLES
    mode,       \* "start", "live" or "review"
    counter,    \* frame_counter of the GUI runner
    camera,     \* camera -> its number and step, "free" between two frames
    cached,     \* slot -> frame_id and picture; 0 and no picture at first
    latest,     \* latest_frame_id_
    paths,      \* frame_paths_
    line,       \* frames accepted by the primary pipeline and not yet detected
    detected,   \* frames between Detect and Export
    running,    \* running_ of the primary pipeline
    export,     \* the Export worker: its result and the fields still to write
    results,    \* all results so far
    view,       \* InspectionViewModel
    board,      \* DashboardViewModel
    posted,     \* events of the GUI thread
    reading,    \* fields the GUI thread has yet to read for the event it handles
    shown,      \* field -> what the operator sees
    tick,       \* refreshCounter of the monitor
    served,     \* the last picture: the number asked for, what was given, and the latest then
    status      \* reload_status_ of RestartPipeline

displayVars == <<mode, counter, camera, cached, latest, paths, line, detected, running, export, results,
                 view, board, posted, reading, shown, tick, served, status>>
pictureVars == <<counter, camera, cached, latest, paths, tick, served>>
pipelineVars == <<line, detected, running>>
reportVars == <<export, results, view, board>>
guiVars == <<reading, shown, status>>

None == -1
ViewFields == <<"id", "confidence", "texts">>
BoardFields == <<"total", "OK", "NG", "WARN">>

DisplayInit ==
    /\ mode = "start"
    /\ counter = 0 /\ camera = [c \in Cameras |-> [at |-> "free", frame |-> None]]
    /\ cached = [i \in 0 .. Slots - 1 |-> [frame |-> 0, picture |-> None]]
    /\ latest = 0 /\ paths = {}
    /\ line = <<>> /\ detected = <<>> /\ running = TRUE
    /\ export = [result |-> None, left |-> <<>>] /\ results = <<>>
    /\ view = [f \in Range(ViewFields) |-> None]
    /\ board = [f \in Range(BoardFields) \cup {"summaries", "trend"} |-> IF f \in {"summaries", "trend"} THEN <<>> ELSE 0]
    /\ posted = <<>> /\ reading = <<>> /\ shown = [f \in {} |-> 0]
    /\ tick = 0 /\ served = [asked |-> None, picture |-> None, latest |-> None] /\ status = ""

(***************************************************************************)
(* FrameProvider                                                           *)
(***************************************************************************)
Cache(f) ==
    /\ cached' = [cached EXCEPT ![f % Slots] = [frame |-> f, picture |-> f]]
    /\ latest' = f

\* The camera's callback: a number of the counter that all cameras share, ...
Number(c) ==
    /\ mode = "live" /\ camera[c].at = "free" /\ counter < MaxFrames
    /\ camera' = [camera EXCEPT ![c] = [at |-> "register", frame |-> counter]]
    /\ counter' = counter + 1
    /\ UNCHANGED <<cached, latest, paths, tick, served>>
    /\ UNCHANGED <<mode, pipelineVars, reportVars, guiVars, posted>>

\* ... the picture, under the lock of the cache, ...
RegisterRawFrame(c) ==
    /\ camera[c].at = "register"
    /\ Cache(camera[c].frame)
    /\ camera' = [camera EXCEPT ![c].at = "submit"]
    /\ UNCHANGED <<counter, paths, tick, served>>
    /\ UNCHANGED <<mode, pipelineVars, reportVars, guiVars, posted>>

\* ... and the frame, to the position's own pipeline, which is not displayed unless primary.
Submit(c) ==
    /\ camera[c].at = "submit"
    /\ camera' = [camera EXCEPT ![c] = [at |-> "free", frame |-> None]]
    /\ line' = IF c = Primary /\ running THEN Append(line, camera[c].frame) ELSE line
    /\ UNCHANGED <<detected, running>>
    /\ UNCHANGED <<mode, counter, cached, latest, paths, tick, served, reportVars, guiVars, posted>>

\* Variant of InCache: any picture in the slot will do.
InCacheBySlot(f) == cached[f % Slots].picture # None
InCache(f) == cached[f % Slots].frame = f
OnDisk(f) == f \in paths

\* The monitor asks for the picture of the timer's count.
requestImage ==
    /\ mode # "start" /\ tick < MaxTicks /\ status # "draining"
    /\ tick' = tick + 1
    /\ LET give(p) == served' = [asked |-> tick, picture |-> p, latest |-> latest] IN
         \/ /\ InCache(tick) /\ give(cached[tick % Slots].picture) /\ UNCHANGED <<cached, latest>>
         \/ /\ ~InCache(tick) /\ OnDisk(tick) /\ give(tick) /\ Cache(tick)
         \/ /\ ~InCache(tick) /\ ~OnDisk(tick) /\ give(None) /\ UNCHANGED <<cached, latest>>
    /\ UNCHANGED <<counter, camera, paths>>
    /\ UNCHANGED <<mode, pipelineVars, reportVars, guiVars, posted>>

(***************************************************************************)
(* The dashboard: what one field becomes by a frame of verdict v           *)
(***************************************************************************)
Column(v) == IF v = "UNCERTAIN" THEN "WARN" ELSE v
Kept(s) == SubSeq(s, IF Len(s) > kMax THEN Len(s) - kMax + 1 ELSE 1, Len(s))
CountOf(s, v) == Len(SelectSeq(s, LAMBDA x : x = v))
\* A point is the number of NG among the OK and NG so far, of the summaries that are kept.
TrendOf(s) ==
    [i \in 1 .. Len(s) |-> LET upTo == SubSeq(s, 1, i)
                           IN  <<CountOf(upTo, "NG"), CountOf(upTo, "OK") + CountOf(upTo, "NG")>>]

\* Variant of Recorded: the counts of frames that fall out of the deque are forgotten.
RecordedWithin(b, f, v) ==
    [b EXCEPT ![f] = CASE f = "summaries" -> Kept(Append(b.summaries, v))
                       [] f = "trend" -> TrendOf(b.summaries)
                       [] f = "total" -> Len(b.summaries)
                       [] OTHER -> b[f] + IF f = Column(v) THEN 1 ELSE 0]
Recorded(b, f, v) ==
    [b EXCEPT ![f] = CASE f = "summaries" -> Kept(Append(b.summaries, v))
                       [] f = "trend" -> TrendOf(b.summaries)
                       [] f = "total" -> b.total + 1
                       [] OTHER -> b[f] + IF f = Column(v) THEN 1 ELSE 0]
AppendSteps == <<"summaries">> \o BoardFields \o <<"trend">>
AppendFrameSummary(b, v) == FoldLeft(LAMBDA x, f : Recorded(x, f, v), b, AppendSteps)

(***************************************************************************)
(* The primary pipeline, one Detect and one Export worker                  *)
(***************************************************************************)
\* The detection callback posts the regions at once, before the frame has a verdict.
Detect ==
    /\ line # <<>> /\ line' = Tail(line)
    /\ \/ detected' = Append(detected, Head(line)) /\ posted' = Append(posted, <<"defects", Head(line)>>)
       \/ UNCHANGED <<detected, posted>>
    /\ UNCHANGED <<running, mode, pictureVars, reportVars, guiVars>>

\* The n-th result has the number n, whatever number its camera gave it.
Export ==
    /\ export.left = <<>> /\ detected # <<>> /\ detected' = Tail(detected)
    /\ \/ \E v \in Verdicts :
            LET r == [id |-> Len(results), frame |-> Head(detected), verdict |-> v] IN
            /\ results' = Append(results, r)
            /\ export' = [result |-> r, left |-> ViewFields \o <<"evidence", "resultChanged">> \o AppendSteps \o <<"summaryChanged">>]
       \/ UNCHANGED <<results, export>>
    /\ UNCHANGED <<line, running, view, board, mode, pictureVars, guiVars, posted>>

Reported == [export EXCEPT !.left = Tail(@)]

\* UpdateResult: frame_id_, confidence_, the texts under their lock.
UpdateResult ==
    /\ export.left # <<>> /\ Head(export.left) \in Range(ViewFields)
    /\ view' = [view EXCEPT ![Head(export.left)] = IF Head(export.left) = "id" THEN export.result.id ELSE export.result.frame]
    /\ export' = Reported
    /\ UNCHANGED <<results, board, mode, pictureVars, pipelineVars, guiVars, posted>>

\* The evidence is posted, and a signal to another thread is an event too.
Emit ==
    /\ export.left # <<>> /\ Head(export.left) \in {"evidence", "resultChanged", "summaryChanged"}
    /\ posted' = Append(posted, <<Head(export.left), export.result.frame>>)
    /\ export' = Reported
    /\ UNCHANGED <<results, view, board, mode, pictureVars, pipelineVars, guiVars>>

\* One field of AppendFrameSummary.
Summarise ==
    /\ export.left # <<>> /\ Head(export.left) \in Range(AppendSteps)
    /\ board' = Recorded(board, Head(export.left), export.result.verdict)
    /\ export' = Reported
    /\ UNCHANGED <<results, view, mode, pictureVars, pipelineVars, guiVars, posted>>

(***************************************************************************)
(* The GUI thread                                                          *)
(***************************************************************************)
Put(f, v) == [g \in DOMAIN shown \cup {f} |-> IF g = f THEN v ELSE shown[g]]

\* A model is replaced at once; for a signal, each bound property is read again.
HandleEvent ==
    /\ reading = <<>> /\ posted # <<>> /\ status # "draining" /\ posted' = Tail(posted)
    /\ LET event == Head(posted)[1] frame == Head(posted)[2] IN
         \/ event \in {"defects", "evidence"} /\ shown' = Put(event, frame) /\ UNCHANGED reading
         \/ event = "resultChanged" /\ reading' = ViewFields /\ UNCHANGED shown
         \/ event = "summaryChanged" /\ reading' = BoardFields \o <<"trend">> /\ UNCHANGED shown
    /\ UNCHANGED <<status, mode, pictureVars, pipelineVars, reportVars>>

ReadField ==
    /\ reading # <<>> /\ reading' = Tail(reading)
    /\ shown' = Put(Head(reading), IF Head(reading) \in Range(ViewFields) THEN view[Head(reading)] ELSE board[Head(reading)])
    /\ UNCHANGED <<status, mode, pictureVars, pipelineVars, reportVars, posted>>

\* RestartPipeline holds the GUI thread while it drains the pipeline, ...
RestartPipeline ==
    /\ mode = "live" /\ reading = <<>> /\ running /\ status = ""
    /\ status' = "draining"
    /\ UNCHANGED <<reading, shown, mode, pictureVars, pipelineVars, reportVars, posted>>

\* ... which ends with empty queues, the frames left after 30 s thrown away, and stops
\* it when its workers have returned.
Restarted ==
    /\ status = "draining" /\ export.left = <<>>
    /\ line' = <<>> /\ detected' = <<>> /\ running' = FALSE
    /\ status' = "Pipeline restarted successfully"
    /\ UNCHANGED <<reading, shown, mode, pictureVars, reportVars, posted>>

(***************************************************************************)
(* The two ways to start                                                   *)
(***************************************************************************)
RunLive ==
    /\ mode = "start" /\ mode' = "live"
    /\ UNCHANGED <<pictureVars, pipelineVars, reportVars, guiVars, posted>>

\* The paths, the summaries in the index's order, then the window that reads them.
RunReviewMode ==
    /\ mode = "start" /\ mode' = "review"
    /\ \E index \in Reviews :
         /\ paths' = {r.frame : r \in {x \in Range(index) : x.image}}
         /\ board' = FoldLeft(LAMBDA b, r : AppendFrameSummary(b, r.verdict), board, index)
         /\ results' = index
         /\ posted' = <<<<"summaryChanged", None>>>>
    /\ UNCHANGED <<counter, camera, cached, latest, tick, served, pipelineVars, export, view, guiVars>>

DisplayNext ==
    \/ RunLive \/ RunReviewMode
    \/ \E c \in Cameras : Number(c) \/ RegisterRawFrame(c) \/ Submit(c)
    \/ requestImage
    \/ Detect \/ Export \/ UpdateResult \/ Emit \/ Summarise
    \/ HandleEvent \/ ReadField
    \/ RestartPipeline \/ Restarted

(***************************************************************************)
(* Properties                                                              *)
(***************************************************************************)
\* The picture given for a number is the one taken under it, however many frames
\* have gone through the cache's slots (requestImage, frame_provider.cpp:163-199).
ServesOwn == served.picture # None => served.picture = served.asked

\* Once the worker has reported a result and the GUI thread has handled what was posted,
\* every field shown is of that result and the counts are of all results: none of the
\* fields written and read one by one is left from an earlier frame.
Settled ==
    /\ mode # "start" /\ export.left = <<>> /\ posted = <<>> /\ reading = <<>> /\ results # <<>>
    =>
    /\ mode = "live" => LET r == results[Len(results)] IN
         shown["id"] = r.id /\ shown["confidence"] = r.frame /\ shown["texts"] = r.frame /\ shown["evidence"] = r.frame
    /\ LET verdicts == [i \in 1 .. Len(results) |-> results[i].verdict] IN
         /\ shown["total"] = Len(results)
         /\ \A f \in {"OK", "NG", "WARN"} : shown[f] = Cardinality({i \in 1 .. Len(results) : Column(verdicts[i]) = f})
         /\ shown["trend"] = TrendOf(Kept(verdicts))

\* What is shown is what is written down, of one result and of one picture.
DisplaySound == ServesOwn /\ Settled

\* Documented (frame_provider.h:34-35: "requestImage() loads from disk when no in-memory
\* cache entry exists"): a frame of the review index with an image has its picture shown.
ReviewShows == mode = "review" /\ served.asked \in paths => served.picture = served.asked

\* Documented (milestone-7 design:1030, 1150: the monitor reads latest_frame_id_ and takes
\* the picture from the cache): a picture shown is the latest one.
MonitorShowsLatest == mode = "live" /\ served.picture # None => served.picture = served.latest

\* Documented (config_viewmodel.cpp:159 "Pipeline restarted successfully"): it runs again.
RestartRuns == status = "Pipeline restarted successfully" => running

\* The share of NG and WARN among all frames is at most one.
ShareWithinOne ==
    reading = <<>> /\ {"NG", "WARN", "total"} \subseteq DOMAIN shown => shown["NG"] + shown["WARN"] <= shown["total"]
=============================================================================
