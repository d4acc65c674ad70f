--------------------------- MODULE HeadlessRunner ---------------------------
(***************************************************************************)
(* RunHeadless (apps/seat-aoi/headless_runner.cpp) on top of Pipeline: for *)
(* every frame of a dataset, Submit, Drain, then read the verdict from the *)
(* result.json that the Export stage writes for the position; at the end,  *)
(* Stop.  One position, so one file that every frame overwrites.  A        *)
(* verdict is represented by the frame it was computed for.                *)
(***************************************************************************)
EXTENDS Pipeline

VARIABLES
    rpc,       \* the runner: "start", "submit", "push", "drain", "draining", "read", "stopping", "done"
    file,      \* the frame whose verdict result.json holds, NoFrame if absent
    records    \* the verdicts recorded so far, frame after frame

runVars == <<vars, rpc, file, records>>

Unknown == NoFrame   \* the verdict "?"

\* The application has loaded and started the pipeline before the loop.
RunInit ==
    /\ Init
    /\ rpc = "start"
    /\ file = NoFrame
    /\ records = <<>>

RunStart ==
    /\ rpc = "start"
    /\ Start
    /\ rpc' = "submit"
    /\ UNCHANGED <<file, records>>

RunSubmit ==
    /\ rpc = "submit" /\ Submitted # Frames
    /\ SubmitCall
    /\ rpc' = "push"
    /\ UNCHANGED <<file, records>>

RunPush ==
    /\ rpc = "push"
    /\ SubmitPush
    /\ rpc' = "drain"
    /\ UNCHANGED <<file, records>>

RunDrain ==
    /\ rpc = "drain"
    /\ DrainCall
    /\ rpc' = "draining"
    /\ UNCHANGED <<file, records>>

\* The steps of a Drain or a Stop the runner waits for.
RunCall ==
    /\ rpc \in {"draining", "stopping"}
    /\ DrainStep \/ StopStep
    /\ rpc' = IF cpc' = "idle" THEN IF rpc = "draining" THEN "read" ELSE "done"
              ELSE rpc
    /\ UNCHANGED <<file, records>>

Exporting(w) == wpc[w] = "process" /\ IsA(w, "Export")

\* The file is read as soon as it exists, or given up after the retries.  A read
\* in the middle of a write does not parse and leaves the verdict unknown.
RunRead ==
    /\ rpc = "read"
    /\ \/ records' = Append(records, file)
       \/ /\ \E w \in Workers : Exporting(w)
          /\ records' = Append(records, Unknown)
    /\ rpc' = "submit"
    /\ UNCHANGED <<vars, file>>

RunStop ==
    /\ rpc = "submit" /\ Submitted = Frames
    /\ StopCall
    /\ rpc' = "stopping"
    /\ UNCHANGED <<file, records>>

\* A worker step; Export's Process leaves its verdict in the file.
RunWork(w) ==
    /\ Work(w)
    /\ file' = IF Exporting(w) /\ wpc'[w] = "heatmap" THEN hand[w] ELSE file
    /\ UNCHANGED <<rpc, records>>

RunNext == \/ RunStart \/ RunSubmit \/ RunPush \/ RunDrain \/ RunCall \/ RunRead \/ RunStop
           \/ \E w \in Workers : RunWork(w)

\* The runner is one thread that goes on whenever it can; a Drain's polling pass
\* alone is no progress, so its deadline and its passes are fair separately.
RunFairness ==
    /\ \A w \in Workers : WF_runVars(RunWork(w))
    /\ WF_runVars(RunStart \/ RunSubmit \/ RunPush \/ RunDrain \/ RunRead \/ RunStop)
    /\ WF_runVars(RunCall /\ (DrainPollEnd \/ DrainReturn \/ StopStep \/ \E s \in Stages : DrainForce(s)))
    /\ WF_runVars(RunCall)

RunSpec == RunInit /\ [][RunNext]_runVars /\ RunFairness

-----------------------------------------------------------------------------
(* Properties                                                               *)

\* The run ends with a record for every frame, even when a drain takes a frame
\* from under a worker and the worker leaves its loop.
RunFinishes == <>(rpc = "done" /\ Len(records) = MaxFrames)

\* With one worker per stage the recorded verdicts never go back to an earlier
\* frame, however late Export writes.
VerdictsAdvance ==
    \A i, j \in DOMAIN records :
        i < j /\ records[i] # Unknown /\ records[j] # Unknown => records[i] <= records[j]

\* Documented (headless_runner.cpp:139-141 and the dataset test design, line 217,
\* "Submit, Drain, read result.json"): the verdict recorded for a frame is that
\* frame's, or none.
VerdictOfOwnFrame == \A i \in DOMAIN records : records[i] \in {i, Unknown}
=============================================================================
