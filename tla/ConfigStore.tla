---------------------------- MODULE ConfigStore -----------------------------
(***************************************************************************)
(* ConfigStore: Load, the schema, Get, and the inotify thread that reloads *)
(* the file when its directory reports that it was written or replaced.    *)
(* A version of the file is a number; Valid are the versions that parse    *)
(* and pass the schema.  Bounds: versions 1..Versions, in that order.      *)
(***************************************************************************)
EXTENDS Integers, Sequences

CONSTANTS Versions, Valid

VARIABLES
  file,    \* version on disk; Torn while a writer is inside the file
  writing, \* the version an in-place writer is writing, or None
  written, \* versions that were written so far
  root,    \* the version in use, None before the first load
  loader,  \* Load: idle, or what it has parsed
  watch,   \* watch thread: off, poll, read, parsed, closed
  parsed,  \* what the watch thread has parsed
  events, stopping

confVars == <<file, writing, written, root, loader, watch, parsed, events, stopping>>
None == 0
Torn == Versions + 1

ConfInit == /\ file = 1 /\ writing = None /\ written = 1 /\ root = None /\ loader = None
            /\ watch = "off" /\ parsed = None /\ events = 0 /\ stopping = FALSE

(* ConfigSchema::Validate: every required field is there and passes. *)
Validate(v) == v \in Valid
\* Variant of Validate: what parses is accepted.
ValidateNothing(v) == v # None
(* LoadFile and Validate; a torn file may parse, and have these fields.    *)
MayLoad(v) == Validate(v) \/ v = Torn
MayReject(v) == ~Validate(v)

(* The file system: a rename puts a whole version in place, a writer in    *)
(* place leaves a torn file until it closes it.  An armed watch queues one *)
(* event for either.                                                       *)
Notify == events' = IF watch \in {"off", "closed"} THEN events ELSE events + 1
ReplaceFile ==
  /\ written < Versions /\ writing = None /\ file' = written + 1 /\ written' = written + 1
  /\ Notify /\ UNCHANGED <<writing, root, loader, watch, parsed, stopping>>
OpenFile ==
  /\ written < Versions /\ writing = None /\ writing' = written + 1 /\ file' = Torn
  /\ UNCHANGED <<written, root, loader, watch, parsed, events, stopping>>
CloseFile ==
  /\ writing # None /\ file' = writing /\ written' = writing /\ writing' = None
  /\ Notify /\ UNCHANGED <<root, loader, watch, parsed, stopping>>

(* Load: parse and validate, then replace the tree under the lock.         *)
LoadParse ==
  /\ loader = None /\ root = None /\ Validate(file) /\ loader' = file
  /\ UNCHANGED <<file, writing, written, root, watch, parsed, events, stopping>>
LoadStore ==
  /\ loader # None /\ root' = loader /\ loader' = None
  /\ UNCHANGED <<file, writing, written, watch, parsed, events, stopping>>

(* EnableHotReload arms the watch of the directory and starts the thread.  *)
EnableHotReload ==
  /\ watch = "off" /\ root # None /\ watch' = "poll"
  /\ UNCHANGED <<file, writing, written, root, loader, parsed, events, stopping>>

(* The poll: a stop ends the loop before any event is looked at.           *)
Poll ==
  /\ watch = "poll"
  /\ \/ stopping /\ watch' = "closed" /\ UNCHANGED events
     \/ ~stopping /\ events > 0 /\ watch' = "reload" /\ events' = 0
  /\ UNCHANGED <<file, writing, written, root, loader, parsed, stopping>>
(* reload: whatever cannot be read, parsed or validated keeps the tree.    *)
Parse ==
  /\ watch = "reload"
  /\ \/ MayLoad(file) /\ watch' = "store" /\ parsed' = file
     \/ MayReject(file) /\ watch' = "poll" /\ UNCHANGED parsed
  /\ UNCHANGED <<file, writing, written, root, loader, events, stopping>>
\* Variant of Store: the events of a reload's own time are dropped.
StoreDropsEvents ==
  /\ watch = "store" /\ watch' = "poll" /\ root' = parsed /\ parsed' = None /\ events' = 0
  /\ UNCHANGED <<file, writing, written, loader, stopping>>
Store ==
  /\ watch = "store" /\ watch' = "poll" /\ root' = parsed /\ parsed' = None
  /\ UNCHANGED <<file, writing, written, loader, events, stopping>>

Stop == /\ ~stopping /\ stopping' = TRUE
        /\ UNCHANGED <<file, writing, written, root, loader, watch, parsed, events>>

WatchStep == Poll \/ Parse \/ Store
ConfNext == \/ ReplaceFile \/ OpenFile \/ CloseFile \/ LoadParse \/ LoadStore
            \/ EnableHotReload \/ WatchStep \/ Stop
ConfSpec == ConfInit /\ [][ConfNext]_confVars /\ WF_confVars(WatchStep)

(***************************************************************************)
(* Properties                                                              *)
(***************************************************************************)
(* The last known good tree (config_store_inotify.cpp:77-80): whatever the *)
(* file goes through, the tree is one that parsed and passed the schema,   *)
(* and it never falls back to nothing.                                     *)
ConfInv == /\ root \in Valid \cup {None, Torn} /\ (watch # "off" => root # None)
           /\ written \in 1..Versions /\ (file = Torn <=> writing # None)

(* A valid version that is announced while the watch is armed is taken up, *)
(* unless it is replaced again or the watch is stopped: an event that is   *)
(* read stands for the whole content the file has afterwards.              *)
ConfigCurrent == \A v \in Valid :
  watch \notin {"off", "closed"} /\ events > 0 /\ file = v ~> root = v \/ file # v \/ stopping

\* Documented (cross-cutting design, section 3, hot reload): the store follows
\* the file.  A change between Load and EnableHotReload is not seen.
FollowsFile == \A v \in Valid : watch = "poll" /\ file = v ~> root = v \/ file # v \/ stopping
=============================================================================
