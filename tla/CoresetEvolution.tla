-------------------------- MODULE CoresetEvolution --------------------------
(***************************************************************************)
(* sai::detection::CoresetEvolution (src/detection/coreset_evolution.cpp)  *)
(* with the part of PatchCore it shares.  The Detect worker searches the   *)
(* detector's feature bank and leaves its context in last_ctx_; the Export *)
(* worker's result callback offers that context to the evolution; the      *)
(* updater thread merges the offered candidates into a new bank and swaps  *)
(* it into the detector; a controlling thread starts, stops and rebuilds.  *)
(*                                                                         *)
(* A frame contributes one patch, named by the number of its candidacy, and*)
(* a bank object is its identity and the patches it holds; patch 0 stands  *)
(* for the bank the application was started with.  A profile is named by   *)
(* the bank it was computed from.  Which patches the greedy selection keeps*)
(* and what the float thresholds decide are free choices.                  *)
(***************************************************************************)
EXTENDS Integers, Sequences, FiniteSets, SequencesExt

CONSTANTS
    MaxFrames,         \* bound: frames detected
    RuleNG,            \* frames with a matched rule or a verdict other than OK
    ScoreNG,           \* frames whose k-NN distances or image score are abnormal
    MaxCandidates,     \* CandidateBuffer::Config::max_frames
    Trigger,           \* trigger_frames
    TargetSize,        \* target_size
    Prefilter,         \* greedy_prefilter
    SaturationWindow,  \* saturation_window
    MaxIncrements,     \* max_incremental_updates
    SelfValidation,    \* evolution_self_validation
    DriftRebuild,      \* drift_auto_rebuild
    SaveOnStop,        \* save_on_stop
    MayFail,           \* which of "build", "save" may fail
    Displacements,     \* mean displacements a rebuild may measure, in some unit
    Calls,             \* calls made on the evolution: "Stop", "FullRebuild"
    MaxStarts,         \* bound: calls of Start
    MaxRebuilds        \* bound: explicit calls of FullRebuild

ASSUME EvolutionAssumption ==
    /\ MaxFrames \in Nat /\ RuleNG \subseteq 1 .. MaxFrames /\ ScoreNG \subseteq 1 .. MaxFrames
    /\ {MaxCandidates, Trigger, TargetSize, Prefilter, SaturationWindow, MaxIncrements} \subseteq Nat \ {0}
    /\ {SelfValidation, DriftRebuild, SaveOnStop} \subseteq BOOLEAN
    /\ MayFail \subseteq {"build", "save"}
    /\ Displacements \subseteq Nat /\ Displacements # {}
    /\ Calls \subseteq {"Stop", "FullRebuild"}
    /\ MaxStarts \in Nat /\ MaxRebuilds \in Nat

VARIABLES
    \* PatchCore
    active,          \* feature_bank_
    ctx,             \* last_ctx_: the frame it describes
    dpc, search,     \* the Detect worker: its step, and the bank its search uses
    detected,        \* frames Detect has begun
    \* the Export worker
    reported,        \* frames whose result the callback has had
    opc, offer,      \* its step, and the embedding it offers
    \* CoresetEvolution::Impl
    standby, activeProfile, standbyProfile,
    buffer,          \* CandidateBuffer: candidates, oldest first
    flag,            \* notify_flag
    batch,           \* the candidates the updater has drained
    upc,             \* the updater: "none" or its step
    made, old,       \* new_bank and old_bank of the swap in progress
    saturation,      \* consecutive_saturation_count
    paused,          \* evolution_paused
    increments,      \* incremental_update_count
    displacement,    \* displacement_history
    savePath,        \* whether save_path is set
    disk,            \* the banks that the .bin and the .profile.yaml hold
    \* the controlling thread
    cpc, stop, starts, rebuilds,
    \* history
    origin,          \* candidate -> the frame its embedding comes from
    banks,           \* bank objects made so far
    prior,           \* the detector's bank and profile before the current update
    rejected,        \* candidates of rejected updates
    accepted         \* candidates that the last kept update put into its bank

detectVars == <<ctx, dpc, search, detected>>
offerVars == <<reported, opc, offer, origin>>
bankVars == <<active, standby, activeProfile, standbyProfile, made, old, banks, prior, rejected, accepted>>
maintVars == <<saturation, paused, increments, displacement>>
ctlVars == <<cpc, stop, starts, rebuilds, savePath, disk>>
vars == <<detectVars, offerVars, bankVars, maintVars, ctlVars, buffer, flag, batch, upc>>

NoBank == [id |-> 0, has |-> {}]
Bank(n, patches) == [id |-> n, has |-> patches]
Base == {0}

\* The application has loaded the bank; the constructor clones it as standby.
Init ==
    /\ active = Bank(1, Base) /\ standby = Bank(2, Base) /\ banks = 2
    /\ activeProfile = 1 /\ standbyProfile = 1
    /\ made = NoBank /\ old = NoBank /\ prior = [bank |-> NoBank, profile |-> 0]
    /\ rejected = {} /\ accepted = {}
    /\ ctx = 0 /\ dpc = "idle" /\ search = NoBank /\ detected = 0
    /\ reported = 0 /\ opc = "idle" /\ offer = 0 /\ origin = <<>>
    /\ buffer = <<>> /\ flag = FALSE /\ batch = <<>> /\ upc = "none"
    /\ saturation = 0 /\ paused = FALSE /\ increments = 0 /\ displacement = <<>>
    /\ savePath = FALSE /\ disk = [bank |-> 0, profile |-> 0]
    /\ cpc = "idle" /\ stop = FALSE /\ starts = 0 /\ rebuilds = 0

-----------------------------------------------------------------------------
(* PatchCore::Detect on the Detect worker: it tests feature_bank_ and reads  *)
(* it again for the search, with no lock.                                    *)

DetectTest ==
    /\ dpc = "idle" /\ detected < MaxFrames
    /\ detected' = detected + 1
    /\ dpc' = IF active = NoBank THEN "idle" ELSE "load"
    /\ UNCHANGED <<ctx, search, offerVars, bankVars, maintVars, ctlVars, buffer, flag, batch, upc>>

DetectLoad ==
    /\ dpc = "load"
    /\ search' = active
    /\ dpc' = "search"
    /\ UNCHANGED <<ctx, detected, offerVars, bankVars, maintVars, ctlVars, buffer, flag, batch, upc>>

\* The search is over and last_ctx_ describes this frame.
DetectDone ==
    /\ dpc = "search"
    /\ ctx' = detected
    /\ search' = NoBank
    /\ dpc' = "idle"
    /\ UNCHANGED <<detected, offerVars, bankVars, maintVars, ctlVars, buffer, flag, batch, upc>>

-----------------------------------------------------------------------------
(* The result callback on the Export worker                                  *)

Running == upc # "none"

\* OfferToEvolution for the next frame's result: nothing without a running
\* updater or a context.  The embedding is shared now, the rest is read later.
OfferCall ==
    /\ opc = "idle" /\ reported < (IF dpc = "idle" THEN detected ELSE detected - 1)
    /\ reported' = reported + 1
    /\ IF Running /\ ctx # 0
       THEN opc' = "assess" /\ offer' = ctx
       ELSE UNCHANGED <<opc, offer>>
    /\ UNCHANGED <<detectVars, origin, bankVars, maintVars, ctlVars, buffer, flag, batch, upc>>

\* MultiSignalConsensusCheck: distances and score are those of last_ctx_, rules
\* and verdict those of the reported frame.
Consensus == ctx \notin ScoreNG /\ reported \notin RuleNG

\* CandidateBuffer::Append and, when it triggers, notify_flag.
Append1 ==
    IF Len(buffer) < MaxCandidates
    THEN /\ origin' = Append(origin, offer)
         /\ buffer' = Append(buffer, Len(origin) + 1)
         /\ flag' = (flag \/ Len(buffer) + 1 >= Trigger)
    ELSE UNCHANGED <<origin, buffer, flag>>

\* AssessAndOffer: consensus, novelty, saturation, buffer.
Assess ==
    /\ opc = "assess"
    /\ \/ \* no consensus, or not novel
          UNCHANGED <<origin, buffer, flag, saturation, paused>>
       \/ \* novel, and the bank covers less than the saturation threshold
          /\ Consensus
          /\ Append1
          /\ saturation' = 0 /\ paused' = FALSE
       \/ \* novel, and coverage is above the saturation threshold
          /\ Consensus
          /\ saturation' = saturation + 1
          /\ IF saturation + 1 >= SaturationWindow
             THEN paused' = TRUE /\ UNCHANGED <<origin, buffer, flag>>
             ELSE Append1 /\ UNCHANGED paused
    /\ opc' = "idle" /\ offer' = 0
    /\ UNCHANGED <<detectVars, reported, bankVars, increments, displacement, ctlVars, batch, upc>>

-----------------------------------------------------------------------------
(* The updater thread                                                        *)

\* Variant of UpdWait: a wait without the 500 ms limit.
UpdWaitNoLimit ==
    /\ upc = "wait" /\ (flag \/ stop)
    /\ IF stop THEN upc' = "exited" /\ UNCHANGED flag
               ELSE upc' = "drain" /\ flag' = FALSE
    /\ UNCHANGED <<detectVars, offerVars, bankVars, maintVars, ctlVars, buffer, batch>>

\* wait_for returns when notified or after 500 ms, whatever the flag says.
UpdWait ==
    /\ upc = "wait"
    /\ IF stop THEN upc' = "exited" /\ UNCHANGED flag
               ELSE upc' = "drain" /\ flag' = FALSE
    /\ UNCHANGED <<detectVars, offerVars, bankVars, maintVars, ctlVars, buffer, batch>>

\* Variant of UpdDrain: the buffer is copied and not cleared.
UpdDrainKeeps ==
    /\ upc = "drain"
    /\ batch' = buffer
    /\ upc' = IF buffer = <<>> THEN "wait" ELSE "gate"
    /\ UNCHANGED <<buffer, detectVars, offerVars, bankVars, maintVars, ctlVars, flag>>

UpdDrain ==
    /\ upc = "drain"
    /\ batch' = buffer /\ buffer' = <<>>
    /\ upc' = IF buffer = <<>> THEN "wait" ELSE "gate"
    /\ UNCHANGED <<detectVars, offerVars, bankVars, maintVars, ctlVars, flag>>

\* A batch whose mean normalcy is below the gate is dropped.
UpdGate ==
    /\ upc = "gate"
    /\ \/ upc' = "build" /\ UNCHANGED batch
       \/ upc' = "wait" /\ batch' = <<>>
    /\ UNCHANGED <<detectVars, offerVars, bankVars, maintVars, ctlVars, buffer, flag>>

\* PrefilterCandidates: every (n / target)-th patch.
Prefiltered(b) ==
    IF Len(b) <= Prefilter THEN ToSet(b)
    ELSE {b[i * (Len(b) \div Prefilter) + 1] : i \in 0 .. Prefilter - 1}

\* What the greedy coreset selection may keep of the merged vectors.
Selections(patches) ==
    IF Cardinality(patches) <= TargetSize THEN {patches}
    ELSE {s \in SUBSET patches : Cardinality(s) = TargetSize}

\* Merge the standby bank with the batch and build the new bank.
UpdBuild ==
    /\ upc = "build"
    /\ \/ /\ standby # NoBank
          /\ \E s \in Selections(standby.has \cup Prefiltered(batch)) :
                made' = Bank(banks + 1, s)
          /\ banks' = banks + 1
          /\ prior' = [bank |-> active, profile |-> activeProfile]
          /\ upc' = "swapOut"
          /\ UNCHANGED batch
       \/ /\ standby = NoBank \/ "build" \in MayFail
          /\ upc' = "wait" /\ batch' = <<>>
          /\ UNCHANGED <<made, banks, prior>>
    /\ UNCHANGED <<active, standby, activeProfile, standbyProfile, old, rejected, accepted,
                   detectVars, offerVars, maintVars, ctlVars, buffer, flag>>

\* SwapFeatureBank takes the old bank out of feature_bank_ ...
UpdSwapOut ==
    /\ upc = "swapOut"
    /\ old' = active /\ active' = NoBank
    /\ upc' = "swapIn"
    /\ UNCHANGED <<standby, activeProfile, standbyProfile, made, banks, prior, rejected, accepted,
                   detectVars, offerVars, maintVars, ctlVars, buffer, flag, batch>>

\* ... and puts the new one in; the old bank becomes the standby, whose former
\* bank is destroyed, and the active profile is computed from the standby.
UpdSwapIn ==
    /\ upc = "swapIn"
    /\ active' = made /\ standby' = old
    /\ made' = NoBank /\ old' = NoBank
    /\ standbyProfile' = activeProfile
    /\ activeProfile' = old.id
    /\ upc' = "validate"
    /\ UNCHANGED <<banks, prior, rejected, accepted, detectVars, offerVars, maintVars, ctlVars,
                   buffer, flag, batch>>

\* Self-validation: the new bank covers the old one well enough, or the two are
\* to be swapped back.
UpdValidate ==
    /\ upc = "validate"
    /\ \/ /\ accepted' = ToSet(batch) \cap active.has
          /\ upc' = "record"
          /\ UNCHANGED <<made, standby>>
       \/ /\ SelfValidation
          /\ made' = standby /\ standby' = NoBank
          /\ upc' = "backOut"
          /\ UNCHANGED accepted
    /\ UNCHANGED <<active, activeProfile, standbyProfile, old, banks, prior, rejected,
                   detectVars, offerVars, maintVars, ctlVars, buffer, flag, batch>>

UpdBackOut ==
    /\ upc = "backOut"
    /\ old' = active /\ active' = NoBank
    /\ upc' = "backIn"
    /\ UNCHANGED <<standby, activeProfile, standbyProfile, made, banks, prior, rejected, accepted,
                   detectVars, offerVars, maintVars, ctlVars, buffer, flag, batch>>

\* Variant of UpdBackIn: the profile is not restored with the bank.
UpdBackInKeepsProfile ==
    /\ upc = "backIn"
    /\ active' = made /\ standby' = old
    /\ made' = NoBank /\ old' = NoBank
    /\ rejected' = rejected \cup ToSet(batch)
    /\ upc' = "record"
    /\ UNCHANGED <<activeProfile, standbyProfile, banks, prior, accepted,
                   detectVars, offerVars, maintVars, ctlVars, buffer, flag, batch>>

\* The old bank is back in the detector; the rejected one is now the standby.
UpdBackIn ==
    /\ upc = "backIn"
    /\ active' = made /\ standby' = old
    /\ made' = NoBank /\ old' = NoBank
    /\ activeProfile' = standbyProfile
    /\ rejected' = rejected \cup ToSet(batch)
    /\ upc' = "record"
    /\ UNCHANGED <<standbyProfile, banks, prior, accepted,
                   detectVars, offerVars, maintVars, ctlVars, buffer, flag, batch>>

\* Sums over the displacement history, which holds five values at most.
Total(h) == LET d(i) == IF i <= Len(h) THEN h[i] ELSE 0
            IN  d(1) + d(2) + d(3) + d(4) + d(5)
Squares(h) == Total([i \in DOMAIN h |-> h[i] * h[i]])

\* Variant of Exceeds: above the mean is enough.
ExceedsMean(d, h) == Len(h) * d > Total(h)

\* d > mean(h) + 2 * stddev(h), without the division and the square root: with n
\* values of sum S and sum of squares Q, n d - S > 2 sqrt(n Q - S S).
Exceeds(d, h) ==
    LET over == Len(h) * d - Total(h)
    IN  over > 0 /\ over * over > 4 * (Len(h) * Squares(h) - Total(h) * Total(h))

\* CheckDrift's window of five, and its test of the last three values.
Window(h, d) == LET g == Append(h, d) IN IF Len(g) > 5 THEN Tail(g) ELSE g
Drifted(h) ==
    /\ Len(h) >= 3
    /\ Len(h) * Squares(h) # Total(h) * Total(h)
    /\ \A i \in Len(h) - 2 .. Len(h) : Exceeds(h[i], h)

\* CheckDrift(d): a drift resets the saturation and may drop the standby bank.
CheckDrift(d, sb, sat, pau) ==
    /\ displacement' = Window(displacement, d)
    /\ LET drift == Drifted(displacement')
       IN  /\ standby' = IF drift /\ DriftRebuild THEN NoBank ELSE sb
           /\ saturation' = IF drift THEN 0 ELSE sat
           /\ paused' = (~drift /\ pau)

\* The counters, and CheckDrift(0.0F).
UpdRecord ==
    /\ upc = "record"
    /\ increments' = increments + 1
    /\ CheckDrift(0, standby, saturation, paused)
    /\ batch' = <<>>
    /\ upc' = "wait"
    /\ UNCHANGED <<active, activeProfile, standbyProfile, made, old, banks, prior, rejected, accepted,
                   detectVars, offerVars, ctlVars, buffer, flag>>

Update == \/ UpdWait \/ UpdDrain \/ UpdGate \/ UpdBuild \/ UpdSwapOut \/ UpdSwapIn
          \/ UpdValidate \/ UpdBackOut \/ UpdBackIn \/ UpdRecord

-----------------------------------------------------------------------------
(* The controlling thread: Start, Stop, FullRebuild                          *)

Start ==
    /\ cpc = "idle" /\ upc = "none" /\ starts < MaxStarts
    /\ upc' = "wait" /\ stop' = FALSE
    /\ starts' = starts + 1
    /\ UNCHANGED <<cpc, rebuilds, savePath, disk, detectVars, offerVars, bankVars, maintVars,
                   buffer, flag, batch>>

\* Variant of StopCall: the notification without the stop request.
StopCallNoRequest ==
    /\ "Stop" \in Calls /\ cpc = "idle" /\ Running
    /\ flag' = TRUE
    /\ cpc' = "join"
    /\ UNCHANGED <<stop, starts, rebuilds, savePath, disk, detectVars, offerVars, bankVars, maintVars,
                   buffer, batch, upc>>

\* Stop of a running updater: request_stop and the notification.
StopCall ==
    /\ "Stop" \in Calls /\ cpc = "idle" /\ Running
    /\ stop' = TRUE /\ flag' = TRUE
    /\ cpc' = "join"
    /\ UNCHANGED <<starts, rebuilds, savePath, disk, detectVars, offerVars, bankVars, maintVars,
                   buffer, batch, upc>>

\* The join; then a rebuild if there is a path to save to.
StopJoin ==
    /\ cpc = "join" /\ upc = "exited"
    /\ upc' = "none"
    /\ cpc' = IF SaveOnStop /\ savePath THEN "rebuild" ELSE "idle"
    /\ UNCHANGED <<stop, starts, rebuilds, savePath, disk, detectVars, offerVars, bankVars,
                   maintVars, buffer, flag, batch>>

\* FullRebuild with the updater not running, called by the application or, once
\* a path is known, by a Stop that finds no thread to join.
RebuildCall ==
    /\ "FullRebuild" \in Calls /\ cpc = "idle" /\ upc = "none" /\ rebuilds < MaxRebuilds
    /\ cpc' = "rebuild"
    /\ rebuilds' = rebuilds + 1
    /\ UNCHANGED <<stop, starts, savePath, disk, detectVars, offerVars, bankVars, maintVars,
                   buffer, flag, batch, upc>>

\* Drain the buffer and build a bank from it and the standby.
Rebuild ==
    /\ cpc = "rebuild"
    /\ buffer' = <<>>
    /\ LET merged == standby.has \cup ToSet(buffer) IN
       \/ /\ merged # {}
          /\ \E s \in Selections(merged) : made' = Bank(banks + 1, s)
          /\ banks' = banks + 1
          /\ cpc' = "saveBank"
       \/ /\ merged = {} \/ "build" \in MayFail
          /\ cpc' = "idle"
          /\ UNCHANGED <<made, banks>>
    /\ UNCHANGED <<active, standby, activeProfile, standbyProfile, old, prior, rejected, accepted,
                   stop, starts, rebuilds, savePath, disk, detectVars, offerVars, maintVars,
                   flag, batch, upc>>

Saved(field, next) ==
    \/ /\ disk' = [disk EXCEPT ![field] = made.id]
       /\ cpc' = next
       /\ UNCHANGED made
    \/ /\ "save" \in MayFail
       /\ cpc' = "idle"
       /\ made' = NoBank
       /\ UNCHANGED disk

\* Variant of SaveBank: the profile is saved even when the bank is not.
SaveBankIgnoresError ==
    /\ cpc = "saveBank"
    /\ \/ disk' = [disk EXCEPT !.bank = made.id]
       \/ "save" \in MayFail /\ UNCHANGED disk
    /\ cpc' = "saveProfile"
    /\ UNCHANGED <<made, active, standby, activeProfile, standbyProfile, old, banks, prior, rejected,
                   accepted, stop, starts, rebuilds, savePath, detectVars, offerVars, maintVars,
                   buffer, flag, batch, upc>>

\* The .bin first, then the .profile.yaml; a failure ends the call and leaves
\* the detector alone.
SaveBank ==
    /\ cpc = "saveBank"
    /\ Saved("bank", "saveProfile")
    /\ UNCHANGED <<active, standby, activeProfile, standbyProfile, old, banks, prior, rejected,
                   accepted, stop, starts, rebuilds, savePath, detectVars, offerVars, maintVars,
                   buffer, flag, batch, upc>>

SaveProfile ==
    /\ cpc = "saveProfile"
    /\ Saved("profile", "swapOut")
    /\ UNCHANGED <<active, standby, activeProfile, standbyProfile, old, banks, prior, rejected,
                   accepted, stop, starts, rebuilds, savePath, detectVars, offerVars, maintVars,
                   buffer, flag, batch, upc>>

RebuildSwapOut ==
    /\ cpc = "swapOut"
    /\ old' = active /\ active' = NoBank
    /\ cpc' = "swapIn"
    /\ UNCHANGED <<standby, activeProfile, standbyProfile, made, banks, prior, rejected, accepted,
                   stop, starts, rebuilds, savePath, disk, detectVars, offerVars, maintVars,
                   buffer, flag, batch, upc>>

\* The new bank goes in with its own profile, the path is remembered, drift is
\* checked and the maintenance counters start again.
RebuildSwapIn ==
    /\ cpc = "swapIn"
    /\ active' = made /\ made' = NoBank /\ old' = NoBank
    /\ standbyProfile' = activeProfile /\ activeProfile' = made.id
    /\ savePath' = TRUE
    /\ \E d \in Displacements : CheckDrift(d, old, 0, FALSE)
    /\ increments' = 0
    /\ cpc' = "idle"
    /\ UNCHANGED <<banks, prior, rejected, accepted, stop, starts, rebuilds, disk,
                   detectVars, offerVars, buffer, flag, batch, upc>>

RebuildStep == Rebuild \/ SaveBank \/ SaveProfile \/ RebuildSwapOut \/ RebuildSwapIn
DetectStep == DetectTest \/ DetectLoad \/ DetectDone

Next == \/ DetectStep \/ OfferCall \/ Assess \/ Update
        \/ Start \/ StopCall \/ StopJoin \/ RebuildCall \/ RebuildStep

\* The updater's thread runs and its wait ends after 500 ms at the latest; a
\* call that has been made goes on.  Nothing obliges frames or calls to come.
Spec == Init /\ [][Next]_vars
        /\ WF_vars(Update) /\ WF_vars(StopJoin \/ RebuildStep)

-----------------------------------------------------------------------------
(* Properties                                                                *)

Banks == [id : 0 .. banks, has : SUBSET (0 .. Len(origin))]

\* Every bank stays within target_size, whatever is merged into it.
TypeOK ==
    /\ {active, standby, made, old, search} \subseteq Banks
    /\ \A b \in {active, standby, made, old} : Cardinality(b.has) <= TargetSize
    /\ {activeProfile, standbyProfile, disk.bank, disk.profile} \subseteq 0 .. banks
    /\ ctx \in 0 .. detected /\ detected \in 0 .. MaxFrames /\ reported \in 0 .. detected
    /\ dpc \in {"idle", "load", "search"} /\ opc \in {"idle", "assess"} /\ offer \in 0 .. MaxFrames
    /\ Len(buffer) <= MaxCandidates /\ ToSet(buffer) \cup ToSet(batch) \subseteq 1 .. Len(origin)
    /\ {flag, paused, savePath, stop} \subseteq BOOLEAN
    /\ upc \in {"none", "wait", "drain", "gate", "build", "swapOut", "swapIn", "validate",
                "backOut", "backIn", "record", "exited"}
    /\ cpc \in {"idle", "join", "rebuild", "saveBank", "saveProfile", "swapOut", "swapIn"}
    /\ saturation \in Nat /\ increments \in Nat /\ displacement \in Seq(Nat)

\* A candidate is handed to one merge only: while it waits in the buffer it is
\* in no batch and no bank, and no batch or buffer names it twice.
OfferedOnce ==
    /\ IsInjective(buffer) /\ IsInjective(batch)
    /\ ToSet(buffer) \cap (ToSet(batch) \cup active.has \cup standby.has \cup made.has \cup old.has) = {}

\* The state of the evolution is well formed, no bank or buffer grows past its
\* configured size, and no candidate is merged twice.
EvolutionInv == TypeOK /\ OfferedOnce

\* When self-validation rejects an update, the detector and the profile are
\* those from before the update, although both were replaced in the meantime.
RejectRestores ==
    upc = "record" /\ ToSet(batch) \subseteq rejected =>
        active = prior.bank /\ activeProfile = prior.profile

\* With a window of five, three values cannot all exceed mean + 2 sigma, so that
\* CheckDrift never reports a drift and never drops the standby, whatever the
\* displacements are.
DriftSilent == ~Drifted(displacement)

\* The profile on disk is never that of a bank newer than the one on disk, with
\* saves that fail between the two files.
ProfileNotAheadOfBank == disk.profile <= disk.bank

\* Stop returns, also when it rebuilds.
StopReturns == (cpc = "join") ~> (cpc = "idle")

\* A buffered candidate is taken up while the updater runs, also when there are
\* too few to trigger an update or the notification is missed.
BufferDrained == \A c \in 1 .. MaxFrames : (c \in ToSet(buffer) /\ Running) ~> (c \notin ToSet(buffer) \/ stop)

-----------------------------------------------------------------------------
(* What the documentation says and the code does not do: see the README.     *)

\* Documented (online evolution design, line 716, DefectNeverIncluded): no frame
\* with a defect reaches the candidate buffer.
DefectNeverIncluded == \A c \in DOMAIN origin : origin[c] \notin RuleNG \cup ScoreNG

\* Documented (same design, line 360): the active profile is computed from
\* the bank that becomes active.
ProfileOfActiveBank == upc = "wait" /\ cpc = "idle" => activeProfile = active.id

\* Documented (same design, line 352): an update starts from the active bank, so
\* that what the previous update added is still there when there is room.
AcceptedKept ==
    [][upc = "swapIn" /\ Cardinality(active'.has) < TargetSize => accepted \subseteq active'.has]_vars

\* Documented (coreset_evolution.h:193-196): a rejected update does not reach the
\* detector.
RejectedStaysOut == upc = "wait" => rejected \cap active.has = {}

\* Documented (coreset_evolution.h:245 and the design, line 717): Stop saves the
\* bank.
SavedOnStop == stop /\ upc = "none" /\ cpc = "idle" => disk.bank # 0

\* Documented (patch_core.h:78-80): the bank a search reads stays alive through a
\* swap.
SearchedBankAlive == dpc = "search" => search \in {active, standby, made, old} \ {NoBank}

\* Documented (coreset_evolution.h:183-185): after max_incremental_updates the
\* coreset is rebuilt.
RebuiltInTime == increments <= MaxIncrements
=============================================================================
