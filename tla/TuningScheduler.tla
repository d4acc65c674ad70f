-------------------------- MODULE TuningScheduler ---------------------------
(***************************************************************************)
(* sai::tuning::TuningScheduler (src/tuning/tuning_scheduler.cpp): a       *)
(* background thread that evaluates the parameters in force, asks the      *)
(* optimizer for better ones, applies them through a callback, watches the *)
(* NG rate and keeps the parameters or rolls them back; TriggerOnce, Join  *)
(* and the external stop token act on it from other threads.               *)
(*                                                                         *)
(* A parameter vector is a model value; Unset is the empty vector, which is*)
(* what current_params_ holds before the first cycle.  The applier is that *)
(* of apps/seat-aoi/tuning_wiring.cpp: it rewrites the decision tree's file*)
(* and then reloads the tree.                                              *)
(***************************************************************************)
EXTENDS Integers, Sequences, FiniteSets

CONSTANTS
    Params,        \* parameter vectors the optimizer can propose
    Unset,         \* the empty vector
    Shipped,       \* the values the tree's file came with
    Cost,          \* what the objective makes of a vector on the feedback at hand
    EvaluateMayFail,   \* whether Evaluate and Optimize may return an error
    ApplierMayFail,    \* which of "load", "reload" may fail in the applier
    Retries,       \* attempts of RetryRollback
    Iterates,      \* whether max_iterations > 0, so that Optimize fits its process
    Calls          \* what other threads do: "Trigger", "Join", "Stop"

ASSUME TuningAssumption ==
    /\ Unset \notin Params /\ Shipped \notin Params \cup {Unset}
    /\ Cost \in [Params \cup {Unset} -> Nat]
    /\ {EvaluateMayFail, Iterates} \subseteq BOOLEAN
    /\ ApplierMayFail \subseteq {"load", "reload"}
    /\ Retries \in Nat \ {0}
    /\ Calls \subseteq {"Trigger", "Join", "Stop"}

VARIABLES
    pc,          \* the worker: "none" or its step
    state,       \* state_
    trigger,     \* trigger_flag_
    token,       \* the token given to Start has been asked to stop
    own,         \* worker_'s own stop source has been asked to stop
    notified,    \* the sleeping worker has been notified
    current,     \* current_params_
    observed,    \* vectors among the optimizer's observations
    best, old,   \* best.params and old_params of the cycle
    file, tree,  \* the vector in the tree's file, and in the reasoner's tree
    attempts,    \* failed attempts of the rollback in progress
    cpc,         \* the thread that calls Join
    \* history
    audit,       \* the last two events of the audit log
    before,      \* the tree when the cycle proposed its change
    lost,        \* a rollback has failed for good
    undone       \* vectors that monitoring has rolled back

callVars == <<trigger, token, own, cpc>>
paramVars == <<current, observed, best, old, file, tree, attempts>>
histVars == <<audit, before, lost, undone>>
vars == <<pc, state, notified, callVars, paramVars, histVars>>

Vectors == Params \cup {Unset}
Running == pc \notin {"none", "crashed"}

Init ==
    /\ pc = "none" /\ state = "Idle" /\ notified = FALSE
    /\ trigger = FALSE /\ token = FALSE /\ own = FALSE /\ cpc = "idle"
    /\ current = Unset /\ observed = {} /\ best = Unset /\ old = Unset
    /\ file = Shipped /\ tree = Shipped /\ attempts = 0
    /\ audit = <<>> /\ before = Shipped /\ lost = FALSE /\ undone = {}

-----------------------------------------------------------------------------
(* Calls from other threads                                                 *)

\* The thread runs MainLoop on the caller's token: the lambda takes one stop
\* token, and the one given as an argument is passed to it.
Start ==
    /\ pc = "none"
    /\ pc' = "loop"
    /\ UNCHANGED <<state, notified, callVars, paramVars, histVars>>

NotifyAll == notified' = (notified \/ pc = "asleep")

\* The flag and the notification, without the mutex.
TriggerOnce ==
    /\ "Trigger" \in Calls /\ Running
    /\ trigger' = TRUE
    /\ NotifyAll
    /\ UNCHANGED <<pc, state, token, own, cpc, paramVars, histVars>>

\* request_stop on the source of the token given to Start.
StopToken ==
    /\ "Stop" \in Calls /\ Running
    /\ token' = TRUE
    /\ UNCHANGED <<pc, state, notified, trigger, own, cpc, paramVars, histVars>>

\* Join asks worker_'s own source to stop, notifies and waits for the thread.
JoinCall ==
    /\ "Join" \in Calls /\ cpc = "idle" /\ Running
    /\ own' = TRUE
    /\ NotifyAll
    /\ cpc' = "join"
    /\ UNCHANGED <<pc, state, trigger, token, paramVars, histVars>>

JoinReturn ==
    /\ cpc = "join" /\ pc = "exited"
    /\ cpc' = "idle" /\ pc' = "none" /\ own' = FALSE
    /\ UNCHANGED <<state, notified, trigger, token, paramVars, histVars>>

-----------------------------------------------------------------------------
(* MainLoop: the wait                                                       *)

\* while (!token.stop_requested()), and the start of the idle phase.
Loop ==
    /\ pc = "loop"
    /\ IF token THEN pc' = "exited" /\ UNCHANGED state
                ELSE pc' = "test" /\ state' = "Idle"
    /\ UNCHANGED <<notified, callVars, paramVars, histVars>>

\* The tests under the mutex, before going to sleep.
Test ==
    /\ pc = "test"
    /\ pc' = IF trigger THEN "clear" ELSE IF token THEN "exited" ELSE "sleep"
    /\ UNCHANGED <<state, notified, callVars, paramVars, histVars>>

Sleep ==
    /\ pc = "sleep"
    /\ pc' = "asleep" /\ notified' = FALSE
    /\ UNCHANGED <<state, callVars, paramVars, histVars>>

\* Variant of Wake: a wait without a deadline.
WakeNoDeadline ==
    /\ pc = "asleep" /\ notified
    /\ pc' = "test"
    /\ notified' = FALSE
    /\ UNCHANGED <<state, callVars, paramVars, histVars>>

\* wait_until: a notification leads to another test, the deadline to a cycle.
Wake ==
    /\ pc = "asleep"
    /\ \/ notified /\ pc' = "test"
       \/ pc' = "clear"
    /\ notified' = FALSE
    /\ UNCHANGED <<state, callVars, paramVars, histVars>>

Clear ==
    /\ pc = "clear"
    /\ IF token THEN pc' = "exited" /\ UNCHANGED trigger
                ELSE pc' = "evaluate" /\ trigger' = FALSE
    /\ UNCHANGED <<state, notified, token, own, cpc, paramVars, histVars>>

-----------------------------------------------------------------------------
(* MainLoop: a cycle                                                        *)

\* Evaluate and AddObservation.
Evaluate ==
    /\ pc = "evaluate"
    /\ state' = "Evaluating"
    /\ \/ pc' = "optimize" /\ observed' = observed \cup {current}
       \/ EvaluateMayFail /\ pc' = "loop" /\ UNCHANGED observed
    /\ UNCHANGED <<notified, callVars, current, best, old, file, tree, attempts, histVars>>

\* Optimize observes some more vectors and returns the cheapest of all; it is
\* proposed if it costs less than 95 % or the current cost is not positive.  An
\* iteration with the empty vector among the observations reads through its null
\* data (SqDistance, see TuningSearch).
Optimize ==
    /\ pc = "optimize"
    /\ state' = "Optimizing"
    /\ \/ Iterates /\ Unset \in observed /\ pc' = "crashed" /\ UNCHANGED <<observed, best>>
       \/ ~(Iterates /\ Unset \in observed) /\ \E seen \in SUBSET Params, b \in Vectors :
             /\ observed' = observed \cup seen
             /\ b \in observed' /\ \A p \in observed' : Cost[b] <= Cost[p]
             /\ best' = b
             /\ pc' = IF Cost[current] > 0 /\ 100 * Cost[b] >= 95 * Cost[current]
                      THEN "loop" ELSE "propose"
       \/ EvaluateMayFail /\ pc' = "loop" /\ UNCHANGED <<observed, best>>
    /\ UNCHANGED <<notified, callVars, current, old, file, tree, attempts, histVars>>

Event(kind, p) == [kind |-> kind, params |-> p]
Log(e) == audit' = (IF audit = <<>> THEN <<>> ELSE <<audit[Len(audit)]>>) \o <<e>>

\* The PROPOSED event and the evolution entry.
Propose ==
    /\ pc = "propose"
    /\ old' = current
    /\ Log(Event("PROPOSED", best))
    /\ before' = tree
    /\ pc' = "apply"
    /\ UNCHANGED <<state, notified, callVars, current, observed, best, file, tree, attempts,
                   lost, undone>>

\* The applier: read the file, write the values that p has, reload the tree.
Written(p) == IF p = Unset THEN file ELSE p
ApplyOk(p) == file' = Written(p) /\ tree' = Written(p)
ApplyFails(p) ==
    \/ "load" \in ApplierMayFail /\ UNCHANGED <<file, tree>>
    \/ "reload" \in ApplierMayFail /\ file' = Written(p) /\ UNCHANGED tree

Apply ==
    /\ pc = "apply"
    /\ attempts' = 0
    /\ \/ ApplyOk(best) /\ current' = best /\ pc' = "monitor" /\ state' = "Monitoring"
       \/ ApplyFails(best) /\ pc' = "undo" /\ UNCHANGED <<current, state>>
    /\ UNCHANGED <<notified, callVars, observed, best, old, histVars>>

\* One attempt of RetryRollback, and what follows the last one.
Attempt(next) ==
    \/ ApplyOk(old) /\ pc' = next /\ UNCHANGED <<attempts, lost>>
    \/ /\ ApplyFails(old)
       /\ attempts' = attempts + 1
       /\ pc' = IF attempts + 1 = Retries THEN next ELSE pc
       /\ lost' = (lost \/ attempts + 1 = Retries)

\* Rollback after a failed apply.
Undo ==
    /\ pc = "undo"
    /\ Attempt("loop")
    /\ state' = IF pc' = "loop" THEN "RolledBack" ELSE state
    /\ UNCHANGED <<notified, callVars, current, observed, best, old, audit, before, undone>>

\* The monitoring window: it ends early on a stop or on an NG rate out of bounds.
Monitor ==
    /\ pc = "monitor"
    /\ \/ token /\ pc' = "exited" /\ UNCHANGED <<state, attempts>>
       \/ pc' = "rollback" /\ state' = "RolledBack" /\ attempts' = 0
       \/ pc' = "commit" /\ UNCHANGED <<state, attempts>>
    /\ UNCHANGED <<notified, callVars, current, observed, best, old, file, tree, histVars>>

Rollback ==
    /\ pc = "rollback"
    /\ Attempt("rolledBack")
    /\ UNCHANGED <<state, notified, callVars, current, observed, best, old, audit, before, undone>>

\* Variant of RolledBack: current_params_ keeps the rejected vector.
RolledBackKeeps ==
    /\ pc = "rolledBack"
    /\ undone' = undone \cup {best}
    /\ Log(Event("ROLLBACK", best))
    /\ pc' = "loop"
    /\ UNCHANGED <<current, state, notified, callVars, observed, best, old, file, tree, attempts,
                   before, lost>>

\* current_params_ = old_params, whether or not the rollback succeeded, and the
\* ROLLBACK event.
RolledBack ==
    /\ pc = "rolledBack"
    /\ current' = old
    /\ undone' = undone \cup {best}
    /\ Log(Event("ROLLBACK", best))
    /\ pc' = "loop"
    /\ UNCHANGED <<state, notified, callVars, observed, best, old, file, tree, attempts, before, lost>>

\* Variant of Commit: the event names the vector of the previous cycle.
CommitOld ==
    /\ pc = "commit"
    /\ state' = "Idle"
    /\ Log(Event("APPLIED", old))
    /\ pc' = "loop"
    /\ UNCHANGED <<notified, callVars, paramVars, before, lost, undone>>

Commit ==
    /\ pc = "commit"
    /\ state' = "Idle"
    /\ Log(Event("APPLIED", current))
    /\ pc' = "loop"
    /\ UNCHANGED <<notified, callVars, paramVars, before, lost, undone>>

-----------------------------------------------------------------------------
Work == \/ Loop \/ Test \/ Sleep \/ Wake \/ Clear \/ Evaluate \/ Optimize \/ Propose
        \/ Apply \/ Undo \/ Monitor \/ Rollback \/ RolledBack \/ Commit

Next == \/ Work \/ Start \/ TriggerOnce \/ StopToken \/ JoinCall \/ JoinReturn

\* The worker runs, its waits and its monitoring window end, and a Join whose
\* thread has ended returns.
Spec == Init /\ [][Next]_vars /\ WF_vars(Work) /\ WF_vars(JoinReturn)

-----------------------------------------------------------------------------
(* Properties                                                               *)

TypeOK ==
    /\ pc \in {"none", "loop", "test", "sleep", "asleep", "clear", "evaluate", "optimize", "propose",
               "apply", "undo", "monitor", "rollback", "rolledBack", "commit", "exited", "crashed"}
    /\ state \in {"Idle", "Evaluating", "Optimizing", "Monitoring", "RolledBack"}
    /\ {trigger, token, own, notified, lost} \subseteq BOOLEAN
    /\ cpc \in {"idle", "join"}
    /\ {current, best, old} \subseteq Vectors /\ observed \subseteq Vectors
    /\ {file, tree, before} \subseteq Vectors \cup {Shipped}
    /\ attempts \in 0 .. Retries /\ undone \subseteq Vectors
    /\ Len(audit) <= 2

\* Between cycles the reasoner uses the parameters that the scheduler evaluates
\* and will roll back to, through applies that fail half-way and rollbacks that
\* succeed at the second or third attempt.
TreeMatchesCurrent ==
    pc \in {"loop", "test", "evaluate", "optimize", "propose"} /\ current # Unset /\ ~lost
        => tree = current

\* The scheduler's state is well formed and agrees with the tree in use.
SchedulerInv == TypeOK /\ TreeMatchesCurrent

\* An outcome in the audit log follows the proposal it decides, of the same
\* vector, whatever failed in earlier cycles.
AuditOrder ==
    Len(audit) = 2 /\ audit[2].kind \in {"APPLIED", "ROLLBACK"} =>
        audit[1] = Event("PROPOSED", audit[2].params)

\* A trigger leads to a cycle, also when its notification comes between the
\* worker's test and its sleep.
TriggerServed == trigger ~> (pc = "evaluate" \/ pc \in {"exited", "none", "crashed"})

\* The worker ends when the token given to Start is stopped, wherever it is.
TokenEndsWorker == token ~> (pc \in {"exited", "none"})

-----------------------------------------------------------------------------
(* What the documentation says and the code does not do: see the README.     *)

\* Documented (auto-tuning design, lines 664 and 672): Join stops the thread.
JoinReturns == (cpc = "join") ~> (cpc = "idle")

\* Documented (auto-tuning design, line 360; with Iterates): Optimize returns the
\* best point to the scheduler.
OptimizeSurvives == pc # "crashed"

\* Documented (auto-tuning design, line 43): monitoring rolls back to the last
\* safe version of the parameters.
RollbackRestores == pc = "loop" /\ audit # <<>> /\ audit[Len(audit)].kind = "ROLLBACK" => tree = before

\* Documented (auto-tuning design, line 43): a vector that was rolled back is
\* kept from being proposed again.
UndoneNotProposed == pc = "apply" => best \notin undone
=============================================================================
