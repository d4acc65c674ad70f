------------------------------ MODULE WebServer ------------------------------
(***************************************************************************)
(* HttpServer (src/src/web/http_server.cpp): the results and counts that   *)
(* the pipeline's callback reports, the queries that answer from them, and *)
(* the thread that serves between Start and Stop.                          *)
(*                                                                         *)
(* Servers and threads are numbered in the order in which Start makes      *)
(* them.  A thread works on svr_, the member, and not on a server of its   *)
(* own; stop() of the vendored httplib ends a listen that runs and has no  *)
(* effect before (httplib.h:11468-11476).                                  *)
(***************************************************************************)
EXTENDS Integers, Sequences, SequencesExt, FiniteSets

CONSTANTS
    kMaxHistory,  \* results that are kept
    MaxAlerts,    \* results that /api/alerts gives, 20 in the code
    Verdicts,     \* verdicts of results
    Limits,       \* the parameter of /api/results/history; a negative one is a number
    MaxUpdates,   \* bound: results
    MaxStarts     \* bound: servers

VARIABLES
    owner,    \* "idle", "joining" inside Start, or "stopped" when Stop has returned
    running,  \* running_
    svr,      \* the server that svr_ holds, 0 for none
    server,   \* server -> "new", "listening" or "closed"
    thread,   \* thread -> New, the server it listens on, or Ended
    updates,  \* all results that were reported
    history,  \* history_
    counts,   \* ok_count_, ng_count_, warn_count_, uncertain_count_
    answer    \* the last answer: the query, what it gave, and the results then reported

webVars == <<owner, running, svr, server, thread, updates, history, counts, answer>>
serviceVars == <<owner, running, svr, server, thread>>
dataVars == <<updates, history, counts, answer>>

Columns == {"OK", "NG", "WARN", "other"}
NoAnswer == [query |-> "none"]
New == 0
Ended == -1
Listening(t) == thread[t] > 0

WebInit ==
    /\ owner = "idle" /\ running = FALSE /\ svr = 0 /\ server = <<>> /\ thread = <<>>
    /\ updates = <<>> /\ history = <<>> /\ counts = [c \in Columns |-> 0] /\ answer = NoAnswer

(***************************************************************************)
(* Start and Stop                                                          *)
(***************************************************************************)
\* A second Start is ignored.  The new thread begins before the move assignment joins
\* the one before.
Start ==
    /\ owner # "joining" /\ Len(server) < MaxStarts
    /\ ~running /\ running' = TRUE
    /\ server' = Append(server, "new") /\ svr' = Len(server) + 1
    /\ thread' = Append(thread, New)
    /\ owner' = "joining"
    /\ UNCHANGED dataVars

Started ==
    /\ owner = "joining" /\ \A t \in 1 .. Len(thread) - 1 : thread[t] = Ended
    /\ owner' = "idle"
    /\ UNCHANGED <<running, svr, server, thread, dataVars>>

\* Stop asks the server and the thread to end and returns.
Stop ==
    /\ owner # "joining" /\ running /\ running' = FALSE
    /\ server' = [server EXCEPT ![svr] = IF @ = "listening" THEN "closed" ELSE @]
    /\ owner' = "stopped"
    /\ UNCHANGED <<svr, thread, dataVars>>

\* The thread registers its handlers with svr_ and listens, unless the port is taken.
Listen(t) ==
    /\ thread[t] = New
    /\ \/ server[svr] # "closed" /\ thread' = [thread EXCEPT ![t] = svr] /\ server' = [server EXCEPT ![svr] = "listening"]
       \/ thread' = [thread EXCEPT ![t] = Ended] /\ UNCHANGED server
    /\ UNCHANGED <<owner, running, svr, dataVars>>

Return(t) ==
    /\ Listening(t) /\ server[thread[t]] = "closed"
    /\ thread' = [thread EXCEPT ![t] = Ended]
    /\ UNCHANGED <<owner, running, svr, server, dataVars>>

(***************************************************************************)
(* Results and queries, each under mutex_                                  *)
(***************************************************************************)
Newest(s, n) == SubSeq(s, IF Len(s) > n THEN Len(s) - n + 1 ELSE 1, Len(s))

\* Variant of Trimmed: erases one result more.
TrimmedMore(s) == IF Len(s) > kMaxHistory THEN Newest(s, kMaxHistory - 1) ELSE s
Trimmed(s) == IF Len(s) > kMaxHistory THEN Newest(s, kMaxHistory) ELSE s

Counted(v) == IF v \in Columns THEN v ELSE "other"
UpdateResult(v) ==
    /\ Len(updates) < MaxUpdates
    /\ updates' = Append(updates, v)
    /\ history' = Trimmed(Append(history, v))
    /\ counts' = [counts EXCEPT ![Counted(v)] = @ + 1]
    /\ UNCHANGED <<answer, serviceVars>>

\* A negative limit is a huge size_t, so that all are given.
Recent(limit) == IF limit < 0 THEN history ELSE Newest(history, limit)
Alerts == Newest(SelectSeq(history, LAMBDA v : v # "OK"), MaxAlerts)

Query(q, limit, given) == answer' = [query |-> q, limit |-> limit, given |-> given, all |-> updates]
Answer ==
    /\ \E t \in DOMAIN thread : Listening(t)
    /\ \/ Query("status", 0, counts)
       \/ Query("latest", 1, IF history = <<>> THEN <<>> ELSE <<Last(history)>>)
       \/ \E limit \in Limits : Query("history", limit, Recent(limit))
       \/ Query("alerts", MaxAlerts, Reverse(Alerts))
    /\ UNCHANGED <<updates, history, counts, serviceVars>>

WebNext ==
    \/ Start \/ Started \/ Stop
    \/ \E t \in DOMAIN thread : Listen(t) \/ Return(t)
    \/ \E v \in Verdicts : UpdateResult(v)
    \/ Answer

(***************************************************************************)
(* Properties                                                              *)
(***************************************************************************)
\* An answer agrees with the results reported when it was given: the counts with all of
\* them, and the others with the newest that are kept.
Agrees(a) ==
    LET all == a.all kept == Newest(all, kMaxHistory) IN
      CASE a.query = "status" ->
             \A c \in Columns : a.given[c] = Cardinality({i \in DOMAIN all : Counted(all[i]) = c})
        [] a.query = "alerts" ->
             a.given = Reverse(Newest(SelectSeq(kept, LAMBDA v : v # "OK"), MaxAlerts))
        [] OTHER -> a.given = IF a.limit < 0 THEN kept ELSE Newest(kept, a.limit)
\* What a query gives agrees with the results reported until then, and a list with the
\* newest that history_ keeps of them (http_server.cpp:38-137, 217-227).
AnswerTrue == answer # NoAnswer => Agrees(answer)

\* Documented (http_server.h:53 "Stop the server and join the thread"): no thread serves
\* when Stop has returned.
StopJoins == owner = "stopped" => \A t \in DOMAIN thread : thread[t] = Ended

\* The thread that Start joins will end: it does not listen on a server that nobody closes.
StartReturns == owner = "joining" => \A t \in 1 .. Len(thread) - 1 : Listening(t) => server[thread[t]] = "closed"
=============================================================================
