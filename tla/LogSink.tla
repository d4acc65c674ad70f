------------------------------ MODULE LogSink -------------------------------
(***************************************************************************)
(* DailyAndSizeRotatingFileSink: messages 1, 2, 3, ... go to the active    *)
(* file, which is rotated when a message would exceed MaxSize or the day   *)
(* changed.  A restart opens the file that is there.  Sizes count units,   *)
(* a message has 1 or 2.  Bounds: Messages messages, Days days.            *)
(***************************************************************************)
EXTENDS Integers, Sequences, SequencesExt

CONSTANTS MaxSize, MaxFiles, Messages, Days

VARIABLES files,   \* index -> the messages of that file, 0 is the active one
          exists,  \* the indices of the files that exist
          size,    \* current_size_
          day,     \* current_day_
          today, written, kept \* kept: the oldest message not rotated out

logVars == <<files, exists, size, day, today, written, kept>>
Indices == 0..MaxFiles
MessageSize(n) == 1 + (n % 2)
FileSize(s) ==
  LET sum[i \in 0 .. Len(s)] == IF i = 0 THEN 0 ELSE sum[i - 1] + MessageSize(s[i].id)
  IN  sum[Len(s)]

(* The constructor: the active file is opened to append. *)
LogInit == /\ files = [i \in Indices |-> <<>>] /\ exists = {0} /\ size = 0
           /\ day = 1 /\ today = 1 /\ written = 0 /\ kept = 1
Restart == /\ size' = FileSize(files[0]) /\ day' = today
           /\ UNCHANGED <<files, exists, today, written, kept>>

\* Variant of Cascade: from the active file up.
CascadeUpwards(f) == [i \in Indices |-> IF i = 0 THEN <<>> ELSE f[0]]
(* Rotate_: from the oldest down, each file that exists replaces the next; *)
(* then the active file is reopened empty.                                 *)
Cascade(f) == [i \in Indices |-> IF i = 0 THEN <<>>
                                 ELSE IF i - 1 \in exists THEN f[i - 1]
                                 ELSE IF i \in exists THEN f[i] ELSE <<>>]
Dropped == IF MaxFiles \in exists /\ (MaxFiles = 0 \/ MaxFiles - 1 \in exists) THEN Len(files[MaxFiles]) ELSE 0

(* sink_it_: rotate before the write, never in the middle of a message.    *)
Write ==
  /\ written < Messages /\ written' = written + 1
  /\ LET m == [id |-> written + 1, day |-> today]
         rotate == day # today \/ size + MessageSize(m.id) > MaxSize
         base == IF rotate THEN Cascade(files) ELSE files
     IN  /\ files' = [base EXCEPT ![0] = Append(@, m)]
         /\ size' = MessageSize(m.id) + (IF rotate THEN 0 ELSE size)
         /\ day' = today
         /\ exists' = IF rotate THEN {0} \cup {i + 1 : i \in exists \ {MaxFiles}} ELSE exists
         /\ kept' = IF rotate THEN kept + Dropped ELSE kept
  /\ UNCHANGED today
Midnight == today < Days /\ today' = today + 1 /\ UNCHANGED <<files, exists, size, day, written, kept>>

LogNext == Write \/ Midnight \/ Restart
LogSpec == LogInit /\ [][LogNext]_logVars

(***************************************************************************)
(* Properties                                                              *)
(***************************************************************************)
\* What the files hold, from the oldest to the active one.
History == FlattenSeq([i \in 1..(MaxFiles + 1) |-> files[MaxFiles + 1 - i]])
(* Rotation on size or day (daily_and_size_sink.h:18-28): read from the    *)
(* oldest file on, the log is every message that the cascade did not drop  *)
(* from the end, in order; a file never exceeds the limit with more than   *)
(* one message.                                                            *)
LogInv ==
  /\ [i \in DOMAIN History |-> History[i].id] = [i \in 1..(written - kept + 1) |-> kept + i - 1]
  /\ size = FileSize(files[0])
  /\ \A i \in Indices : FileSize(files[i]) <= MaxSize \/ Len(files[i]) = 1

\* Documented (daily_and_size_sink.h:20): a file holds one day.  After a restart
\* the day of the file that is found is not known.
OneDayPerFile == \A i \in Indices : \A m, n \in ToSet(files[i]) : m.day = n.day
=============================================================================
