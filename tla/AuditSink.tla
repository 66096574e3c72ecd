----------------------------- MODULE AuditSink -----------------------------
(***************************************************************************)
(* JsonlFileSink (audit/sinks.py): emit() queues an event and starts the   *)
(* drain task, which writes batches to the file; close() queues a          *)
(* sentinel, waits for the task and writes what is left.                   *)
(*                                                                         *)
(* An event is its number.  The log is all that was written, through       *)
(* however many rotations.  No event is emitted once close() has ended,    *)
(* and nobody but close() calls flush(), as in the runtime.                *)
(***************************************************************************)
EXTENDS Naturals, Sequences

CONSTANTS MaxEvents, AuditBatch

VARIABLES emitted,     \* the number of the last event
          lines,       \* the queue
          drain,       \* the task: "none", "run", "ended", or "late": started
                       \* while close() is on its way
          collected,   \* the batch of the drain task
          log,
          rotate,      \* _rotate_flag
          closing,     \* "no", "wait" for the task, "flush", "fail", "closed"
                       \* or "raised"
          mishaps,     \* write errors and slow disks to come
          spoiled      \* has there been one?

auditVars == <<emitted, lines, drain, collected, log, rotate, closing, mishaps, spoiled>>

Sentinel == 0

AuditInit(trouble) ==
    /\ emitted = 0 /\ lines = <<>> /\ drain = "none" /\ collected = <<>> /\ log = <<>>
    /\ rotate = FALSE /\ closing = "no" /\ mishaps = trouble /\ spoiled = FALSE

\* emit(): a task is started when there is none or it has ended.  One that is
\* started when the first has ended has its first turn after close().
Emit ==
    /\ emitted < MaxEvents /\ closing \notin {"closed", "raised"}
    /\ emitted' = emitted + 1
    /\ lines' = Append(lines, emitted + 1)
    /\ drain' = CASE drain \in {"none", "ended"} /\ closing = "no" -> "run"
                  [] drain = "ended" /\ closing # "no" -> "late"
                  [] OTHER -> drain
    /\ UNCHANGED <<collected, log, rotate, closing, mishaps, spoiled>>

Sighup ==
    /\ drain = "run" /\ ~rotate
    /\ rotate' = TRUE
    /\ UNCHANGED <<emitted, lines, drain, collected, log, closing, mishaps, spoiled>>

\* _write_batch()
WriteBatch(entries) ==
    /\ log' = log \o entries
    /\ UNCHANGED <<mishaps, spoiled>>

WriteFails(entries) ==
    /\ mishaps > 0 /\ entries # <<>>
    /\ mishaps' = mishaps - 1 /\ spoiled' = TRUE
    /\ UNCHANGED log

TaskEnds(how) ==
    /\ drain' = "ended"
    /\ closing' = IF closing = "wait" THEN how ELSE closing

\* A batch is complete: it is written, and the file reopened if a SIGHUP asked
\* for it.  An error of the disk ends the task, and its batch is gone.
BatchDone(entries) ==
    /\ collected' = <<>>
    /\ \/ WriteBatch(entries) /\ rotate' = FALSE /\ UNCHANGED <<drain, closing>>
       \/ WriteFails(entries) /\ TaskEnds("fail") /\ UNCHANGED rotate

\* _drain_loop()
DrainItem ==
    /\ drain = "run" /\ lines # <<>> /\ Head(lines) # Sentinel
    /\ lines' = Tail(lines)
    /\ LET b == Append(collected, Head(lines)) IN
       IF Len(b) = AuditBatch
       THEN BatchDone(b)
       ELSE collected' = b /\ UNCHANGED <<drain, log, rotate, closing, mishaps, spoiled>>
    /\ UNCHANGED emitted

DrainTimeout ==
    /\ drain = "run" /\ (collected # <<>> \/ rotate)
    /\ BatchDone(collected)
    /\ UNCHANGED <<emitted, lines>>

\* Mutant: the sentinel ends the task at once.
DrainSentinelDrops ==
    /\ drain = "run" /\ lines # <<>> /\ Head(lines) = Sentinel
    /\ lines' = Tail(lines) /\ collected' = <<>>
    /\ TaskEnds("flush")
    /\ UNCHANGED <<emitted, log, rotate, mishaps, spoiled>>

DrainSentinel ==
    /\ drain = "run" /\ lines # <<>> /\ Head(lines) = Sentinel
    /\ lines' = Tail(lines) /\ collected' = <<>>
    /\ \/ WriteBatch(collected) /\ TaskEnds("flush")
       \/ WriteFails(collected) /\ TaskEnds("fail")
    /\ UNCHANGED <<emitted, rotate>>

\* close(): without a task there is nothing to write; the error of a task that
\* had ended already is raised at once.
CloseBegins ==
    /\ closing = "no"
    /\ lines' = Append(lines, Sentinel)
    /\ closing' = CASE drain = "none" -> "closed"
                    [] drain = "run" -> "wait"
                    [] drain = "ended" -> "raised"
    /\ UNCHANGED <<emitted, drain, collected, log, rotate, mishaps, spoiled>>

\* flush() takes what is queued, up to the sentinel if it is still there.
Unsent == LET stops == {k \in DOMAIN lines : lines[k] = Sentinel} \cup {Len(lines) + 1}
          IN  SubSeq(lines, 1, (CHOOSE k \in stops : \A m \in stops : k <= m) - 1)

CloseFlushes ==
    /\ closing = "flush"
    /\ lines' = SubSeq(lines, Len(Unsent) + 1, Len(lines))
    /\ \/ WriteBatch(Unsent) /\ closing' = "closed"
       \/ WriteFails(Unsent) /\ closing' = "raised"
    /\ UNCHANGED <<emitted, drain, collected, rotate>>

\* The task's error is the error of close().
CloseRaises ==
    /\ closing = "fail"
    /\ closing' = "raised"
    /\ UNCHANGED <<emitted, lines, drain, collected, log, rotate, mishaps, spoiled>>

\* Five seconds are over: the task is cancelled, and its batch is gone.
CloseTimeout ==
    /\ closing = "wait" /\ drain = "run" /\ mishaps > 0
    /\ mishaps' = mishaps - 1 /\ spoiled' = TRUE
    /\ drain' = "ended" /\ collected' = <<>>
    /\ closing' = "flush"
    /\ UNCHANGED <<emitted, lines, log, rotate>>

AuditNext ==
    \/ Emit \/ Sighup \/ DrainItem \/ DrainTimeout \/ DrainSentinel
    \/ CloseBegins \/ CloseFlushes \/ CloseRaises \/ CloseTimeout

-----------------------------------------------------------------------------
\* Whatever happens, no event is logged twice or before an earlier one.  When
\* close() has returned and the disk gave no trouble, the log holds every event
\* emitted, those emitted while close() was on its way included; when close()
\* raises, there was trouble.
AuditExact ==
    /\ \A j, k \in DOMAIN log : j < k => log[j] < log[k]
    /\ closing = "closed" /\ ~spoiled => log = [k \in 1 .. emitted |-> k]
    /\ closing = "raised" => spoiled
=============================================================================
