----------------------------- MODULE Telemetry -----------------------------
(***************************************************************************)
(* Spans on their way to a file: Span.end() puts them into a bounded queue *)
(* (span_queue.py), one background task takes them in batches              *)
(* (otel_agent.py) to the exporters (export_backend.py), the first of      *)
(* which is the SQLite store with a file per time window                   *)
(* (sqlite_backend.py), while a dashboard queries the same files and old   *)
(* ones are deleted.                                                       *)
(*                                                                         *)
(* Every await of the task and of a query is a step.  The task may be      *)
(* cancelled at any of them, once; each call of an exporter may raise.     *)
(* Spans are the records of SpanQueries, numbered as they end.             *)
(***************************************************************************)
EXTENDS SpanQueries, Functions, TLC

CONSTANTS Scenes,      \* the configurations to choose from
          MaxSpans, QueueSize, BatchSize,
          Retention,   \* retention_windows
          MaxAttach,   \* the databases SQLite attaches at most
          MaxNow,      \* the clock runs up to here
          Ranges       \* the ranges a query may ask for

\* A span has a time, and the queue has room for one.
ASSUME TelemetryAssumption ==
    /\ {WindowSize, QueueSize} \subseteq Nat \ {0}
    /\ {MaxNow, MaxSpans, Retention} \subseteq Nat
    /\ \A c \in Scenes : \A k \in c.kinds : "at" \in DOMAIN k /\ k.at \in Nat

VARIABLES scene,
          ended,       \* the spans that ended, in order
          queue, pending, batch, \* sequences of their numbers
          otel,        \* where the task is
          cancelled,   \* "no", "asked", or "final" when it has arrived
          shown,       \* what the second exporter was given, in order
          dropped, lost, \* spans pushed out of the queue; spans given up
          files,       \* window -> "absent", "bare" (no table yet) or "ready"
          rows, limbo, \* window -> the spans committed; only inserted
          inserts,     \* span -> how often it was inserted
          conns,       \* the windows with an open connection
          todo,        \* the windows this export has still to write
          now, troubles,
          query

pipeVars == <<ended, queue, pending, batch, otel, cancelled, shown, dropped, lost>>
diskVars == <<files, rows, limbo, inserts, conns, todo>>
telVars == <<scene, pipeVars, diskVars, now, troubles, query>>

Windows == 0 .. WindowIndex(MaxNow)
Own(w) == {i \in Range(batch) : WindowIndex(ended[i].at) = w}
NoQuery == [at |-> "none"]

-----------------------------------------------------------------------------
(* Span.end() and SpanQueue.put_nowait(): the oldest makes room.           *)
SpanEnds ==
    /\ Len(ended) < MaxSpans /\ otel # "done"
    /\ \E k \in scene.kinds :
          /\ k.at <= now
          /\ ended' = Append(ended, NormalizeSpan([k EXCEPT !.id = Len(ended) + 1]))
    /\ IF Len(queue) < QueueSize
       THEN queue' = Append(queue, Len(ended) + 1) /\ UNCHANGED dropped
       ELSE /\ queue' = Append(Tail(queue), Len(ended) + 1)
            /\ dropped' = dropped \cup {Head(queue)}
    /\ UNCHANGED <<pending, batch, otel, cancelled, shown, lost, diskVars, now, troubles, query>>

Tick ==
    /\ now < MaxNow
    /\ now' = now + 1
    /\ UNCHANGED <<pipeVars, diskVars, troubles, query>>

-----------------------------------------------------------------------------
(* run_otel_agent()                                                        *)

\* The windows of a batch, in the order in which they first occur: one list.
WindowsOf(p) ==
    LET at(j) == WindowIndex(ended[p[j]].at)
        W == {at(j) : j \in DOMAIN p}
    IN  {q \in UNION {[1 .. n -> W] : n \in 0 .. Len(p)} :
            /\ W \subseteq Range(q)
            /\ \A i, k \in DOMAIN q : i < k =>
                  \E j \in DOMAIN p : at(j) = q[i] /\ \A m \in 1 .. j : at(m) # q[k]}

\* Mutant: pending is not cleared.
FlushKeepsPending(p) ==
    /\ batch' = p /\ todo' \in WindowsOf(p)
    /\ pending' = p
    /\ otel' = "store"

\* _flush(): the batch leaves pending before it is exported.
Flush(p) ==
    /\ batch' = p /\ todo' \in WindowsOf(p)
    /\ pending' = <<>>
    /\ otel' = "store"

OtelGet ==
    /\ otel = "wait" /\ cancelled = "no" /\ queue # <<>>
    /\ queue' = Tail(queue)
    /\ LET p == Append(pending, Head(queue)) IN
       IF Len(p) >= BatchSize THEN Flush(p)
                              ELSE pending' = p /\ UNCHANGED <<batch, todo, otel>>
    /\ UNCHANGED <<ended, cancelled, shown, dropped, lost, files, rows, limbo, inserts, conns,
                   now, troubles, query>>

\* The flush interval is over.
OtelTimeout ==
    /\ otel = "wait" /\ cancelled = "no" /\ pending # <<>>
    /\ Flush(pending)
    /\ UNCHANGED <<ended, queue, cancelled, shown, dropped, lost, files, rows, limbo, inserts,
                   conns, now, troubles, query>>

\* Runtime.stop() or Worker.stop().
Cancel ==
    /\ scene.stops /\ cancelled = "no"
    /\ cancelled' = "asked"
    /\ UNCHANGED <<ended, queue, pending, batch, otel, shown, dropped, lost, diskVars, now,
                   troubles, query>>

\* The rest of the queue, or as much of it as two seconds allow, makes up the
\* last batch.
Drain ==
    /\ otel = "drain"
    /\ \E n \in 0 .. Len(queue) :
        LET p == pending \o SubSeq(queue, 1, n) IN
        /\ queue' = SubSeq(queue, n + 1, Len(queue))
        /\ IF p = <<>> THEN otel' = "close" /\ UNCHANGED <<pending, batch, todo>>
                       ELSE Flush(p)
    /\ UNCHANGED <<ended, cancelled, shown, dropped, lost, files, rows, limbo, inserts, conns,
                   now, troubles, query>>

\* An export is over: back to the loop, or on to backend.shutdown().
AfterExport == IF cancelled = "final" THEN "close" ELSE "wait"

-----------------------------------------------------------------------------
(* SQLiteSpanStore.export()                                                *)

\* _connection_for(): a window without a connection is opened, and created.
StoreConnect ==
    /\ otel = "store" /\ todo # <<>>
    /\ LET w == Head(todo) IN
       IF w \in conns
       THEN otel' = "insert" /\ UNCHANGED files
       ELSE /\ otel' = "schema"
            /\ files' = [files EXCEPT ![w] = IF @ = "absent" THEN "bare" ELSE @]
    /\ UNCHANGED <<ended, queue, pending, batch, cancelled, shown, dropped, lost, rows, limbo,
                   inserts, conns, todo, now, troubles, query>>

StoreSchema ==
    /\ otel = "schema"
    /\ files' = [files EXCEPT ![Head(todo)] = "ready"]
    /\ conns' = conns \cup {Head(todo)}
    /\ otel' = "insert"
    /\ UNCHANGED <<ended, queue, pending, batch, cancelled, shown, dropped, lost, rows, limbo,
                   inserts, todo, now, troubles, query>>

Inserted(w) ==
    /\ limbo' = [limbo EXCEPT ![w] = @ \cup Own(w)]
    /\ inserts' = [i \in DOMAIN inserts |-> inserts[i] + IF i \in Own(w) THEN 1 ELSE 0]

Committed(w) ==
    /\ rows' = [rows EXCEPT ![w] = @ \cup limbo[w]]
    /\ limbo' = [limbo EXCEPT ![w] = {}]

StoreInsert ==
    /\ otel = "insert"
    /\ Inserted(Head(todo))
    /\ otel' = "commit"
    /\ UNCHANGED <<ended, queue, pending, batch, cancelled, shown, dropped, lost, files, rows,
                   conns, todo, now, troubles, query>>

StoreCommit ==
    /\ otel = "commit"
    /\ Committed(Head(todo))
    /\ todo' = Tail(todo)
    /\ otel' = "store"
    /\ UNCHANGED <<ended, queue, pending, batch, cancelled, shown, dropped, lost, files, inserts,
                   conns, now, troubles, query>>

Expired(w) == files[w] # "absent" /\ w < WindowIndex(now) - Retention

\* _sweep_retention() lists the files too old by now, in no particular order.
SweepBegins ==
    /\ otel = "store" /\ todo = <<>>
    /\ LET old == {w \in Windows : Expired(w)}
       IN  \E n \in 0 .. WindowIndex(MaxNow) + 1 : todo' \in Bijection(1 .. n, old)
    /\ otel' = "sweep"
    /\ UNCHANGED <<ended, queue, pending, batch, cancelled, shown, dropped, lost, files, rows,
                   limbo, inserts, conns, now, troubles, query>>

\* The connection is closed, which forgets what was not committed, and the file
\* deleted, unless the system refuses; a query that has attached it reads it
\* still.
SweepFile ==
    /\ otel = "sweep" /\ todo # <<>>
    /\ LET w == Head(todo) IN
       /\ limbo' = [limbo EXCEPT ![w] = {}]
       /\ conns' = conns \ {w}
       /\ \/ /\ files' = [files EXCEPT ![w] = "absent"]
             /\ rows' = [rows EXCEPT ![w] = {}]
             /\ query' = IF query.at = "attach" /\ w \in DOMAIN query.have
                            /\ query.have[w] = "live"
                         THEN [query EXCEPT !.have[w] = "gone", !.gone = @ \cup rows[w]]
                         ELSE query
             /\ UNCHANGED troubles
          \/ /\ troubles > 0
             /\ troubles' = troubles - 1
             /\ UNCHANGED <<files, rows, query>>
    /\ todo' = Tail(todo)
    /\ UNCHANGED <<pipeVars, inserts, now>>

SweepDone ==
    /\ otel = "sweep" /\ todo = <<>>
    /\ otel' = "second"
    /\ UNCHANGED <<ended, queue, pending, batch, cancelled, shown, dropped, lost, diskVars, now,
                   troubles, query>>

\* FanOutBackend: the next exporter is called in any case.
SecondExporter ==
    /\ otel = "second"
    /\ shown' = shown \o batch
    /\ batch' = <<>>
    /\ otel' = AfterExport
    /\ UNCHANGED <<ended, queue, pending, cancelled, dropped, lost, diskVars, now, troubles, query>>

\* An exporter raises: logged, and the spans are gone for it.
ExporterRaises ==
    /\ troubles > 0 /\ otel \notin {"wait", "drain", "close", "done"}
    /\ troubles' = troubles - 1
    /\ lost' = lost \cup Range(batch)
    /\ IF otel = "second" THEN otel' = AfterExport /\ batch' = <<>>
                          ELSE otel' = "second" /\ UNCHANGED batch
    /\ todo' = <<>>
    /\ UNCHANGED <<ended, queue, pending, cancelled, shown, dropped, files, rows, limbo, inserts,
                   conns, now, query>>

\* The cancellation arrives at an await.  Inside an export it ends the export,
\* for the exporters still to come as well; a statement that is with the
\* database thread is carried out all the same.
CancelArrives ==
    /\ cancelled = "asked" /\ otel \notin {"drain", "close", "done"}
    /\ cancelled' = "final"
    /\ lost' = lost \cup Range(batch)
    /\ CASE otel = "insert" -> Inserted(Head(todo)) /\ UNCHANGED rows
         [] otel = "commit" -> Committed(Head(todo)) /\ UNCHANGED inserts
         [] OTHER -> UNCHANGED <<rows, limbo, inserts>>
    /\ \/ UNCHANGED files
       \/ otel = "schema" /\ files' = [files EXCEPT ![Head(todo)] = "ready"]
    /\ batch' = <<>> /\ todo' = <<>>
    /\ otel' = "drain"
    /\ UNCHANGED <<ended, queue, pending, shown, dropped, conns, now, troubles, query>>

\* backend.shutdown()
Shutdown ==
    /\ otel = "close"
    /\ limbo' = [w \in Windows |-> {}]
    /\ conns' = {}
    /\ otel' = "done"
    /\ UNCHANGED <<ended, queue, pending, batch, cancelled, shown, dropped, lost, files, rows,
                   inserts, todo, now, troubles, query>>

-----------------------------------------------------------------------------
(* _query_across_windows(): the files in range are listed, attached one by *)
(* one, and read by one statement.                                         *)

FilesInRange(since, until) ==
    {w \in Windows : /\ files[w] # "absent"
                     /\ WindowIndex(since) <= w /\ w <= WindowIndex(until)}

Stored == UNION {rows[w] : w \in Windows}
Within(S, r) == {i \in S : InRange(ended[i], r[1], r[2])}

QueryBegins ==
    /\ scene.queries /\ query = NoQuery
    /\ \E r \in Ranges :
        query' = [at |-> "attach", range |-> r, list |-> FilesInRange(r[1], r[2]),
                  have |-> << >>, gone |-> {}, before |-> Within(Stored, r)]
    /\ UNCHANGED <<pipeVars, diskVars, now, troubles>>

\* ATTACH creates the file if it has been deleted meanwhile, and refuses one
\* database too many.
QueryAttach ==
    /\ query.at = "attach"
    /\ \E w \in query.list :
        /\ \A v \in query.list : w <= v
        /\ IF Cardinality(DOMAIN query.have) = MaxAttach
           THEN query' = [at |-> "error", why |-> "limit"] /\ UNCHANGED files
           ELSE /\ query' = [query EXCEPT !.list = @ \ {w}, !.have = (w :> "live") @@ @]
                /\ files' = [files EXCEPT ![w] = IF @ = "absent" THEN "bare" ELSE @]
    /\ UNCHANGED <<pipeVars, rows, limbo, inserts, conns, todo, now, troubles>>

Visible(w) == IF query.have[w] = "live" THEN rows[w]
              ELSE {i \in query.gone : WindowIndex(ended[i].at) = w}

\* A file without its table makes the statement fail.
QueryAnswers ==
    /\ query.at = "attach" /\ query.list = {}
    /\ IF \E w \in DOMAIN query.have : query.have[w] = "live" /\ files[w] = "bare"
       THEN query' = [at |-> "error", why |-> "table"]
       ELSE query' = [at |-> "answer", range |-> query.range, before |-> query.before,
                      swept |-> query.before \ Stored, stored |-> Within(Stored, query.range),
                      gone |-> query.gone,
                      seen |-> [w \in DOMAIN query.have |-> Within(Visible(w), query.range)]]
    /\ UNCHANGED <<pipeVars, diskVars, now, troubles>>

QueryRead ==
    /\ query.at \in {"answer", "error"}
    /\ query' = NoQuery
    /\ UNCHANGED <<pipeVars, diskVars, now, troubles>>

-----------------------------------------------------------------------------
TelInit ==
    /\ scene \in Scenes
    /\ ended = <<>> /\ queue = <<>> /\ pending = <<>> /\ batch = <<>>
    /\ otel = "wait" /\ cancelled = "no" /\ shown = <<>>
    /\ dropped = {} /\ lost = {}
    /\ files = [w \in Windows |-> "absent"]
    /\ rows = [w \in Windows |-> {}] /\ limbo = [w \in Windows |-> {}]
    /\ inserts = [i \in 1 .. MaxSpans |-> 0]
    /\ conns = {} /\ todo = <<>>
    /\ now = 0 /\ troubles = scene.troubles
    /\ query = NoQuery

OtelNext ==
    \/ OtelGet \/ OtelTimeout \/ Drain \/ CancelArrives
    \/ StoreConnect \/ StoreSchema \/ StoreInsert \/ StoreCommit
    \/ SweepBegins \/ SweepFile \/ SweepDone \/ SecondExporter \/ ExporterRaises \/ Shutdown

TelNext ==
    /\ scene.kind = "spans"
    /\ \/ SpanEnds \/ Tick \/ Cancel \/ OtelNext
       \/ QueryBegins \/ QueryAttach \/ QueryAnswers \/ QueryRead
    /\ UNCHANGED scene

TelSpec == TelInit /\ [][TelNext]_telVars

-----------------------------------------------------------------------------
InSeq(i, s) == \E j \in DOMAIN s : s[j] = i

\* Every span that ended is somewhere: in the queue, with the task, with every
\* exporter, or lost for a reason: pushed out of the full queue, in an export
\* that raised, in the one the cancellation met, left in the queue after the
\* two seconds, or in a file that has expired.  No exporter gets a span twice,
\* and each gets them in the order in which they ended.
SpansAccounted ==
    /\ \A i \in DOMAIN ended :
        \/ InSeq(i, queue) \/ InSeq(i, pending) \/ InSeq(i, batch)
        \/ i \in dropped \cup lost
        \/ /\ InSeq(i, shown)
           /\ LET w == WindowIndex(ended[i].at) IN
              i \in rows[w] \/ w < WindowIndex(now) - Retention
    /\ \A i \in DOMAIN inserts : inserts[i] <= 1
    /\ \A j, k \in DOMAIN shown : j < k => shown[j] < shown[k]

\* A query that gets an answer has seen, once each, all spans in its range that
\* were stored when it was asked, those of files deleted meanwhile excepted, and
\* nothing but spans stored; and all six questions are answered as the
\* in-memory store answers them, also where a bucket lies across two files.
QueryExact ==
    query.at = "answer" =>
        LET seen == query.seen
            all == UNION {seen[k] : k \in DOMAIN seen}
            of(S) == {ended[i] : i \in S}
        IN  /\ query.before \ query.swept \subseteq all
            /\ all \subseteq query.stored \cup query.gone
            /\ SameAnswers([k \in DOMAIN seen |-> of(seen[k])],
                           {ended[i].trace : i \in DOMAIN ended})
=============================================================================
