------------------------------- MODULE Mailbox -------------------------------
(***************************************************************************)
(* Mailbox of process.py: two asyncio queues, one for business messages    *)
(* and one for priority messages, and one shared asyncio.Event that any    *)
(* put sets and that the single reader (the agent's message loop) clears   *)
(* before it waits.  Code between two awaits is one atomic step.  A put    *)
(* that finds its queue full is a sender still waiting for the guard of    *)
(* its Put; put_nowait raises there instead, and changes nothing.          *)
(***************************************************************************)
EXTENDS Integers, Sequences, Functions

CONSTANTS MaxSize,      \* capacity of the normal queue
          PrioMaxSize,  \* capacity of the priority queue, 0 for unbounded
          Modes,        \* how the reader reads: "get", "get_priority"
          TtlLimit,     \* the first TtlLimit messages of a class carry a ttl
          MaxMsgs       \* bound: messages accepted per class

ASSUME MailboxAssumption ==
  /\ MaxSize \in Nat \ {0} /\ PrioMaxSize \in Nat
  /\ Modes \subseteq {"get", "get_priority"} /\ Modes # {}
  /\ TtlLimit \in Nat /\ MaxMsgs \in Nat

VARIABLES queue, priority_queue,  \* the two queues, oldest first
          notify,                 \* the shared event
          reader,                 \* "out", or the mode whose wait() it is parked in
          expired,                \* messages older than their ttl
          accepted,               \* messages put so far, per class
          delivered,              \* history: what get and get_priority returned
          discarded,              \* messages dropped as expired or drained
          wakeups                 \* times the reader was woken

vars == <<queue, priority_queue, notify, reader, expired, accepted, delivered,
          discarded, wakeups>>

\* A message is its class and its position in the order of acceptance.
Message == [prio : BOOLEAN, n : 1..MaxMsgs]

Queue(prio) == IF prio THEN priority_queue ELSE queue

Room(prio) == IF prio THEN PrioMaxSize = 0 \/ Len(priority_queue) < PrioMaxSize
                      ELSE Len(queue) < MaxSize

Init == /\ queue = <<>> /\ priority_queue = <<>>
        /\ notify = FALSE
        /\ reader = "out"
        /\ expired = {}
        /\ accepted = [p \in BOOLEAN |-> 0]
        /\ delivered = <<>>
        /\ discarded = {}
        /\ wakeups = 0

Enqueue(prio, m) ==
  IF prio THEN priority_queue' = Append(priority_queue, m) /\ UNCHANGED queue
          ELSE queue' = Append(queue, m) /\ UNCHANGED priority_queue

\* Mutant: the event is not set.
PutSilent(prio) ==
  /\ accepted[prio] < MaxMsgs
  /\ Room(prio)
  /\ Enqueue(prio, [prio |-> prio, n |-> accepted[prio] + 1])
  /\ accepted' = [accepted EXCEPT ![prio] = @ + 1]
  /\ UNCHANGED <<notify, reader, expired, delivered, discarded, wakeups>>

\* put / put_nowait
Put(prio) ==
  /\ accepted[prio] < MaxMsgs
  /\ Room(prio)
  /\ Enqueue(prio, [prio |-> prio, n |-> accepted[prio] + 1])
  /\ accepted' = [accepted EXCEPT ![prio] = @ + 1]
  /\ notify' = TRUE
  /\ UNCHANGED <<reader, expired, delivered, discarded, wakeups>>

\* time.time() passes a message's timestamp + ttl.
Expire(m) ==
  /\ m \in Range(queue) \cup Range(priority_queue)
  /\ m.n <= TtlLimit
  /\ m \notin expired
  /\ expired' = expired \cup {m}
  /\ UNCHANGED <<queue, priority_queue, notify, reader, accepted, delivered,
                 discarded, wakeups>>

\* The first message of s that _drop_if_expired keeps, or the end of s.
FirstLive(s) ==
  CHOOSE i \in 1..(Len(s) + 1) :
    /\ \A j \in 1..(i - 1) : s[j] \in expired
    /\ i <= Len(s) => s[i] \notin expired

\* Mutant: the message is read but not removed.
AfterLivePeeks(s) == SubSeq(s, FirstLive(s), Len(s))

AfterLive(s) == SubSeq(s, FirstLive(s) + 1, Len(s))

BeforeLive(s) == {s[j] : j \in 1..(FirstLive(s) - 1)}

\* The reader runs: it was called, or the event wakes it from wait().
ReaderRuns(mode) ==
  \/ reader = "out" /\ wakeups' = wakeups
  \/ reader = mode /\ notify /\ wakeups' = wakeups + 1

\* get / get_priority return a priority message.
TakePriority(mode) ==
  /\ ReaderRuns(mode)
  /\ FirstLive(priority_queue) <= Len(priority_queue)
  /\ delivered' = Append(delivered, priority_queue[FirstLive(priority_queue)])
  /\ discarded' = discarded \cup BeforeLive(priority_queue)
  /\ priority_queue' = AfterLive(priority_queue)
  /\ reader' = "out"
  /\ UNCHANGED <<queue, notify, expired, accepted>>

\* get returns a normal message: no live priority message is left.
TakeNormal ==
  /\ "get" \in Modes
  /\ ReaderRuns("get")
  /\ FirstLive(priority_queue) > Len(priority_queue)
  /\ FirstLive(queue) <= Len(queue)
  /\ delivered' = Append(delivered, queue[FirstLive(queue)])
  /\ discarded' = discarded \cup Range(priority_queue) \cup BeforeLive(queue)
  /\ priority_queue' = <<>>
  /\ queue' = AfterLive(queue)
  /\ reader' = "out"
  /\ UNCHANGED <<notify, expired, accepted>>

\* Nothing to return: clear the event and wait for the next put.
Park(mode) ==
  /\ ReaderRuns(mode)
  /\ FirstLive(priority_queue) > Len(priority_queue)
  /\ mode = "get" => FirstLive(queue) > Len(queue)
  /\ priority_queue' = <<>>
  /\ queue' = IF mode = "get" THEN <<>> ELSE queue
  /\ discarded' = discarded \cup Range(priority_queue)
                     \cup (IF mode = "get" THEN Range(queue) ELSE {})
  /\ notify' = FALSE
  /\ reader' = mode
  /\ UNCHANGED <<expired, accepted, delivered>>

\* The reader's task is cancelled while it waits.
CancelWait ==
  /\ reader # "out"
  /\ reader' = "out"
  /\ UNCHANGED <<queue, priority_queue, notify, expired, accepted, delivered,
                 discarded, wakeups>>

\* drain: teardown or hand-over to a fresh incarnation takes everything.
Drain ==
  /\ discarded' = discarded \cup Range(priority_queue) \cup Range(queue)
  /\ priority_queue' = <<>>
  /\ queue' = <<>>
  /\ UNCHANGED <<notify, reader, expired, accepted, delivered, wakeups>>

ReaderStep == \/ \E mode \in Modes : TakePriority(mode) \/ Park(mode)
              \/ TakeNormal

Next == \/ \E prio \in BOOLEAN : Put(prio)
        \/ \E m \in Message : Expire(m)
        \/ ReaderStep
        \/ CancelWait
        \/ Drain

Spec == Init /\ [][Next]_vars

\* The event loop keeps running the reader whenever it can run.
FairSpec == Spec /\ WF_vars(ReaderStep)

-----------------------------------------------------------------------------
(* Properties *)

\* Types, and the capacity that makes senders wait (asyncio.Queue maxsize).
TypeOK ==
  /\ queue \in Seq(Message) /\ Len(queue) <= MaxSize
  /\ priority_queue \in Seq(Message)
  /\ PrioMaxSize > 0 => Len(priority_queue) <= PrioMaxSize
  /\ notify \in BOOLEAN
  /\ reader \in Modes \cup {"out"}
  /\ expired \subseteq Message
  /\ accepted \in [BOOLEAN -> 0..MaxMsgs]
  /\ delivered \in Seq(Message)
  /\ discarded \subseteq Message
  /\ wakeups \in Nat

\* No lost wakeup ("a priority put racing with the clear is never lost",
\* get_priority): a reader that waits on a cleared event has nothing to read.
NoLostWakeup ==
  (reader # "out" /\ ~notify) =>
    /\ priority_queue = <<>>
    /\ reader = "get" => queue = <<>>

\* "A normal put only produces a bounded spurious wakeup (no busy-loop)"
\* (get_priority): the reader is woken at most once per put.
BoundedWakeups ==
  wakeups + (IF reader # "out" /\ notify THEN 1 ELSE 0) <= accepted[TRUE] + accepted[FALSE]

\* Order inside a class survives priorities, ttl drops, waiting and switching
\* between get and get_priority: messages come out in the order they were
\* accepted, and whatever is still queued is younger than all that came out.
ClassOrder ==
  /\ \A i, j \in 1..Len(delivered) :
       i < j /\ delivered[i].prio = delivered[j].prio => delivered[i].n < delivered[j].n
  /\ \A prio \in BOOLEAN : \A i \in 1..Len(Queue(prio)) :
       /\ \A d \in Range(delivered) : d.prio = prio => d.n < Queue(prio)[i].n
       /\ \A j \in 1..(i - 1) : Queue(prio)[j].n < Queue(prio)[i].n

\* No message is lost or returned twice: every accepted message is queued,
\* returned, or discarded, and in only one of these places.
Conserved ==
  /\ \A prio \in BOOLEAN : \A k \in 1..MaxMsgs :
       k <= accepted[prio] <=>
         [prio |-> prio, n |-> k] \in Range(Queue(prio)) \cup Range(delivered) \cup discarded
  /\ Range(queue) \cap Range(priority_queue) = {}
  /\ Range(delivered) \cap discarded = {}
  /\ (Range(queue) \cup Range(priority_queue)) \cap (Range(delivered) \cup discarded) = {}

\* Whatever is put, read, expired and drained: no accepted message is lost or
\* returned twice, and those of a class come out in the order they went in
\* (Mailbox.put, get and get_priority).
OnceInOrder == ClassOrder /\ Conserved

\* Control messages get through however the reader reads: a suspended agent,
\* which only ever calls get_priority, still sees every priority message.  And
\* business messages buffered through any number of suspensions are served once
\* the agent is back: a reader that no longer waits in get_priority sees them all.
EverythingServed ==
  \A prio \in BOOLEAN, k \in 1..MaxMsgs :
    prio \/ <>[](reader # "get_priority") =>
      (accepted[prio] >= k ~> [prio |-> prio, n |-> k] \in Range(delivered) \cup discarded)

=============================================================================
