-------------------------- MODULE MessagingProofs ---------------------------
(***************************************************************************)
(* Mailboxes keep their capacity, lose nothing and stay in order, the      *)
(* registry converges on what was announced, and a gateway listens as its  *)
(* configuration says.                                                     *)
(***************************************************************************)
EXTENDS Mailbox, Registry, Gateway, SequenceTheorems, WellFoundedInduction, TLAPS

\* Every non-empty set of natural numbers has a least element.
LEMMA LeastElement ==
  ASSUME NEW T \in SUBSET Nat, T # {}
  PROVE  \E x \in T : \A y \in T : x <= y
<1> DEFINE R == OpToRel(<, Nat)
<1>1. IsWellFoundedOn(R, Nat)
  BY NatLessThanWellFounded, Zenon
<1>2. \A x, y \in Nat : x < y => <<x, y>> \in R
  BY Zenon DEF OpToRel
<1> HIDE DEF R
<1>3. PICK x \in T : \A y \in T : ~(<<y, x>> \in R)
  BY <1>1, WFMin, Zenon
<1>4. \A y \in T : ~(y < x)
  BY <1>2, <1>3, Zenon
<1>5. \A y \in T : x <= y
  BY <1>4
<1> QED
  BY <1>5, Zenon

\* The loop over _drop_if_expired ends at the first message it keeps: all before
\* it are expired, and it is not.
LEMMA FirstLiveIs ==
  ASSUME NEW s \in Seq(Message)
  PROVE  /\ FirstLive(s) \in 1..(Len(s) + 1)
         /\ \A j \in 1..(FirstLive(s) - 1) : s[j] \in expired
         /\ FirstLive(s) <= Len(s) => s[FirstLive(s)] \notin expired
<1> DEFINE T == {i \in 1..(Len(s) + 1) : i <= Len(s) => s[i] \notin expired}
<1>1. Len(s) \in Nat
  BY LenProperties, Zenon
<1>2. T \in SUBSET Nat /\ Len(s) + 1 \in T
  BY <1>1
<1>3. PICK x \in T : \A y \in T : x <= y
  BY <1>2, LeastElement, Zenon
<1>4. \A j \in 1..(x - 1) : s[j] \in expired
  BY <1>1, <1>3
<1> QED
  BY <1>1, <1>3, <1>4, Zenon DEF FirstLive

\* What a read does to the queue it reads: the message is one of the queue's,
\* and what is left is a shorter queue of messages.
LEMMA ReadKeepsType ==
  ASSUME NEW s \in Seq(Message)
  PROVE  /\ FirstLive(s) <= Len(s) => s[FirstLive(s)] \in Message
         /\ AfterLive(s) \in Seq(Message)
         /\ Len(AfterLive(s)) <= Len(s)
         /\ BeforeLive(s) \subseteq Message
<1> DEFINE f == FirstLive(s)
<1>1. f \in 1..(Len(s) + 1) /\ Len(s) \in Nat
  BY FirstLiveIs, LenProperties, Zenon
<1>2. AfterLive(s) = SubSeq(s, f + 1, Len(s)) /\ BeforeLive(s) = {s[j] : j \in 1..(f - 1)}
  BY Zenon DEF AfterLive, BeforeLive
<1> HIDE DEF f
<1>3. \A i \in 1..Len(s) : s[i] \in Message
  BY ElementOfSeq, Zenon
<1>4. AfterLive(s) \in Seq(Message) /\ Len(AfterLive(s)) <= Len(s)
  BY <1>1, <1>2, <1>3, SubSeqProperties
<1>5. BeforeLive(s) \subseteq Message
  BY <1>1, <1>2, <1>3
<1> QED
  BY <1>1, <1>3, <1>4, <1>5 DEF f

\* A queue of messages contains messages only.
LEMMA RangeIsMessages ==
  ASSUME NEW s \in Seq(Message)
  PROVE  Range(s) \subseteq Message
<1>1. \A i \in DOMAIN s : s[i] \in Message
  BY LenProperties, ElementOfSeq, Zenon
<1> QED
  BY <1>1, Zenon DEF Range

-----------------------------------------------------------------------------
(* Type correctness *)

\* The part of TypeOK about the two queues.
QueueType ==
  /\ queue \in Seq(Message) /\ Len(queue) <= MaxSize
  /\ priority_queue \in Seq(Message)
  /\ PrioMaxSize > 0 => Len(priority_queue) <= PrioMaxSize

\* Initially both queues are empty.
LEMMA TypeInit == Init => TypeOK
<1> SUFFICES ASSUME Init PROVE TypeOK
  BY Zenon
<1>1. accepted \in [BOOLEAN -> 0..MaxMsgs]
  <2>1. 0 \in 0..MaxMsgs
    BY MailboxAssumption
  <2> QED
    BY <2>1, Zenon DEF Init
<1>2. queue \in Seq(Message) /\ Len(queue) = 0 /\ priority_queue \in Seq(Message)
      /\ Len(priority_queue) = 0 /\ delivered \in Seq(Message)
  BY EmptySeq, Zenon DEF Init
<1>3. QueueType
  BY <1>2, MailboxAssumption DEF QueueType
<1>4. notify \in BOOLEAN /\ reader \in Modes \cup {"out"}
  BY Zenon DEF Init
<1>5. expired \subseteq Message /\ discarded \subseteq Message /\ wakeups \in Nat
  BY Zenon DEF Init
<1> QED
  BY <1>1, <1>2, <1>3, <1>4, <1>5, Zenon DEF TypeOK, QueueType

\* put and put_nowait append to a queue with room.
LEMMA PutType ==
  ASSUME TypeOK, NEW prio \in BOOLEAN, Put(prio)
  PROVE  TypeOK'
<1> DEFINE m == [prio |-> prio, n |-> accepted[prio] + 1]
<1>1. accepted[prio] \in 0..MaxMsgs /\ accepted[prio] < MaxMsgs
  BY Zenon DEF TypeOK, Put
<1>2. m \in Message
  <2>1. accepted[prio] + 1 \in 1..MaxMsgs
    BY <1>1, MailboxAssumption
  <2> QED
    BY <2>1, Zenon DEF Message
<1>3. accepted' \in [BOOLEAN -> 0..MaxMsgs]
  <2>1. accepted[prio] + 1 \in 0..MaxMsgs
    BY <1>1, MailboxAssumption
  <2> QED
    BY <2>1, Zenon DEF TypeOK, Put
<1>4. Enqueue(prio, m) /\ Room(prio)
  BY Zenon DEF Put
<1> HIDE DEF m
<1>5. QueueType
  BY Zenon DEF QueueType, TypeOK
<1>6. CASE prio
  <2>1. priority_queue' = Append(priority_queue, m) /\ queue' = queue
        /\ (PrioMaxSize = 0 \/ Len(priority_queue) < PrioMaxSize)
    BY <1>4, <1>6, Zenon DEF Enqueue, Room
  <2>2. QueueType'
    BY <1>2, <1>5, <2>1, MailboxAssumption, AppendProperties, LenProperties DEF QueueType
  <2> QED
    BY <1>3, <2>2, Zenon DEF TypeOK, QueueType, Put
<1>7. CASE ~prio
  <2>1. queue' = Append(queue, m) /\ priority_queue' = priority_queue /\ Len(queue) < MaxSize
    BY <1>4, <1>7, Zenon DEF Enqueue, Room
  <2>2. QueueType'
    BY <1>2, <1>5, <2>1, MailboxAssumption, AppendProperties, LenProperties DEF QueueType
  <2> QED
    BY <1>3, <2>2, Zenon DEF TypeOK, QueueType, Put
<1> QED
  BY <1>6, <1>7, Zenon

\* Wakeups are counted in natural numbers.
LEMMA RunsType ==
  ASSUME TypeOK, NEW mode \in Modes, ReaderRuns(mode)
  PROVE  wakeups' \in Nat
  BY DEF TypeOK, ReaderRuns

\* A priority message leaves its queue for the caller.
LEMMA TakePriorityType ==
  ASSUME TypeOK, NEW mode \in Modes, TakePriority(mode)
  PROVE  TypeOK'
<1>1. wakeups' \in Nat
  BY RunsType, Zenon DEF TakePriority
<1>2. QueueType /\ delivered \in Seq(Message)
  BY Zenon DEF QueueType, TypeOK
<1>3. /\ priority_queue[FirstLive(priority_queue)] \in Message
      /\ AfterLive(priority_queue) \in Seq(Message)
      /\ Len(AfterLive(priority_queue)) <= Len(priority_queue)
      /\ BeforeLive(priority_queue) \subseteq Message
  BY <1>2, ReadKeepsType, Zenon DEF QueueType, TakePriority
<1>4. QueueType'
  BY <1>2, <1>3, LenProperties, MailboxAssumption DEF QueueType, TakePriority
<1>5. delivered' \in Seq(Message)
  BY <1>2, <1>3, AppendProperties, Zenon DEF TakePriority
<1>6. discarded' \subseteq Message /\ reader' \in Modes \cup {"out"}
  BY <1>3, Zenon DEF TypeOK, TakePriority
<1> QED
  BY <1>1, <1>4, <1>5, <1>6, Zenon DEF TypeOK, QueueType, TakePriority

\* A business message leaves its queue for the caller.
LEMMA TakeNormalType ==
  ASSUME TypeOK, TakeNormal
  PROVE  TypeOK'
<1>1. wakeups' \in Nat
  BY RunsType, Zenon DEF TakeNormal
<1>2. QueueType /\ delivered \in Seq(Message)
  BY Zenon DEF QueueType, TypeOK
<1>3. /\ queue[FirstLive(queue)] \in Message
      /\ AfterLive(queue) \in Seq(Message) /\ Len(AfterLive(queue)) <= Len(queue)
      /\ BeforeLive(queue) \subseteq Message
      /\ Range(priority_queue) \subseteq Message
  BY <1>2, ReadKeepsType, RangeIsMessages, Zenon DEF QueueType, TakeNormal
<1>4. QueueType'
  BY <1>2, <1>3, LenProperties, EmptySeq, MailboxAssumption DEF QueueType, TakeNormal
<1>5. delivered' \in Seq(Message)
  BY <1>2, <1>3, AppendProperties, Zenon DEF TakeNormal
<1>6. discarded' \subseteq Message /\ reader' \in Modes \cup {"out"}
  BY <1>3, Zenon DEF TypeOK, TakeNormal
<1> QED
  BY <1>1, <1>4, <1>5, <1>6, Zenon DEF TypeOK, QueueType, TakeNormal

\* A reader about to wait drops expired messages and clears the event.
LEMMA ParkType ==
  ASSUME TypeOK, NEW mode \in Modes, Park(mode)
  PROVE  TypeOK'
<1>1. wakeups' \in Nat
  BY RunsType, Zenon DEF Park
<1>2. QueueType
  BY Zenon DEF QueueType, TypeOK
<1>3. Range(priority_queue) \subseteq Message /\ Range(queue) \subseteq Message
  BY <1>2, RangeIsMessages, Zenon DEF QueueType
<1>4. QueueType'
  BY <1>2, LenProperties, EmptySeq, MailboxAssumption DEF QueueType, Park
<1>5. discarded' \subseteq Message /\ reader' \in Modes \cup {"out"} /\ notify' \in BOOLEAN
  BY <1>3, Zenon DEF TypeOK, Park
<1> QED
  BY <1>1, <1>4, <1>5, Zenon DEF TypeOK, QueueType, Park

\* drain empties both queues.
LEMMA DrainType ==
  ASSUME TypeOK, Drain
  PROVE  TypeOK'
<1>1. Range(priority_queue) \subseteq Message /\ Range(queue) \subseteq Message
  BY RangeIsMessages, Zenon DEF TypeOK
<1>2. QueueType'
  BY EmptySeq, MailboxAssumption DEF QueueType, Drain
<1>3. discarded' \subseteq Message
  BY <1>1, Zenon DEF TypeOK, Drain
<1> QED
  BY <1>2, <1>3, Zenon DEF TypeOK, QueueType, Drain

\* Every step of sender, reader or clock keeps the types.
LEMMA TypeStep == TypeOK /\ [Next]_vars => TypeOK'
<1> SUFFICES ASSUME TypeOK, [Next]_vars PROVE TypeOK'
  BY Zenon
<1>1. CASE \E prio \in BOOLEAN : Put(prio)
  BY <1>1, PutType, Zenon
<1>2. CASE \E m \in Message : Expire(m)
  BY <1>2, Zenon DEF TypeOK, Expire
<1>3. CASE \E mode \in Modes : TakePriority(mode) \/ Park(mode)
  BY <1>3, TakePriorityType, ParkType, Zenon
<1>4. CASE TakeNormal
  BY <1>4, TakeNormalType, Zenon
<1>5. CASE CancelWait
  BY <1>5, Zenon DEF TypeOK, CancelWait
<1>6. CASE Drain
  BY <1>6, DrainType
<1>7. CASE UNCHANGED vars
  BY <1>7, Zenon DEF TypeOK, vars
<1> QED
  BY <1>1, <1>2, <1>3, <1>4, <1>5, <1>6, <1>7, Zenon DEF Next, ReaderStep

\* Queues and histories hold messages only, and neither queue ever exceeds its
\* capacity, whatever the capacities and however the reader reads.
THEOREM MailboxTypeCorrect == Spec => []TypeOK
  BY TypeInit, TypeStep, PTL DEF Spec

-----------------------------------------------------------------------------
(* Waiting and waking *)

\* Every step keeps a waiting reader without unseen messages.
LEMMA WakeupStep == TypeOK /\ NoLostWakeup /\ [Next]_vars => NoLostWakeup'
<1> SUFFICES ASSUME TypeOK, NoLostWakeup, [Next]_vars PROVE NoLostWakeup'
  BY Zenon
<1>1. CASE \E prio \in BOOLEAN : Put(prio)
  BY <1>1, Zenon DEF NoLostWakeup, Put
<1>2. CASE \E m \in Message : Expire(m)
  <2>1. queue' = queue /\ priority_queue' = priority_queue /\ notify' = notify /\ reader' = reader
    BY <1>2, Zenon DEF Expire
  <2> QED
    BY <2>1, Zenon DEF NoLostWakeup
<1>3. CASE \E mode \in Modes : TakePriority(mode)
  BY <1>3, Zenon DEF NoLostWakeup, TakePriority
<1>4. CASE \E mode \in Modes : Park(mode)
  <2>1. PICK mode \in Modes : Park(mode)
    BY <1>4, Zenon
  <2>2. priority_queue' = <<>> /\ reader' = mode /\ (mode = "get" => queue' = <<>>)
    BY <2>1, Zenon DEF Park
  <2> QED
    BY <2>2, Zenon DEF NoLostWakeup
<1>5. CASE TakeNormal
  BY <1>5, Zenon DEF NoLostWakeup, TakeNormal
<1>6. CASE CancelWait
  BY <1>6, Zenon DEF NoLostWakeup, CancelWait
<1>7. CASE Drain
  BY <1>7, Zenon DEF NoLostWakeup, Drain
<1>8. CASE UNCHANGED vars
  BY <1>8, Zenon DEF NoLostWakeup, vars
<1> QED
  BY <1>1, <1>2, <1>3, <1>4, <1>5, <1>6, <1>7, <1>8, Zenon DEF Next, ReaderStep

\* A reader never waits on a cleared event beside a message it could return:
\* clearing the event only after both queues were found empty loses no wakeup.
THEOREM WakeupsNotLost == Spec => []NoLostWakeup
<1>1. Init => NoLostWakeup
  BY Zenon DEF Init, NoLostWakeup
<1> QED
  BY <1>1, TypeInit, TypeStep, WakeupStep, PTL DEF Spec

\* The wakeup that is due, and the number of puts.
Due == IF reader # "out" /\ notify THEN 1 ELSE 0

Sent == accepted[TRUE] + accepted[FALSE]

\* The numbers BoundedWakeups relates.
LEMMA SentType == TypeOK => Sent \in Nat /\ wakeups \in Nat /\ Due \in {0, 1}
<1> SUFFICES ASSUME TypeOK PROVE Sent \in Nat /\ wakeups \in Nat /\ Due \in {0, 1}
  BY Zenon
<1>1. accepted[TRUE] \in 0..MaxMsgs /\ accepted[FALSE] \in 0..MaxMsgs
  BY Zenon DEF TypeOK
<1>2. PICK a \in 0..MaxMsgs, b \in 0..MaxMsgs : accepted[TRUE] = a /\ accepted[FALSE] = b
  BY <1>1, Zenon
<1>3. Sent = a + b
  BY <1>2, Zenon DEF Sent
<1>4. a + b \in Nat
  BY <1>2, MailboxAssumption
<1>5. Due \in {0, 1}
  BY Zenon DEF Due
<1>6. wakeups \in Nat
  BY Zenon DEF TypeOK
<1> QED
  BY <1>3, <1>4, <1>5, <1>6, Zenon

\* A put adds one to the messages sent.
LEMMA PutSends ==
  ASSUME TypeOK, NEW prio \in BOOLEAN, Put(prio)
  PROVE  Sent' = Sent + 1
<1>1. accepted[TRUE] \in 0..MaxMsgs /\ accepted[FALSE] \in 0..MaxMsgs
  BY Zenon DEF TypeOK
<1>2. PICK a \in 0..MaxMsgs, b \in 0..MaxMsgs : accepted[TRUE] = a /\ accepted[FALSE] = b
  BY <1>1, Zenon
<1>3. CASE prio = TRUE
  <2>1. accepted'[TRUE] = a + 1 /\ accepted'[FALSE] = b
    BY <1>2, <1>3, Zenon DEF Put, TypeOK
  <2>2. Sent = a + b /\ Sent' = (a + 1) + b
    BY <1>2, <2>1, Zenon DEF Sent
  <2> QED
    BY <1>2, <2>2, MailboxAssumption
<1>4. CASE prio = FALSE
  <2>1. accepted'[TRUE] = a /\ accepted'[FALSE] = b + 1
    BY <1>2, <1>4, Zenon DEF Put, TypeOK
  <2>2. Sent = a + b /\ Sent' = a + (b + 1)
    BY <1>2, <2>1, Zenon DEF Sent
  <2> QED
    BY <1>2, <2>2, MailboxAssumption
<1> QED
  BY <1>3, <1>4, Zenon

\* The reader spends a wakeup only if one was due.
LEMMA RunsSpends ==
  ASSUME TypeOK, NEW mode \in Modes, ReaderRuns(mode)
  PROVE  wakeups' = wakeups \/ (wakeups' = wakeups + 1 /\ Due = 1)
<1>1. CASE reader = mode /\ notify /\ wakeups' = wakeups + 1
  <2>1. mode # "out"
    BY MailboxAssumption, Zenon
  <2>2. Due = 1
    BY <1>1, <2>1, Zenon DEF Due
  <2> QED
    BY <1>1, <2>2, Zenon
<1> QED
  BY <1>1, Zenon DEF ReaderRuns

\* Every step keeps the balance of puts and wakeups.
LEMMA BoundedStep == TypeOK /\ BoundedWakeups /\ [Next]_vars => BoundedWakeups'
<1> SUFFICES ASSUME TypeOK, BoundedWakeups, [Next]_vars PROVE BoundedWakeups'
  OBVIOUS
<1>1. TypeOK'
  BY TypeStep, Zenon
<1>2. (Sent \in Nat /\ wakeups \in Nat /\ Due \in {0, 1})'
  BY <1>1, SentType, PTL
<1>3. PICK s \in Nat, w \in Nat, d \in {0, 1} : s = Sent /\ w = wakeups /\ d = Due
  BY SentType, Zenon
<1>4. PICK s1 \in Nat, w1 \in Nat, d1 \in {0, 1} : s1 = Sent' /\ w1 = wakeups' /\ d1 = Due'
  BY <1>2, Zenon
<1>5. w + d <= s
  BY <1>3, Zenon DEF BoundedWakeups, Sent, Due
<1>6. SUFFICES w1 + d1 <= s1
  BY <1>4, Zenon DEF BoundedWakeups, Sent, Due
<1>7. CASE \E prio \in BOOLEAN : Put(prio)
  <2>1. Sent' = Sent + 1 /\ wakeups' = wakeups
    BY <1>7, PutSends, Zenon DEF Put
  <2>2. s1 = s + 1 /\ w1 = w
    BY <1>3, <1>4, <2>1, Zenon
  <2> QED
    BY <1>5, <2>2
<1>8. CASE \E mode \in Modes : ReaderRuns(mode) /\ Sent' = Sent /\ Due' = 0
  <2>1. wakeups' = wakeups \/ (wakeups' = wakeups + 1 /\ Due = 1)
    BY <1>8, RunsSpends, Zenon
  <2>2. s1 = s /\ d1 = 0 /\ (w1 = w \/ (w1 = w + 1 /\ d = 1))
    BY <1>3, <1>4, <1>8, <2>1, Zenon
  <2> QED
    BY <1>5, <2>2
<1>9. CASE \E mode \in Modes : TakePriority(mode) \/ Park(mode)
  <2>1. PICK mode \in Modes : TakePriority(mode) \/ Park(mode)
    BY <1>9, Zenon
  <2>2. ReaderRuns(mode) /\ Sent' = Sent /\ Due' = 0
    BY <2>1, Zenon DEF TakePriority, Park, Sent, Due
  <2> QED
    BY <1>8, <2>2, Zenon
<1>10. CASE TakeNormal
  <2>1. "get" \in Modes /\ ReaderRuns("get") /\ Sent' = Sent /\ Due' = 0
    BY <1>10, Zenon DEF TakeNormal, Sent, Due
  <2> QED
    BY <1>8, <2>1, Zenon
<1>11. CASE CancelWait
  <2>1. Sent' = Sent /\ Due' = 0 /\ wakeups' = wakeups
    BY <1>11, Zenon DEF CancelWait, Sent, Due
  <2>2. s1 = s /\ d1 = 0 /\ w1 = w
    BY <1>3, <1>4, <2>1, Zenon
  <2> QED
    BY <1>5, <2>2
<1>12. CASE (\E m \in Message : Expire(m)) \/ Drain \/ UNCHANGED vars
  <2>1. accepted' = accepted /\ reader' = reader /\ notify' = notify /\ wakeups' = wakeups
    BY <1>12, Zenon DEF Expire, Drain, vars
  <2>2. s1 = s /\ d1 = d /\ w1 = w
    BY <1>3, <1>4, <2>1, Zenon DEF Sent, Due
  <2> QED
    BY <1>5, <2>2, Zenon
<1> QED
  BY <1>7, <1>9, <1>10, <1>11, <1>12, Zenon DEF Next, ReaderStep

\* The reader is woken at most once per put: a suspended agent that waits for
\* priority messages does not spin on the business messages it leaves queued.
THEOREM WakeupsBounded == Spec => []BoundedWakeups
<1>1. Init => BoundedWakeups
  <2> SUFFICES ASSUME Init PROVE BoundedWakeups
    OBVIOUS
  <2>1. TypeOK
    BY TypeInit, Zenon
  <2>2. Sent \in Nat /\ wakeups = 0 /\ Due = 0
    BY <2>1, SentType, Zenon DEF Init, Due
  <2>3. wakeups + Due <= Sent
    BY <2>2
  <2> QED
    BY <2>3, Zenon DEF BoundedWakeups, Sent, Due
<1> QED
  BY <1>1, TypeInit, TypeStep, BoundedStep, PTL DEF Spec

-----------------------------------------------------------------------------
(* Once and in order *)

\* The message of class c that was accepted as the k-th.
Msg(c, k) == [prio |-> c, n |-> k]

\* The books of class c: its queue q is sorted, all that was returned (D) is
\* older, and the first a messages, no others, are queued, returned or
\* discarded (X), the queued ones nowhere else.
Sorted(c, q) ==
  \A i \in 1..Len(q) : q[i].prio = c /\ \A j \in 1..(i - 1) : q[j].n < q[i].n

Older(c, q, D) == \A d \in D : d.prio = c => \A i \in 1..Len(q) : d.n < q[i].n

Counted(c, q, a, D, X) ==
  \A k \in 1..MaxMsgs : k <= a <=> Msg(c, k) \in Range(q) \cup D \cup X

Books(c, q, a, D, X) ==
  /\ Sorted(c, q)
  /\ Older(c, q, D)
  /\ Counted(c, q, a, D, X)
  /\ Range(q) \cap (D \cup X) = {}

\* A message is given by its class and its number.
LEMMA MessageIs ==
  /\ \A m \in Message : m.n \in 1..MaxMsgs /\ m = Msg(m.prio, m.n)
  /\ \A c, k : Msg(c, k).n = k /\ Msg(c, k).prio = c
<1>1. \A m \in Message : m.n \in 1..MaxMsgs /\ m = Msg(m.prio, m.n)
  BY DEF Message, Msg
<1>2. \A c, k : Msg(c, k).n = k /\ Msg(c, k).prio = c
  BY Zenon DEF Msg
<1> QED
  BY <1>1, <1>2, Zenon

\* The range of a queue, element by element.
LEMMA RangeIs ==
  ASSUME NEW q \in Seq(Message)
  PROVE  /\ Len(q) \in Nat
         /\ \A i \in 1..Len(q) : q[i] \in Message /\ q[i] \in Range(q)
         /\ \A m \in Range(q) : \E i \in 1..Len(q) : m = q[i]
<1>1. Len(q) \in Nat /\ DOMAIN q = 1..Len(q) /\ \A i \in 1..Len(q) : q[i] \in Message
  BY LenProperties, ElementOfSeq, Zenon
<1> QED
  BY <1>1, Zenon DEF Range

\* All that the books of a class hold was accepted.
LEMMA BooksBound ==
  ASSUME NEW c, NEW q \in Seq(Message), NEW a \in 0..MaxMsgs,
         NEW D \in SUBSET Message, NEW X \in SUBSET Message, Books(c, q, a, D, X)
  PROVE  \A m \in Range(q) \cup D \cup X : m.prio = c => m.n <= a
<1> SUFFICES ASSUME NEW m \in Range(q) \cup D \cup X, m.prio = c PROVE m.n <= a
  BY Zenon
<1>1. m \in Message
  BY RangeIsMessages, Zenon
<1>2. m.n \in 1..MaxMsgs /\ m = Msg(c, m.n)
  BY <1>1, MessageIs, Zenon
<1> QED
  BY <1>2, Zenon DEF Books, Counted

\* A put enters the next message.
LEMMA BooksPut ==
  ASSUME NEW c, NEW q \in Seq(Message), NEW a \in 0..MaxMsgs,
         NEW D \in SUBSET Message, NEW X \in SUBSET Message, Books(c, q, a, D, X),
         a < MaxMsgs, Msg(c, a + 1) \in Message
  PROVE  Books(c, Append(q, Msg(c, a + 1)), a + 1, D, X)
<1>1. PICK m : m = Msg(c, a + 1)
  BY Zenon
<1> DEFINE r == Append(q, m)
<1>2. m \in Message /\ m.n = a + 1 /\ m.prio = c /\ a \in Nat /\ MaxMsgs \in Nat
  BY <1>1, MessageIs, MailboxAssumption
<1>3. /\ r \in Seq(Message) /\ Len(r) = Len(q) + 1 /\ r[Len(q) + 1] = m
      /\ \A i \in 1..Len(q) : r[i] = q[i]
  BY <1>2, AppendProperties
<1> HIDE DEF r
<1>4. Len(q) \in Nat
  BY RangeIs, Zenon
<1>5. \A x : x \in Range(r) <=> x \in Range(q) \/ x = m
  <2>1. \A x \in Range(r) : x \in Range(q) \/ x = m
    <3> SUFFICES ASSUME NEW x \in Range(r) PROVE x \in Range(q) \/ x = m
      BY Zenon
    <3>1. PICK i \in 1..Len(r) : x = r[i]
      BY <1>3, RangeIs, Zenon
    <3>2. CASE i = Len(q) + 1
      BY <1>3, <3>1, <3>2, Zenon
    <3>3. CASE i # Len(q) + 1
      <4>1. i \in 1..Len(q)
        BY <1>3, <1>4, <3>1, <3>3
      <4> QED
        BY <1>3, <3>1, <4>1, RangeIs, Zenon
    <3> QED
      BY <3>2, <3>3, Zenon
  <2>2. \A x \in Range(q) : x \in Range(r)
    <3> SUFFICES ASSUME NEW x \in Range(q) PROVE x \in Range(r)
      BY Zenon
    <3>1. PICK i \in 1..Len(q) : x = q[i]
      BY RangeIs, Zenon
    <3>2. i \in 1..Len(r) /\ x = r[i]
      BY <1>3, <1>4, <3>1
    <3> QED
      BY <1>3, <3>2, RangeIs, Zenon
  <2>3. m \in Range(r)
    <3>1. Len(q) + 1 \in 1..Len(r)
      BY <1>3, <1>4
    <3> QED
      BY <1>3, <3>1, RangeIs, Zenon
  <2> QED
    BY <2>1, <2>2, <2>3, Zenon
<1>6. \A x \in Range(q) \cup D \cup X : x.prio = c => x.n <= a
  BY BooksBound, Zenon
<1>7. \A i \in 1..Len(q) : q[i].prio = c /\ q[i].n \in Nat /\ q[i].n <= a
  <2> SUFFICES ASSUME NEW i \in 1..Len(q)
               PROVE  q[i].prio = c /\ q[i].n \in Nat /\ q[i].n <= a
    BY Zenon
  <2>1. q[i] \in Message /\ q[i] \in Range(q)
    BY RangeIs, Zenon
  <2>2. q[i].prio = c
    BY Zenon DEF Books, Sorted
  <2>3. q[i].n \in 1..MaxMsgs
    BY <2>1, MessageIs, Zenon
  <2> QED
    BY <1>2, <1>6, <2>1, <2>2, <2>3
<1>8. Sorted(c, r)
  <2> SUFFICES ASSUME NEW i \in 1..Len(r)
               PROVE  r[i].prio = c /\ \A j \in 1..(i - 1) : r[j].n < r[i].n
    BY Zenon DEF Sorted
  <2>1. CASE i \in 1..Len(q)
    <3>1. q[i].prio = c /\ \A j \in 1..(i - 1) : q[j].n < q[i].n
      BY <2>1, Zenon DEF Books, Sorted
    <3>2. \A j \in 1..(i - 1) : j \in 1..Len(q)
      BY <1>4, <2>1
    <3> QED
      BY <1>3, <2>1, <3>1, <3>2, Zenon
  <2>2. CASE i = Len(q) + 1
    <3>1. \A j \in 1..(i - 1) : j \in 1..Len(q)
      BY <1>4, <2>2
    <3>2. \A j \in 1..Len(q) : q[j].n < a + 1
      <4> SUFFICES ASSUME NEW j \in 1..Len(q) PROVE q[j].n < a + 1
        BY Zenon
      <4>1. q[j].n \in Nat /\ q[j].n <= a
        BY <1>7, Zenon
      <4> QED
        BY <1>2, <4>1
    <3> QED
      BY <1>2, <1>3, <2>2, <3>1, <3>2, Zenon
  <2>3. i \in 1..Len(q) \/ i = Len(q) + 1
    BY <1>3, <1>4
  <2> QED
    BY <2>1, <2>2, <2>3, Zenon
<1>9. Older(c, r, D)
  <2> SUFFICES ASSUME NEW d \in D, d.prio = c, NEW i \in 1..Len(r)
               PROVE  d.n < r[i].n
    BY Zenon DEF Older
  <2>1. CASE i \in 1..Len(q)
    BY <1>3, <2>1, Zenon DEF Books, Older
  <2>2. CASE i = Len(q) + 1
    <3>1. d.n <= a
      BY <1>6, Zenon
    <3>2. d.n \in 1..MaxMsgs
      BY MessageIs, Zenon
    <3> QED
      BY <1>2, <1>3, <2>2, <3>1, <3>2
  <2> QED
    BY <1>3, <1>4, <2>1, <2>2
<1>10. Counted(c, r, a + 1, D, X)
  <2> SUFFICES ASSUME NEW k \in 1..MaxMsgs
               PROVE  k <= a + 1 <=> Msg(c, k) \in Range(r) \cup D \cup X
    BY Zenon DEF Counted
  <2>1. k <= a <=> Msg(c, k) \in Range(q) \cup D \cup X
    BY Zenon DEF Books, Counted
  <2>2. Msg(c, k) = m <=> k = a + 1
    BY <1>1, MessageIs
  <2>3. k <= a + 1 <=> k <= a \/ k = a + 1
    BY <1>2
  <2> QED
    BY <1>5, <2>1, <2>2, <2>3, Zenon
<1>11. Range(r) \cap (D \cup X) = {}
  <2>1. m \notin D \cup X
    BY <1>2, <1>6
  <2> QED
    BY <1>5, <2>1, Zenon DEF Books
<1> QED
  BY <1>1, <1>8, <1>9, <1>10, <1>11, Zenon DEF Books, r

\* A read moves the first live message to those returned and what was before it
\* to those discarded.  The message is younger than all returned before.
LEMMA BooksTake ==
  ASSUME NEW c, NEW q \in Seq(Message), NEW a \in 0..MaxMsgs,
         NEW D \in SUBSET Message, NEW X \in SUBSET Message, Books(c, q, a, D, X),
         FirstLive(q) <= Len(q)
  PROVE  /\ Books(c, AfterLive(q), a, D \cup {q[FirstLive(q)]}, X \cup BeforeLive(q))
         /\ q[FirstLive(q)] \notin X \cup BeforeLive(q)
         /\ BeforeLive(q) \cap D = {}
         /\ q[FirstLive(q)].prio = c
         /\ \A d \in D : d.prio = c => d.n < q[FirstLive(q)].n
         /\ \A x \in BeforeLive(q) : x.prio = c
<1>1. PICK f : f = FirstLive(q)
  BY Zenon
<1>2. f \in 1..Len(q) /\ Len(q) \in Nat
  BY <1>1, FirstLiveIs, LenProperties
<1> DEFINE r == AfterLive(q)
           B == BeforeLive(q)
<1>3. r = SubSeq(q, f + 1, Len(q)) /\ B = {q[j] : j \in 1..(f - 1)}
  BY <1>1, Zenon DEF AfterLive, BeforeLive
<1> HIDE DEF r, B
<1>4. /\ r \in Seq(Message) /\ Len(r) = Len(q) - f
      /\ \A i \in 1..Len(r) : r[i] = q[f + i]
  <2>1. \A i \in 1..Len(q) : q[i] \in Message
    BY RangeIs, Zenon
  <2> QED
    BY <1>2, <1>3, <2>1, SubSeqProperties
<1>5. \A i \in 1..Len(q) : /\ q[i].prio = c /\ q[i].n \in Nat /\ q[i] \in Range(q)
                           /\ \A j \in 1..(i - 1) : q[j].n < q[i].n
  <2> SUFFICES ASSUME NEW i \in 1..Len(q)
               PROVE  /\ q[i].prio = c /\ q[i].n \in Nat /\ q[i] \in Range(q)
                      /\ \A j \in 1..(i - 1) : q[j].n < q[i].n
    BY Zenon
  <2>1. q[i] \in Message /\ q[i] \in Range(q)
    BY RangeIs, Zenon
  <2>2. q[i].prio = c /\ \A j \in 1..(i - 1) : q[j].n < q[i].n
    BY Zenon DEF Books, Sorted
  <2>3. q[i].n \in 1..MaxMsgs
    BY <2>1, MessageIs, Zenon
  <2> QED
    BY <2>1, <2>2, <2>3
<1>6. \A i, j \in 1..Len(q) : i < j => q[i].n < q[j].n /\ q[i] # q[j]
  BY <1>2, <1>5
<1>7. \A x \in Range(q) : x \in Range(r) \/ x = q[f] \/ x \in B
  <2> SUFFICES ASSUME NEW x \in Range(q) PROVE x \in Range(r) \/ x = q[f] \/ x \in B
    BY Zenon
  <2>1. PICK i \in 1..Len(q) : x = q[i]
    BY RangeIs, Zenon
  <2>2. CASE i > f
    <3>1. i - f \in 1..Len(r) /\ r[i - f] = q[f + (i - f)] /\ f + (i - f) = i
      BY <1>2, <1>4, <2>2
    <3> QED
      BY <1>4, <2>1, <3>1, RangeIs, Zenon
  <2>3. CASE i < f
    <3>1. i \in 1..(f - 1)
      BY <1>2, <2>3
    <3> QED
      BY <1>3, <2>1, <3>1, Zenon
  <2> QED
    BY <1>2, <2>1, <2>2, <2>3
<1>8. \A x \in Range(r) : \E i \in 1..Len(q) : f < i /\ x = q[i]
  <2> SUFFICES ASSUME NEW x \in Range(r) PROVE \E i \in 1..Len(q) : f < i /\ x = q[i]
    BY Zenon
  <2>1. PICK i \in 1..Len(r) : x = r[i]
    BY <1>4, RangeIs, Zenon
  <2>2. f + i \in 1..Len(q) /\ f < f + i /\ x = q[f + i]
    BY <1>2, <1>4, <2>1
  <2> QED
    BY <2>2, Zenon
<1>9. \A x \in B : \E i \in 1..Len(q) : i < f /\ x = q[i]
  BY <1>2, <1>3
<1>10. Sorted(c, r)
  <2> SUFFICES ASSUME NEW i \in 1..Len(r)
               PROVE  r[i].prio = c /\ \A j \in 1..(i - 1) : r[j].n < r[i].n
    BY Zenon DEF Sorted
  <2>0. Len(r) = Len(q) - f /\ r[i] = q[f + i]
    BY <1>4, Zenon
  <2>1. f + i \in 1..Len(q) /\ r[i] = q[f + i]
    <3>1. i \in Nat /\ 1 <= i /\ i <= Len(q) - f
      BY <1>2, <2>0
    <3> QED
      BY <1>2, <2>0, <3>1
  <2>2. \A j \in 1..(i - 1) : r[j] = q[f + j] /\ f + j \in 1..Len(q) /\ f + j < f + i
    BY <1>2, <1>4
  <2>3. \A j \in 1..(i - 1) : r[j].n < r[i].n
    BY <1>6, <2>1, <2>2, Zenon
  <2> QED
    BY <1>5, <2>1, <2>3, Zenon
<1>11. Older(c, r, D \cup {q[f]})
  <2> SUFFICES ASSUME NEW d \in D \cup {q[f]}, d.prio = c, NEW i \in 1..Len(r)
               PROVE  d.n < r[i].n
    BY Zenon DEF Older
  <2>1. f + i \in 1..Len(q) /\ r[i] = q[f + i] /\ f < f + i
    BY <1>2, <1>4
  <2>2. CASE d \in D
    BY <2>1, <2>2, Zenon DEF Books, Older
  <2>3. CASE d = q[f]
    BY <1>2, <1>6, <2>1, <2>3, Zenon
  <2> QED
    BY <2>2, <2>3, Zenon
<1>12. \A x : x \in Range(r) \cup (D \cup {q[f]}) \cup (X \cup B) <=> x \in Range(q) \cup D \cup X
  BY <1>2, <1>5, <1>7, <1>8, <1>9, Zenon
<1>13. Counted(c, r, a, D \cup {q[f]}, X \cup B)
  BY <1>12, Zenon DEF Books, Counted
<1>14. Range(q) \cap (D \cup X) = {}
  BY Zenon DEF Books
<1>15. Range(r) \cap (D \cup {q[f]} \cup X \cup B) = {}
  <2> SUFFICES ASSUME NEW x \in Range(r) PROVE x \notin D \cup {q[f]} \cup X \cup B
    BY Zenon
  <2>1. PICK i \in 1..Len(q) : f < i /\ x = q[i]
    BY <1>8, Zenon
  <2>2. x \in Range(q) /\ x # q[f]
    BY <1>2, <1>5, <1>6, <2>1, Zenon
  <2>3. x \notin B
    <3> SUFFICES ASSUME x \in B PROVE FALSE
      BY Zenon
    <3>1. PICK j \in 1..Len(q) : j < f /\ x = q[j]
      BY <1>9, Zenon
    <3>2. j < i
      BY <1>2, <2>1, <3>1
    <3>3. q[j] # q[i]
      BY <1>6, <2>1, <3>1, <3>2, Zenon
    <3> QED
      BY <2>1, <3>1, <3>3, Zenon
  <2> QED
    BY <1>14, <2>2, <2>3, Zenon
<1>16. q[f] \notin X \cup B
  <2>1. q[f] \notin B
    <3> SUFFICES ASSUME q[f] \in B PROVE FALSE
      BY Zenon
    <3>1. PICK j \in 1..Len(q) : j < f /\ q[f] = q[j]
      BY <1>9, Zenon
    <3> QED
      BY <1>2, <1>6, <3>1, Zenon
  <2> QED
    BY <1>2, <1>5, <1>14, <2>1, Zenon
<1>17. B \cap D = {} /\ \A x \in B : x.prio = c
  BY <1>5, <1>9, <1>14
<1>18. q[f].prio = c /\ \A d \in D : d.prio = c => d.n < q[f].n
  BY <1>2, <1>5, Zenon DEF Books, Older
<1>19. Books(c, r, a, D \cup {q[f]}, X \cup B)
  BY <1>10, <1>11, <1>13, <1>15, Zenon DEF Books
<1> QED
  BY <1>1, <1>16, <1>17, <1>18, <1>19, Zenon DEF r, B

\* A queue that is emptied, by drain or because all in it has expired, goes to
\* the discarded messages.
LEMMA BooksClear ==
  ASSUME NEW c, NEW q \in Seq(Message), NEW a \in 0..MaxMsgs,
         NEW D \in SUBSET Message, NEW X \in SUBSET Message, Books(c, q, a, D, X)
  PROVE  /\ Books(c, <<>>, a, D, X \cup Range(q))
         /\ Range(q) \cap D = {}
         /\ \A x \in Range(q) : x.prio = c
<1>1. Len(<<>>) = 0 /\ <<>> \in Seq(Message)
  BY EmptySeq, Zenon
<1>2. PICK e \in Seq(Message) : e = <<>> /\ Len(e) = 0
  BY <1>1, Zenon
<1>3. Range(e) = {}
  <2> SUFFICES ASSUME NEW x \in Range(e) PROVE FALSE
    BY Zenon
  <2>1. PICK i \in 1..Len(e) : x = e[i]
    BY RangeIs, Zenon
  <2> QED
    BY <1>2, <2>1
<1>4. Sorted(c, e) /\ Older(c, e, D)
  BY <1>2 DEF Sorted, Older
<1>5. Counted(c, e, a, D, X \cup Range(q))
  BY <1>3, Zenon DEF Books, Counted
<1>6. \A x \in Range(q) : x.prio = c
  BY RangeIs DEF Books, Sorted
<1> QED
  BY <1>2, <1>3, <1>4, <1>5, <1>6, Zenon DEF Books

\* What happens to messages of the other class leaves the books as they are.
LEMMA BooksOther ==
  ASSUME NEW c, NEW q \in Seq(Message), NEW a \in 0..MaxMsgs,
         NEW D \in SUBSET Message, NEW X \in SUBSET Message, Books(c, q, a, D, X),
         NEW E \in SUBSET Message, NEW Y \in SUBSET Message,
         \A x \in E \cup Y : x.prio # c
  PROVE  Books(c, q, a, D \cup E, X \cup Y)
<1>1. \A x \in Range(q) : x.prio = c
  BY RangeIs DEF Books, Sorted
<1>2. Older(c, q, D \cup E)
  BY Zenon DEF Books, Older
<1>3. \A k : Msg(c, k) \notin E \cup Y
  BY MessageIs, Zenon
<1>4. Counted(c, q, a, D \cup E, X \cup Y)
  BY <1>3, Zenon DEF Books, Counted
<1> QED
  BY <1>1, <1>2, <1>4, Zenon DEF Books

\* The books of both classes; nothing is returned and discarded; and what was
\* returned is in order.
InTurn(s) == \A i, j \in 1..Len(s) : i < j /\ s[i].prio = s[j].prio => s[i].n < s[j].n

Filed ==
  /\ Books(TRUE, priority_queue, accepted[TRUE], Range(delivered), discarded)
  /\ Books(FALSE, queue, accepted[FALSE], Range(delivered), discarded)
  /\ Range(delivered) \cap discarded = {}
  /\ InTurn(delivered)

\* The types the lemmas about books ask for.
LEMMA BookTypes ==
  ASSUME TypeOK
  PROVE  /\ queue \in Seq(Message) /\ priority_queue \in Seq(Message)
         /\ delivered \in Seq(Message) /\ Range(delivered) \in SUBSET Message
         /\ discarded \in SUBSET Message
         /\ accepted[TRUE] \in 0..MaxMsgs /\ accepted[FALSE] \in 0..MaxMsgs
<1>1. delivered \in Seq(Message)
  BY Zenon DEF TypeOK
<1> QED
  BY <1>1, RangeIsMessages, Zenon DEF TypeOK

\* A returned message younger than those of its class keeps the order.
LEMMA ReturnedInTurn ==
  ASSUME NEW s \in Seq(Message), NEW m \in Message, InTurn(s),
         \A d \in Range(s) : d.prio = m.prio => d.n < m.n
  PROVE  InTurn(Append(s, m)) /\ Range(Append(s, m)) = Range(s) \cup {m}
<1> DEFINE r == Append(s, m)
<1>1. /\ r \in Seq(Message) /\ Len(r) = Len(s) + 1 /\ r[Len(s) + 1] = m
      /\ \A i \in 1..Len(s) : r[i] = s[i]
  BY AppendProperties
<1> HIDE DEF r
<1>2. Len(s) \in Nat /\ \A i \in 1..Len(s) : s[i] \in Range(s)
  BY RangeIs, Zenon
<1>3. InTurn(r)
  <2> SUFFICES ASSUME NEW i \in 1..Len(r), NEW j \in 1..Len(r), i < j, r[i].prio = r[j].prio
               PROVE  r[i].n < r[j].n
    BY Zenon DEF InTurn
  <2>1. i \in 1..Len(s) /\ r[i] = s[i]
    BY <1>1, <1>2
  <2>2. CASE j \in 1..Len(s)
    BY <1>1, <2>1, <2>2, Zenon DEF InTurn
  <2>3. CASE j = Len(s) + 1
    BY <1>1, <1>2, <2>1, <2>3, Zenon
  <2> QED
    BY <1>1, <1>2, <2>2, <2>3
<1>4. Range(r) = Range(s) \cup {m}
  <2>1. \A x \in Range(r) : x \in Range(s) \cup {m}
    <3> SUFFICES ASSUME NEW x \in Range(r) PROVE x \in Range(s) \cup {m}
      BY Zenon
    <3>1. PICK i \in 1..Len(r) : x = r[i]
      BY <1>1, RangeIs, Zenon
    <3> QED
      BY <1>1, <1>2, <3>1
  <2>2. \A x \in Range(s) : x \in Range(r)
    <3> SUFFICES ASSUME NEW x \in Range(s) PROVE x \in Range(r)
      BY Zenon
    <3>1. PICK i \in 1..Len(s) : x = s[i]
      BY RangeIs, Zenon
    <3>2. i \in 1..Len(r) /\ x = r[i]
      BY <1>1, <1>2, <3>1
    <3> QED
      BY <1>1, <3>2, RangeIs, Zenon
  <2>3. m \in Range(r)
    <3>1. Len(s) + 1 \in 1..Len(r)
      BY <1>1, <1>2
    <3> QED
      BY <1>1, <3>1, RangeIs, Zenon
  <2> QED
    BY <2>1, <2>2, <2>3, Zenon
<1> QED
  BY <1>3, <1>4, Zenon DEF r

\* At the start the books are empty.
LEMMA FiledInitially == Init => Filed
<1> SUFFICES ASSUME Init PROVE Filed
  OBVIOUS
<1>1. /\ queue = <<>> /\ priority_queue = <<>> /\ delivered = <<>> /\ discarded = {}
      /\ accepted[TRUE] = 0 /\ accepted[FALSE] = 0
  BY Zenon DEF Init
<1>2. PICK e \in Seq(Message) : e = <<>> /\ Len(e) = 0
  BY EmptySeq, Zenon
<1>3. Range(e) = {}
  <2> SUFFICES ASSUME NEW x \in Range(e) PROVE FALSE
    BY Zenon
  <2>1. PICK i \in 1..Len(e) : x = e[i]
    BY RangeIs, Zenon
  <2> QED
    BY <1>2, <2>1
<1>4. \A c : Books(c, e, 0, {}, {})
  <2>1. \A c : Sorted(c, e) /\ Older(c, e, {})
    BY <1>2 DEF Sorted, Older
  <2>2. \A c : Counted(c, e, 0, {}, {})
    BY <1>3 DEF Counted
  <2> QED
    BY <1>3, <2>1, <2>2, Zenon DEF Books
<1>5. InTurn(e)
  BY <1>2 DEF InTurn
<1> QED
  BY <1>1, <1>2, <1>3, <1>4, <1>5, Zenon DEF Filed

\* A put enters its message in the books of its class.
LEMMA PutFiles ==
  ASSUME TypeOK, Filed, NEW prio \in BOOLEAN, Put(prio)
  PROVE  Filed'
<1>1. /\ delivered' = delivered /\ discarded' = discarded
      /\ accepted[prio] < MaxMsgs /\ Enqueue(prio, Msg(prio, accepted[prio] + 1))
      /\ accepted' = [accepted EXCEPT ![prio] = accepted[prio] + 1]
  BY Zenon DEF Put, Msg
<1>2. accepted \in [BOOLEAN -> 0..MaxMsgs] /\ accepted[prio] \in 0..MaxMsgs
  BY Zenon DEF TypeOK
<1>3. Msg(prio, accepted[prio] + 1) \in Message
  <2>1. accepted[prio] + 1 \in 1..MaxMsgs
    BY <1>1, <1>2, MailboxAssumption
  <2> QED
    BY <2>1, Zenon DEF Message, Msg
<1>4. CASE prio = TRUE
  <2>1. /\ priority_queue' = Append(priority_queue, Msg(TRUE, accepted[TRUE] + 1))
        /\ queue' = queue
        /\ accepted'[TRUE] = accepted[TRUE] + 1 /\ accepted'[FALSE] = accepted[FALSE]
    BY <1>1, <1>2, <1>4, Zenon DEF Enqueue
  <2>2. Books(TRUE, priority_queue, accepted[TRUE], Range(delivered), discarded)
    BY Zenon DEF Filed
  <2>3. Books(TRUE, priority_queue', accepted'[TRUE], Range(delivered), discarded)
    BY <1>1, <1>3, <1>4, <2>1, <2>2, BookTypes, BooksPut, Zenon
  <2> QED
    BY <1>1, <2>1, <2>3, Zenon DEF Filed
<1>5. CASE prio = FALSE
  <2>1. /\ queue' = Append(queue, Msg(FALSE, accepted[FALSE] + 1))
        /\ priority_queue' = priority_queue
        /\ accepted'[FALSE] = accepted[FALSE] + 1 /\ accepted'[TRUE] = accepted[TRUE]
    BY <1>1, <1>2, <1>5, Zenon DEF Enqueue
  <2>2. Books(FALSE, queue, accepted[FALSE], Range(delivered), discarded)
    BY Zenon DEF Filed
  <2>3. Books(FALSE, queue', accepted'[FALSE], Range(delivered), discarded)
    BY <1>1, <1>3, <1>5, <2>1, <2>2, BookTypes, BooksPut, Zenon
  <2> QED
    BY <1>1, <2>1, <2>3, Zenon DEF Filed
<1> QED
  BY <1>4, <1>5, Zenon

\* A priority message is returned.
LEMMA TakePriorityFiles ==
  ASSUME TypeOK, Filed, NEW mode \in Modes, TakePriority(mode)
  PROVE  Filed'
<1>1. PICK m, B : m = priority_queue[FirstLive(priority_queue)] /\ B = BeforeLive(priority_queue)
  BY Zenon
<1>2. /\ FirstLive(priority_queue) <= Len(priority_queue)
      /\ delivered' = Append(delivered, m) /\ discarded' = discarded \cup B
      /\ priority_queue' = AfterLive(priority_queue)
      /\ queue' = queue /\ accepted' = accepted
  BY <1>1, Zenon DEF TakePriority
<1>3. m \in Message /\ B \in SUBSET Message
  BY <1>1, <1>2, BookTypes, ReadKeepsType, Zenon
<1>4. /\ Books(TRUE, priority_queue', accepted[TRUE], Range(delivered) \cup {m}, discarded \cup B)
      /\ m \notin discarded \cup B /\ B \cap Range(delivered) = {} /\ m.prio = TRUE
      /\ \A d \in Range(delivered) : d.prio = TRUE => d.n < m.n
      /\ \A x \in B : x.prio = TRUE
  BY <1>1, <1>2, BookTypes, BooksTake, Zenon DEF Filed
<1>5. InTurn(delivered') /\ Range(delivered') = Range(delivered) \cup {m}
  BY <1>2, <1>3, <1>4, BookTypes, ReturnedInTurn, Zenon DEF Filed
<1>6. Books(FALSE, queue, accepted[FALSE], Range(delivered) \cup {m}, discarded \cup B)
  <2>1. \A x \in {m} \cup B : x.prio # FALSE
    BY <1>4, Zenon
  <2> QED
    BY <1>3, <2>1, BookTypes, BooksOther, Zenon DEF Filed
<1>7. (Range(delivered) \cup {m}) \cap (discarded \cup B) = {}
  BY <1>4, Zenon DEF Filed
<1> QED
  BY <1>2, <1>4, <1>5, <1>6, <1>7, Zenon DEF Filed

\* Emptying the priority queue leaves the books in order.
LEMMA ClearedPriority ==
  ASSUME TypeOK, Filed
  PROVE  /\ Books(TRUE, <<>>, accepted[TRUE], Range(delivered), discarded \cup Range(priority_queue))
         /\ Books(FALSE, queue, accepted[FALSE], Range(delivered), discarded \cup Range(priority_queue))
         /\ Range(delivered) \cap (discarded \cup Range(priority_queue)) = {}
         /\ Range(priority_queue) \in SUBSET Message
<1>1. /\ Books(TRUE, <<>>, accepted[TRUE], Range(delivered), discarded \cup Range(priority_queue))
      /\ Range(priority_queue) \cap Range(delivered) = {}
      /\ \A x \in Range(priority_queue) : x.prio = TRUE
  BY BookTypes, BooksClear, Zenon DEF Filed
<1>2. Range(priority_queue) \in SUBSET Message
  BY BookTypes, RangeIsMessages, Zenon
<1>3. Books(FALSE, queue, accepted[FALSE], Range(delivered), discarded \cup Range(priority_queue))
  <2>1. \A x \in {} \cup Range(priority_queue) : x.prio # FALSE
    BY <1>1, Zenon
  <2>2. {} \in SUBSET Message /\ Range(delivered) \cup {} = Range(delivered)
    BY Zenon
  <2>3. Books(FALSE, queue, accepted[FALSE], Range(delivered) \cup {}, discarded \cup Range(priority_queue))
    BY <1>2, <2>1, <2>2, BookTypes, BooksOther, Zenon DEF Filed
  <2> QED
    BY <2>2, <2>3, Zenon
<1> QED
  BY <1>1, <1>2, <1>3, Zenon DEF Filed

\* Emptying both queues does, too.
LEMMA ClearedBoth ==
  ASSUME TypeOK, Filed
  PROVE  LET X == discarded \cup Range(priority_queue) \cup Range(queue) IN
         /\ Books(TRUE, <<>>, accepted[TRUE], Range(delivered), X)
         /\ Books(FALSE, <<>>, accepted[FALSE], Range(delivered), X)
         /\ Range(delivered) \cap X = {}
<1>1. PICK Y : Y = discarded \cup Range(priority_queue)
  BY Zenon
<1>2. /\ Books(TRUE, <<>>, accepted[TRUE], Range(delivered), Y)
      /\ Books(FALSE, queue, accepted[FALSE], Range(delivered), Y)
      /\ Range(delivered) \cap Y = {} /\ Y \in SUBSET Message
  BY <1>1, ClearedPriority, BookTypes, Zenon
<1>3. /\ Books(FALSE, <<>>, accepted[FALSE], Range(delivered), Y \cup Range(queue))
      /\ Range(queue) \cap Range(delivered) = {}
      /\ \A x \in Range(queue) : x.prio = FALSE
  BY <1>2, BookTypes, BooksClear, Zenon
<1>4. Range(queue) \in SUBSET Message /\ <<>> \in Seq(Message)
  BY BookTypes, RangeIsMessages, EmptySeq, Zenon
<1>5. Books(TRUE, <<>>, accepted[TRUE], Range(delivered), Y \cup Range(queue))
  <2>1. \A x \in {} \cup Range(queue) : x.prio # TRUE
    BY <1>3, Zenon
  <2>2. {} \in SUBSET Message /\ Range(delivered) \cup {} = Range(delivered)
    BY Zenon
  <2>3. Books(TRUE, <<>>, accepted[TRUE], Range(delivered) \cup {}, Y \cup Range(queue))
    BY <1>2, <1>4, <2>1, <2>2, BookTypes, BooksOther, Zenon
  <2> QED
    BY <2>2, <2>3, Zenon
<1> QED
  BY <1>1, <1>2, <1>3, <1>5, Zenon

\* A business message is returned, after the expired priority messages went.
LEMMA TakeNormalFiles ==
  ASSUME TypeOK, Filed, TakeNormal
  PROVE  Filed'
<1>1. PICK m, B, Y : /\ m = queue[FirstLive(queue)] /\ B = BeforeLive(queue)
                     /\ Y = discarded \cup Range(priority_queue)
  BY Zenon
<1>2. /\ FirstLive(queue) <= Len(queue)
      /\ delivered' = Append(delivered, m) /\ discarded' = Y \cup B
      /\ queue' = AfterLive(queue) /\ priority_queue' = <<>> /\ accepted' = accepted
  BY <1>1, Zenon DEF TakeNormal
<1>3. m \in Message /\ B \in SUBSET Message
  BY <1>1, <1>2, BookTypes, ReadKeepsType, Zenon
<1>4. /\ Books(TRUE, <<>>, accepted[TRUE], Range(delivered), Y)
      /\ Books(FALSE, queue, accepted[FALSE], Range(delivered), Y)
      /\ Range(delivered) \cap Y = {} /\ Y \in SUBSET Message
  BY <1>1, ClearedPriority, BookTypes, Zenon
<1>5. /\ Books(FALSE, queue', accepted[FALSE], Range(delivered) \cup {m}, Y \cup B)
      /\ m \notin Y \cup B /\ B \cap Range(delivered) = {} /\ m.prio = FALSE
      /\ \A d \in Range(delivered) : d.prio = FALSE => d.n < m.n
      /\ \A x \in B : x.prio = FALSE
  <2>1. /\ queue \in Seq(Message) /\ Range(delivered) \in SUBSET Message
        /\ accepted[FALSE] \in 0..MaxMsgs
    BY BookTypes, Zenon
  <2>2. /\ Books(FALSE, AfterLive(queue), accepted[FALSE],
                 Range(delivered) \cup {queue[FirstLive(queue)]}, Y \cup BeforeLive(queue))
        /\ queue[FirstLive(queue)] \notin Y \cup BeforeLive(queue)
        /\ BeforeLive(queue) \cap Range(delivered) = {}
        /\ queue[FirstLive(queue)].prio = FALSE
        /\ \A d \in Range(delivered) : d.prio = FALSE => d.n < queue[FirstLive(queue)].n
        /\ \A x \in BeforeLive(queue) : x.prio = FALSE
    BY <1>2, <1>4, <2>1, BooksTake, Zenon
  <2> QED
    BY <1>1, <1>2, <2>2, Zenon
<1>6. InTurn(delivered') /\ Range(delivered') = Range(delivered) \cup {m}
  BY <1>2, <1>3, <1>5, BookTypes, ReturnedInTurn, Zenon DEF Filed
<1>7. Books(TRUE, <<>>, accepted[TRUE], Range(delivered) \cup {m}, Y \cup B)
  <2>1. \A x \in {m} \cup B : x.prio # TRUE
    BY <1>5, Zenon
  <2>2. <<>> \in Seq(Message)
    BY EmptySeq, Zenon
  <2> QED
    BY <1>3, <1>4, <2>1, <2>2, BookTypes, BooksOther, Zenon
<1>8. (Range(delivered) \cup {m}) \cap (Y \cup B) = {}
  BY <1>4, <1>5, Zenon
<1> QED
  BY <1>2, <1>5, <1>6, <1>7, <1>8, Zenon DEF Filed

\* A reader about to wait has emptied the queues it reads.
LEMMA ParkFiles ==
  ASSUME TypeOK, Filed, NEW mode \in Modes, Park(mode)
  PROVE  Filed'
<1>1. accepted' = accepted /\ delivered' = delivered /\ priority_queue' = <<>>
  BY Zenon DEF Park
<1>2. CASE mode = "get"
  <2>1. queue' = <<>> /\ discarded' = discarded \cup Range(priority_queue) \cup Range(queue)
    BY <1>2, Zenon DEF Park
  <2> QED
    BY <1>1, <2>1, ClearedBoth, Zenon DEF Filed
<1>3. CASE mode # "get"
  <2>1. queue' = queue /\ discarded' = discarded \cup Range(priority_queue)
    BY <1>3, Zenon DEF Park
  <2> QED
    BY <1>1, <2>1, ClearedPriority, Zenon DEF Filed
<1> QED
  BY <1>2, <1>3, Zenon

\* Every step keeps the books.
LEMMA FiledStep == TypeOK /\ Filed /\ [Next]_vars => Filed'
<1> SUFFICES ASSUME TypeOK, Filed, [Next]_vars PROVE Filed'
  OBVIOUS
<1>1. CASE \E prio \in BOOLEAN : Put(prio)
  BY <1>1, PutFiles, Zenon
<1>2. CASE \E mode \in Modes : TakePriority(mode) \/ Park(mode)
  BY <1>2, TakePriorityFiles, ParkFiles, Zenon
<1>3. CASE TakeNormal
  BY <1>3, TakeNormalFiles, Zenon
<1>4. CASE Drain
  BY <1>4, ClearedBoth, Zenon DEF Drain, Filed
<1>5. CASE (\E m \in Message : Expire(m)) \/ CancelWait \/ UNCHANGED vars
  <2>1. /\ queue' = queue /\ priority_queue' = priority_queue /\ accepted' = accepted
        /\ delivered' = delivered /\ discarded' = discarded
    BY <1>5, Zenon DEF Expire, CancelWait, vars
  <2> QED
    BY <2>1, Zenon DEF Filed
<1> QED
  BY <1>1, <1>2, <1>3, <1>4, <1>5, Zenon DEF Next, ReaderStep

\* Books in order are what OnceInOrder asks for.
LEMMA FiledIsOnceInOrder == TypeOK /\ Filed => OnceInOrder
<1> SUFFICES ASSUME TypeOK, Filed PROVE OnceInOrder
  BY Zenon
<1>1. \A c \in BOOLEAN : Books(c, Queue(c), accepted[c], Range(delivered), discarded)
  BY Zenon DEF Filed, Queue
<1>2. ClassOrder
  <2>1. \A c \in BOOLEAN : Sorted(c, Queue(c)) /\ Older(c, Queue(c), Range(delivered))
    BY <1>1, Zenon DEF Books
  <2>2. \A c \in BOOLEAN : \A i \in 1..Len(Queue(c)) :
          /\ \A d \in Range(delivered) : d.prio = c => d.n < Queue(c)[i].n
          /\ \A j \in 1..(i - 1) : Queue(c)[j].n < Queue(c)[i].n
    BY <2>1, Zenon DEF Sorted, Older
  <2> QED
    BY <2>2, Zenon DEF ClassOrder, Filed, InTurn
<1>3. \A c \in BOOLEAN : \A k \in 1..MaxMsgs :
        k <= accepted[c] <=>
          [prio |-> c, n |-> k] \in Range(Queue(c)) \cup Range(delivered) \cup discarded
  BY <1>1, Zenon DEF Books, Counted, Msg
<1>4. Range(queue) \cap Range(priority_queue) = {}
  <2>1. /\ (\A x \in Range(queue) : x.prio = FALSE)
        /\ (\A x \in Range(priority_queue) : x.prio = TRUE)
    BY BookTypes, BooksClear, Zenon DEF Filed
  <2> QED
    BY <2>1, Zenon
<1>5. /\ Range(delivered) \cap discarded = {}
      /\ (Range(queue) \cup Range(priority_queue)) \cap (Range(delivered) \cup discarded) = {}
  BY Zenon DEF Filed, Books
<1>6. Conserved
  BY <1>3, <1>4, <1>5, Zenon DEF Conserved
<1> QED
  BY <1>2, <1>6, Zenon DEF OnceInOrder

\* No accepted message is lost, returned twice, or returned before an older one
\* of its class, for every capacity, however the reader alternates between get
\* and get_priority, and whatever expires, is drained or waits in between.
THEOREM MessagesOnceInOrder == Spec => []OnceInOrder
  BY TypeInit, TypeStep, FiledInitially, FiledStep, FiledIsOnceInOrder, PTL DEF Spec

-----------------------------------------------------------------------------
(* The registry, for every set of names and announcements, with any number *)
(* of epochs, and announcements received in any order and any number of    *)
(* times.                                                                  *)

RegistryTypes ==
    /\ seen \subseteq Announcements
    /\ floor \in [Names -> Int]
    /\ entry = [n \in Names |-> entry[n]]

\* What holds of one name.  To Converged it adds that the last epoch is one that
\* was heard of, and that a route belongs to the owner who announced it, so
\* that register_remote() refuses that owner nothing but what is stale.
NameConverged(n) ==
    /\ \A m \in seen : m.name = n => m.epoch <= floor[n]
    /\ floor[n] = -1 \/ Heard(n, "register", floor[n]) \/ Heard(n, "deregister", floor[n])
    /\ Routed(n) => entry[n].epoch = floor[n]
    /\ Routed(n) <=> Heard(n, "register", floor[n]) /\ ~Heard(n, "deregister", floor[n])
    /\ Routed(n) => \E m \in seen : m.name = n /\ entry[n].owner = m.owner

ConvergedInv == RegistryTypes /\ \A n \in Names : NameConverged(n)

\* In the beginning nothing is routed and nothing has been announced.
LEMMA ConvergedInitially == RegistryInit => ConvergedInv
<1> SUFFICES ASSUME RegistryInit PROVE ConvergedInv
  BY Zenon
<1>3. \A n \in Names : ~Routed(n)
  BY Zenon DEF RegistryInit, Routed, NoEntry
<1>4. RegistryTypes
  BY DEF RegistryTypes, RegistryInit
<1>5. \A n \in Names : NameConverged(n)
  BY <1>3, Zenon DEF NameConverged, RegistryInit, Heard
<1> QED
  BY <1>4, <1>5, Zenon DEF ConvergedInv

\* An announcement leaves the names it is not about alone.
LEMMA OthersUntouched ==
    ASSUME ConvergedInv, NEW m \in Announcements, Receive(m), NEW n \in Names, n # m.name
    PROVE  NameConverged(n)'
<1> USE AnnouncementAssumption DEF ConvergedInv, RegistryTypes
<1>1. seen' = seen \cup {m}
  BY Zenon DEF Receive
<1>2. entry'[n] = entry[n] /\ floor'[n] = floor[n]
  <2>1. CASE RegisterRemote(m)
    BY <2>1, Zenon DEF RegisterRemote
  <2>2. CASE DeregisterRemote(m)
    BY <2>2, Zenon DEF DeregisterRemote
  <2> QED
    BY <2>1, <2>2, Zenon DEF Receive, OnRemoteRegister, OnRemoteDeregister
<1>3. \A k : Heard(n, k, floor[n])' <=> Heard(n, k, floor[n])
  BY <1>1, <1>2, Zenon DEF Heard
<1>4. Routed(n)' <=> Routed(n)
  BY <1>2, Zenon DEF Routed
<1> QED
  BY <1>1, <1>2, <1>3, <1>4 DEF NameConverged

\* The types are preserved.
LEMMA TypesKept ==
    ASSUME ConvergedInv, NEW m \in Announcements, Receive(m)
    PROVE  RegistryTypes'
<1> USE AnnouncementAssumption DEF ConvergedInv, RegistryTypes
<1>1. m.epoch \in Int
  OBVIOUS
<1>2. CASE RegisterRemote(m)
  BY <1>1, <1>2, Zenon DEF RegisterRemote, Receive
<1>3. CASE DeregisterRemote(m)
  BY <1>1, <1>3, Zenon DEF DeregisterRemote, Receive
<1> QED
  BY <1>2, <1>3, Zenon DEF Receive, OnRemoteRegister, OnRemoteDeregister

\* The name an announcement is about stays converged: whether the announcement
\* is refused, ignored or applied.
LEMMA NameStaysConverged ==
    ASSUME ConvergedInv, NEW m \in Announcements, Receive(m)
    PROVE  NameConverged(m.name)'
<1> DEFINE n == m.name
           e == m.epoch
           f == floor[n]
<1>0. /\ n \in Names /\ e \in Nat /\ f \in Int /\ e # -1
      /\ seen' = seen \cup {m}
      /\ \A x \in seen : x.name = n => x.owner = m.owner
      /\ entry = [x \in Names |-> entry[x]] /\ floor \in [Names -> Int]
  BY AnnouncementAssumption DEF Receive, ConvergedInv, RegistryTypes
<1>1. NameConverged(n)
  BY <1>0, Zenon DEF ConvergedInv
<1>2. Routed(n) => entry[n].owner = m.owner /\ entry[n].epoch = f
  BY <1>0, <1>1, Zenon DEF NameConverged
<1>3. /\ \A x \in seen : x.name = n => x.epoch <= f
      /\ f = -1 \/ Heard(n, "register", f) \/ Heard(n, "deregister", f)
      /\ Routed(n) <=> Heard(n, "register", f) /\ ~Heard(n, "deregister", f)
      /\ Routed(n) => \E x \in seen : x.name = n /\ entry[n].owner = x.owner
  BY <1>1, Zenon DEF NameConverged
<1>4. ASSUME entry'[n] = entry[n], floor'[n] = f, e <= f,
             e = f => m.kind = "register" /\ (Routed(n) \/ Heard(n, "deregister", f))
      PROVE  NameConverged(n)'
  <2>1. Heard(n, "deregister", f)' <=> Heard(n, "deregister", f)
    BY <1>0, <1>4, Zenon DEF Heard
  <2>2. Heard(n, "register", f)' <=> Heard(n, "register", f) \/ (e = f /\ m.kind = "register")
    BY <1>0, <1>4, Zenon DEF Heard
  <2>3. Routed(n)' <=> Routed(n)
    BY <1>4, Zenon DEF Routed
  <2>4. \A x \in seen' : x.name = n => x.epoch <= f
    BY <1>0, <1>3, <1>4, Zenon
  <2>5. Heard(n, "register", floor[n])' <=> Heard(n, "register", f)'
    BY <1>4, Zenon DEF Heard
  <2>6. Heard(n, "deregister", floor[n])' <=> Heard(n, "deregister", f)'
    BY <1>4, Zenon DEF Heard
  <2> QED
    BY <1>0, <1>2, <1>3, <1>4, <2>1, <2>2, <2>3, <2>4, <2>5, <2>6, Zenon DEF NameConverged
<1>5. CASE m.kind = "register" /\ Refused(m)
  <2>1. entry' = entry /\ floor' = floor
    BY <1>5, Zenon DEF Receive, OnRemoteRegister, OnRemoteDeregister, RegisterRemote
  <2>2. e <= f
    BY <1>0, <1>2, <1>5 DEF Refused
  <2>3. e = f => Routed(n) \/ Heard(n, "deregister", f)
    BY <1>0, <1>3, Zenon
  <2> QED
    BY <1>4, <1>5, <2>1, <2>2, <2>3, Zenon
<1>6. CASE m.kind = "register" /\ ~Refused(m)
  <2>1. e > f
    BY <1>0, <1>2, <1>6 DEF Refused
  <2>2. entry'[n] = EntryOf(m) /\ floor'[n] = e
    BY <1>0, <1>6, Zenon DEF Receive, OnRemoteRegister, OnRemoteDeregister, RegisterRemote
  <2>3. Routed(n)'
    BY <1>0, <2>2 DEF Routed, EntryOf
  <2>4. Heard(n, "register", floor[n])'
    BY <1>0, <1>6, <2>2, Zenon DEF Heard
  <2>5. \A x \in seen' : x.name = n => x.epoch <= e
    BY <1>0, <1>3, <2>1, AnnouncementAssumption, SMTT(30) DEF ConvergedInv, RegistryTypes
  <2>6. ~Heard(n, "deregister", floor[n])'
    BY <1>0, <1>3, <1>6, <2>1, <2>2, AnnouncementAssumption, SMTT(30) DEF Heard, ConvergedInv,
       RegistryTypes
  <2> QED
    BY <1>0, <2>2, <2>3, <2>4, <2>5, <2>6, SMTT(30) DEF NameConverged, EntryOf
<1>7. CASE m.kind = "deregister" /\ e < f
  <2>1. entry' = entry /\ floor' = floor
    BY <1>7, Zenon DEF Receive, OnRemoteRegister, OnRemoteDeregister, DeregisterRemote
  <2> QED
    BY <1>0, <1>4, <1>7, <2>1
<1>8. CASE m.kind = "deregister" /\ ~(e < f)
  <2>1. entry'[n] = NoEntry /\ floor'[n] = e
    BY <1>0, <1>8, Zenon DEF Receive, OnRemoteRegister, OnRemoteDeregister, DeregisterRemote
  <2>2. ~Routed(n)'
    BY <2>1 DEF Routed, NoEntry
  <2>3. Heard(n, "deregister", floor[n])'
    BY <1>0, <1>8, <2>1, Zenon DEF Heard
  <2>4. \A x \in seen' : x.name = n => x.epoch <= e
    BY <1>0, <1>3, <1>8, AnnouncementAssumption DEF ConvergedInv, RegistryTypes
  <2> QED
    BY <1>0, <2>1, <2>2, <2>3, <2>4, Zenon DEF NameConverged
<1> QED
  BY <1>0, <1>5, <1>6, <1>7, <1>8, Zenon DEF Receive, OnRemoteRegister, OnRemoteDeregister

-----------------------------------------------------------------------------
\* However the announcements of any number of incarnations of any number of
\* names are delayed, repeated, lost or reordered, the registry is converged:
\* register_remote() and deregister_remote() never resurrect a name and never
\* remove a newer incarnation.
THEOREM RegistryConverges == RegistrySpec => []Converged
<1>1. RegistryInit => ConvergedInv
  BY ConvergedInitially, Zenon
<1>2. ConvergedInv /\ [\E m \in Announcements : Receive(m)]_registryVars => ConvergedInv'
  <2> SUFFICES ASSUME ConvergedInv, [\E m \in Announcements : Receive(m)]_registryVars
               PROVE  ConvergedInv'
    BY Zenon
  <2>1. ASSUME NEW m \in Announcements, Receive(m) PROVE ConvergedInv'
    <3>1. RegistryTypes'
      BY <2>1, TypesKept, Zenon
    <3>2. \A n \in Names : NameConverged(n)'
      <4> TAKE n \in Names
      <4>1. CASE n = m.name
        BY <2>1, <4>1, NameStaysConverged, Zenon
      <4>2. CASE n # m.name
        BY <2>1, <4>2, OthersUntouched, Zenon
      <4> QED
        BY <4>1, <4>2, Zenon
    <3> QED
      BY <3>1, <3>2, Zenon DEF ConvergedInv
  <2>2. CASE UNCHANGED registryVars
    BY <2>2 DEF registryVars, ConvergedInv, RegistryTypes, NameConverged, Routed, Heard
  <2> QED
    BY <2>1, <2>2, Zenon
<1>3. ConvergedInv => Converged
  BY Zenon DEF ConvergedInv, NameConverged, Converged
<1> QED
  BY <1>1, <1>2, <1>3, PTL DEF RegistrySpec

-----------------------------------------------------------------------------
(* The gateway's listeners.                                                *)

\* The listener a configuration calls for.
Listener(g, l) ==
    IF l = "http" THEN HttpListener(g) ELSE IF l = "h3" THEN H3Listener(g) ELSE GrpcListener(g)

Accepted == {"down", "crashed", "checks", "h3", "grpc", "running", "stop_grpc", "undo_grpc",
             "stop_h3", "undo_h3", "stop_http", "undo_http", "exited"}

\* What is open and whether the start has passed its checks, wherever the gateway is.
GwInv ==
    /\ phase \in {"new", "refused"} \cup Accepted
    /\ phase \in Accepted => ~PostInitRaises(gw)
    /\ open = [l \in DOMAIN open |-> open[l]]
    /\ DOMAIN open \subseteq Configured(gw)
    /\ \A l \in DOMAIN open : open[l] = Listener(gw, l)
    /\ DOMAIN open # {} \/ task # "none" \/ phase \in {"h3", "grpc", "running"} =>
          phase \in Accepted /\ ~StartRaises(gw)
    /\ cut => phase \in {"down", "exited"}
    /\ phase \in {"new", "refused", "down", "crashed", "checks"} /\ ~cut =>
          DOMAIN open = {} /\ task = "none"
    /\ phase \in {"h3", "stop_http", "undo_http"} => DOMAIN open \subseteq {"http"}
    /\ phase \in {"grpc", "stop_h3", "undo_h3"} => "grpc" \notin DOMAIN open
    /\ phase = "grpc" /\ gw.http3 => "h3" \in DOMAIN open
    /\ phase = "running" => Configured(gw) \ {"http"} \subseteq DOMAIN open

\* One more listener, and one less.
LEMMA Opened ==
    ASSUME NEW l, NEW v, open' = With(open, l, v)
    PROVE  /\ open' = [x \in DOMAIN open' |-> open'[x]]
           /\ DOMAIN open' = DOMAIN open \cup {l}
           /\ \A x \in DOMAIN open : x # l => open'[x] = open[x]
           /\ open'[l] = v
BY Zenon DEF With

LEMMA Closed ==
    ASSUME NEW l, open' = Without(open, l)
    PROVE  /\ open' = [x \in DOMAIN open' |-> open'[x]]
           /\ DOMAIN open' = DOMAIN open \ {l}
           /\ \A x \in DOMAIN open' : open'[x] = open[x]
BY Zenon DEF Without

\* Nothing open is the empty function.
LEMMA NothingOpen ==
    ASSUME open = [x \in DOMAIN open |-> open[x]]
    PROVE  open = <<>> <=> DOMAIN open = {}
OBVIOUS

LEMMA NoneOpen == DOMAIN <<>> = {} /\ <<>> = [x \in DOMAIN <<>> |-> <<>>[x]]
OBVIOUS

\* In the beginning nothing is open.
LEMMA GwStarts == GwInit => GwInv
<1> SUFFICES ASSUME GwInit PROVE GwInv
  BY Zenon
<1>1. /\ DOMAIN open = {} /\ open = [x \in DOMAIN open |-> open[x]] /\ task = "none"
      /\ cut = FALSE /\ phase = "new"
  BY NoneOpen, Zenon DEF GwInit, GwRest
<1>2. /\ phase \notin Accepted
      /\ phase \notin {"h3", "grpc", "running", "stop_http", "undo_http", "stop_h3", "undo_h3"}
  BY <1>1 DEF Accepted
<1> QED
  BY <1>1, <1>2, Zenon DEF GwInv

\* Every step of the gateway, its server's task and its supervisor keeps it.
LEMMA GwStep == GwInv /\ [GwNext]_gwVars => GwInv'
<1> SUFFICES ASSUME GwInv, [GwNext]_gwVars PROVE GwInv'
  BY Zenon
<1> USE DEF Accepted
<1>0. gw' = gw
  BY Zenon DEF GwNext, gwVars, Construct, StartGateway, CheckAndServe, BindHttp, StartH3,
     StartGrpc, LoopEnds,
     StopGrpc, StopH3, StopHttp, CancelGateway
<1>1. CASE Construct
  BY <1>0, <1>1, SMTT(30) DEF Construct, GwInv
<1>2. CASE StartGateway
  BY <1>0, <1>2 DEF StartGateway, GwInv
<1>3. CASE CheckAndServe
  BY <1>0, <1>3 DEF CheckAndServe, GwInv
<1>4. CASE BindHttp
  <2>1. ~StartRaises(gw) /\ ~PostInitRaises(gw) /\ phase \in Accepted /\ cut' = cut
    BY <1>4, SMTT(30) DEF BindHttp, GwInv
  <2>2. CASE task' = "serving" /\ open' = With(open, "http", HttpListener(gw)) /\ phase' = phase
    <3>1. /\ open' = [x \in DOMAIN open' |-> open'[x]] /\ DOMAIN open' = DOMAIN open \cup {"http"}
          /\ \A x \in DOMAIN open : x # "http" => open'[x] = open[x]
          /\ open'["http"] = HttpListener(gw)
      BY <2>2, Opened, Zenon
    <3>2. DOMAIN open' \subseteq Configured(gw)
      BY <3>1, Zenon DEF GwInv, Configured
    <3>3. \A l \in DOMAIN open' : open'[l] = Listener(gw, l)
      BY <3>1, Zenon DEF GwInv, Listener
    <3>4. phase \in {"checks", "new", "refused", "down", "crashed"} => cut
      BY <1>4 DEF GwInv, BindHttp
    <3> QED
      BY <1>0, <2>1, <2>2, <3>1, <3>2, <3>3, <3>4, SMTT(30) DEF GwInv
  <2>3. CASE task' = "none" /\ phase' = "exited" /\ open' = <<>>
    <3>1. DOMAIN open' = {} /\ open' = [x \in DOMAIN open' |-> open'[x]]
      BY <2>3, NoneOpen, Zenon
    <3> QED
      BY <1>0, <2>1, <2>3, <3>1 DEF GwInv
  <2> QED
    BY <1>4, <2>2, <2>3, Zenon DEF BindHttp
<1>5. CASE StartH3
  <2>1. /\ ~StartRaises(gw) /\ ~PostInitRaises(gw) /\ phase = "h3" /\ cut' = cut /\ task' = task
        /\ ~cut
    BY <1>5, SMTT(30) DEF StartH3, GwInv
  <2>2. CASE phase' = "grpc" /\ open' = With(open, "h3", H3Listener(gw)) /\ gw.http3
    <3>1. /\ open' = [x \in DOMAIN open' |-> open'[x]] /\ DOMAIN open' = DOMAIN open \cup {"h3"}
          /\ \A x \in DOMAIN open : x # "h3" => open'[x] = open[x]
          /\ open'["h3"] = H3Listener(gw)
      BY <2>2, Opened, Zenon
    <3>2. DOMAIN open' \subseteq Configured(gw)
      BY <2>2, <3>1, Zenon DEF GwInv, Configured
    <3>3. \A l \in DOMAIN open' : open'[l] = Listener(gw, l)
      BY <3>1 DEF GwInv, Listener
    <3> QED
      BY <1>0, <2>1, <2>2, <3>1, <3>2, <3>3, SMTT(30) DEF GwInv
  <2>3. CASE open' = open /\ phase' \in {"grpc", "undo_grpc"} /\ (phase' = "grpc" => ~gw.http3)
    BY <1>0, <2>1, <2>3 DEF GwInv
  <2> QED
    BY <1>5, <2>2, <2>3, SMTT(30) DEF StartH3
<1>6. CASE StartGrpc
  <2>1. /\ ~StartRaises(gw) /\ ~PostInitRaises(gw) /\ phase = "grpc" /\ cut' = cut /\ task' = task
        /\ ~cut
    BY <1>6 DEF StartGrpc, GwInv
  <2>2. CASE phase' = "running" /\ open' = With(open, "grpc", GrpcListener(gw)) /\ gw.grpc
    <3>1. /\ open' = [x \in DOMAIN open' |-> open'[x]] /\ DOMAIN open' = DOMAIN open \cup {"grpc"}
          /\ \A x \in DOMAIN open : x # "grpc" => open'[x] = open[x]
          /\ open'["grpc"] = GrpcListener(gw)
      BY <2>2, Opened, Zenon
    <3>2. /\ DOMAIN open' \subseteq Configured(gw)
          /\ Configured(gw) \ {"http"} \subseteq DOMAIN open'
      BY <2>1, <2>2, <3>1, SMTT(30) DEF GwInv, Configured
    <3>3. \A l \in DOMAIN open' : open'[l] = Listener(gw, l)
      BY <3>1, SMTT(30) DEF GwInv, Listener
    <3> QED
      BY <1>0, <2>1, <2>2, <3>1, <3>2, <3>3, SMTT(30) DEF GwInv
  <2>3. CASE /\ open' = open /\ phase' \in {"running", "undo_grpc"}
             /\ (phase' = "running" => ~gw.grpc)
    <3>1. phase' = "running" => Configured(gw) \ {"http"} \subseteq DOMAIN open
      BY <2>1, <2>3, SMTT(30) DEF GwInv, Configured
    <3> QED
      BY <1>0, <2>1, <2>3, <3>1, SMTT(30) DEF GwInv
  <2> QED
    BY <1>6, <2>2, <2>3, SMTT(30) DEF StartGrpc
<1>7. CASE LoopEnds
  BY <1>0, <1>7, SMTT(30) DEF LoopEnds, GwInv
<1>8. CASE StopGrpc
  <2>1. open' = [x \in DOMAIN open' |-> open'[x]] /\ DOMAIN open' = DOMAIN open \ {"grpc"}
        /\ \A x \in DOMAIN open' : open'[x] = open[x]
    BY <1>8, Closed, Zenon DEF StopGrpc
  <2> QED
    BY <1>0, <1>8, <2>1 DEF StopGrpc, GwInv
<1>9. CASE StopH3
  <2>1. open' = [x \in DOMAIN open' |-> open'[x]] /\ DOMAIN open' = DOMAIN open \ {"h3"}
        /\ \A x \in DOMAIN open' : open'[x] = open[x]
    BY <1>9, Closed, Zenon DEF StopH3
  <2>2. DOMAIN open' \subseteq {"http"}
    BY <1>9, <2>1, SMTT(30) DEF StopH3, GwInv, Configured
  <2> QED
    BY <1>0, <1>9, <2>1, <2>2, SMTT(30) DEF StopH3, GwInv
<1>10. CASE StopHttp
  <2>1. open' = [x \in DOMAIN open' |-> open'[x]] /\ DOMAIN open' = DOMAIN open \ {"http"}
        /\ \A x \in DOMAIN open' : open'[x] = open[x]
    BY <1>10, Closed, Zenon DEF StopHttp
  <2> QED
    BY <1>0, <1>10, <2>1, Zenon DEF StopHttp, GwInv
<1>11. CASE CancelGateway
  BY <1>0, <1>11 DEF CancelGateway, GwInv
<1>12. CASE UNCHANGED gwVars
  BY <1>12, Zenon DEF gwVars, GwInv
<1> QED
  BY <1>1, <1>2, <1>3, <1>4, <1>5, <1>6, <1>7, <1>8, <1>9, <1>10, <1>11, <1>12, Zenon DEF GwNext

\* Each port of a gateway asks for what its configuration asks for, whatever the
\* configuration, however often it is started and wherever a start fails, and a
\* gateway that is down serves no port unless its on_start() or on_stop() was
\* cancelled (GatewayConfig.__post_init__, HTTPGateway.on_start, on_stop).
THEOREM ListenersFollowConfig == GwSpec => []ListenersAsConfigured
<1>1. GwInv => ListenersAsConfigured
  <2> SUFFICES ASSUME GwInv PROVE ListenersAsConfigured
    BY Zenon
  <2>1. open = <<>> <=> DOMAIN open = {}
    BY NothingOpen, Zenon DEF GwInv
  <2>2. ASSUME NEW l \in DOMAIN open
        PROVE  /\ l \in Configured(gw)
               /\ open[l].certs = gw.certs
               /\ gw.certs # "none" => open[l].tls /\ open[l].dn = "peer"
               /\ "jwt" \in gw.middleware => open[l].jwt
               /\ l = "grpc" /\ open[l].jwt => open[l].tls
    <3>1. /\ ~PostInitRaises(gw) /\ ~TokenInClear(gw) /\ open[l] = Listener(gw, l)
          /\ l \in Configured(gw)
      BY Zenon DEF GwInv, StartRaises
    <3>2. /\ l = "http" \/ (l = "h3" /\ gw.http3) \/ (l = "grpc" /\ gw.grpc)
      BY <3>1, Zenon DEF Configured
    <3>3. CASE l = "http"
      <4>1. open[l] = HttpListener(gw)
        BY <3>1, <3>3, Zenon DEF Listener
      <4>2. /\ open[l].tls = gw.tls /\ open[l].certs = gw.certs
            /\ open[l].jwt = ("jwt" \in gw.middleware)
        BY <4>1 DEF HttpListener
      <4>3. open[l].dn = IF gw.source = "proxy_header" THEN "header"
                         ELSE IF gw.certs # "none" THEN "peer" ELSE "none"
        BY <4>1 DEF HttpListener
      <4> QED
        BY <3>1, <3>3, <4>2, <4>3, Zenon DEF PostInitRaises
    <3>4. CASE l = "h3" /\ gw.http3
      <4>1. open[l] = H3Listener(gw)
        BY <3>1, <3>4 DEF Listener
      <4>2. open[l].certs = "none" /\ open[l].jwt = ("jwt" \in gw.middleware)
        BY <4>1 DEF H3Listener
      <4> QED
        BY <3>1, <3>4, <4>2, Zenon DEF PostInitRaises
    <3>5. CASE l = "grpc" /\ gw.grpc
      <4>1. open[l] = GrpcListener(gw)
        BY <3>1, <3>5, SMTT(30) DEF Listener
      <4>2. /\ open[l].tls = gw.tls /\ open[l].jwt = ("jwt" \in ConfiguredMiddleware(gw))
            /\ open[l].certs = IF gw.certs = "required" THEN "required" ELSE "none"
            /\ open[l].dn = IF gw.certs = "required" THEN "peer" ELSE "none"
        BY <4>1 DEF GrpcListener
      <4>3. gw.certs = "none" \/ (gw.certs = "required" /\ gw.tls)
        BY <3>1, <3>5, Zenon DEF PostInitRaises
      <4> QED
        BY <3>1, <3>5, <4>2, <4>3, Zenon DEF TokenInClear, ConfiguredMiddleware
    <3> QED
      BY <3>1, <3>2, <3>3, <3>4, <3>5, Zenon
  <2>3. gw.source = "proxy_header" /\ open # <<>> => "cert" \in ConfiguredMiddleware(gw)
    BY <2>1, Zenon DEF GwInv, StartRaises, ForwardedUnchecked
  <2>4. "http" \in DOMAIN open /\ gw.docs = "auto" /\ DocsEnabled(gw) =>
          gw.middleware \cap AuthMiddleware = {} /\ open["http"].certs = "none"
    BY <2>2, Zenon DEF DocsEnabled, AuthConfigured
  <2>5. phase = "running" => Configured(gw) \ {"http"} \subseteq DOMAIN open
    BY Zenon DEF GwInv
  <2>6. phase \in {"new", "refused", "down", "crashed"} /\ ~cut => open = <<>> /\ task = "none"
    BY <2>1 DEF GwInv
  <2> QED
    BY <2>2, <2>3, <2>4, <2>5, <2>6, Zenon DEF ListenersAsConfigured
<1> QED
  BY <1>1, GwStarts, GwStep, PTL DEF GwSpec
=============================================================================
