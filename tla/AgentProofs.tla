---------------------------- MODULE AgentProofs -----------------------------
(***************************************************************************)
(* Proofs about one agent and the agents that talk to it.  Suspension is   *)
(* exact and durable, and business messages are dispatched in order and at *)
(* most once, for any number of messages, control messages, direct calls,  *)
(* retries and incarnations.  Nobody who asked an agent is left behind when*)
(* it is torn down, for any number of asks, answers and messages, any      *)
(* capacity and any transport.                                             *)
(***************************************************************************)
EXTENDS AgentProcess, RequestReply, TLAPS

-----------------------------------------------------------------------------
(* Suspension and order in one agent.                                      *)

(* Order.  The messages that wait are in order and younger than all that   *)
(* have been dispatched.                                                   *)
InOrder ==
    /\ business \in Nat /\ normQ \in Seq(Nat) /\ handled \in Seq(Nat)
    /\ \A i \in 1..Len(normQ) : normQ[i] <= business
    /\ \A i \in 1..Len(handled) : handled[i] <= business
    /\ \A i, j \in 1..Len(normQ) : i < j => normQ[i] < normQ[j]
    /\ \A i, j \in 1..Len(handled) : i < j => handled[i] < handled[j]
    /\ \A i \in 1..Len(handled), j \in 1..Len(normQ) : handled[i] < normQ[j]

\* get() takes the oldest message.
LEMMA ReceiveInOrder == InOrder /\ ReceiveBusiness => InOrder'
<1> SUFFICES ASSUME InOrder, ReceiveBusiness PROVE InOrder'
  BY Zenon
<1> USE DEF InOrder
<1>1. /\ normQ # << >> /\ normQ' = Tail(normQ) /\ handled' = Append(handled, Head(normQ))
      /\ business' = business
  BY Zenon DEF ReceiveBusiness, counters
<1>2. /\ Len(normQ') = Len(normQ) - 1 /\ normQ' \in Seq(Nat)
      /\ \A i \in 1..Len(normQ') : normQ'[i] = normQ[i + 1] /\ i + 1 \in 1..Len(normQ)
  BY <1>1
<1>3. /\ Len(handled') = Len(handled) + 1 /\ handled' \in Seq(Nat)
      /\ \A i \in 1..Len(handled) : handled'[i] = handled[i]
      /\ handled'[Len(handled) + 1] = normQ[1] /\ 1 \in 1..Len(normQ)
  BY <1>1
<1>4. /\ business' \in Nat
      /\ \A i \in 1..Len(normQ') : normQ'[i] <= business'
      /\ \A i, j \in 1..Len(normQ') : i < j => normQ'[i] < normQ'[j]
  BY <1>1, <1>2
<1>5. \A i \in 1..Len(handled') : i \in 1..Len(handled) \/ i = Len(handled) + 1
  BY <1>3
<1>6. /\ \A i \in 1..Len(handled') : handled'[i] <= business'
      /\ \A i, j \in 1..Len(handled') : i < j => handled'[i] < handled'[j]
  <2>1. \A i \in 1..Len(handled') : handled'[i] <= business'
    BY <1>1, <1>3, <1>5, Zenon
  <2>2. ASSUME NEW i \in 1..Len(handled'), NEW j \in 1..Len(handled'), i < j
        PROVE  handled'[i] < handled'[j]
    <3>1. Len(handled) \in Nat /\ i \in 1..Len(handled) /\ handled'[i] = handled[i]
      <4> HIDE DEF InOrder
      <4>1. Len(handled) \in Nat
        BY DEF InOrder
      <4>2. Len(handled') = Len(handled) + 1
        BY <1>3, Zenon
      <4>3. i \in 1..Len(handled)
        BY <2>2, <4>1, <4>2
      <4> QED
        BY <1>3, <4>1, <4>3, Zenon
    <3>2. CASE j \in 1..Len(handled)
      BY <1>3, <2>2, <3>1, <3>2, Zenon
    <3>3. CASE j = Len(handled) + 1
      BY <1>3, <3>1, <3>3, Zenon
    <3> QED
      BY <1>5, <3>2, <3>3, Zenon
  <2> QED
    BY <2>1, <2>2, Zenon
<1>7. \A i \in 1..Len(handled'), j \in 1..Len(normQ') : handled'[i] < normQ'[j]
  <2> TAKE i \in 1..Len(handled'), j \in 1..Len(normQ')
  <2>1. normQ'[j] = normQ[j + 1] /\ j + 1 \in 1..Len(normQ) /\ 1 < j + 1
    BY <1>2
  <2>2. CASE i \in 1..Len(handled)
    BY <2>1, <2>2, <1>3, Zenon
  <2>3. CASE i = Len(handled) + 1
    BY <2>1, <2>3, <1>3, Zenon
  <2> QED
    BY <2>2, <2>3, <1>5, Zenon
<1> QED
  BY <1>2, <1>3, <1>4, <1>6, <1>7, Zenon

\* A new message is younger than all the others.
LEMMA SendInOrder == InOrder /\ SendBusiness => InOrder'
<1> SUFFICES ASSUME InOrder, SendBusiness PROVE InOrder'
  OBVIOUS
<1>1. business' = business + 1 /\ normQ' = Append(normQ, business') /\ handled' = handled
  BY Zenon DEF SendBusiness
<1> USE DEF InOrder
<1>2. /\ Len(normQ') = Len(normQ) + 1 /\ normQ' \in Seq(Nat)
      /\ \A i \in 1..Len(normQ) : normQ'[i] = normQ[i]
      /\ normQ'[Len(normQ) + 1] = business'
  BY <1>1
<1>3. \A i \in 1..Len(normQ') : i \in 1..Len(normQ) \/ i = Len(normQ) + 1
  BY <1>2
<1>4. /\ business' \in Nat
      /\ \A i \in 1..Len(handled') : handled'[i] <= business'
      /\ \A i, j \in 1..Len(handled') : i < j => handled'[i] < handled'[j]
  BY <1>1
<1>5. /\ \A i \in 1..Len(normQ') : normQ'[i] <= business'
      /\ \A i, j \in 1..Len(normQ') : i < j => normQ'[i] < normQ'[j]
  BY <1>1, <1>2, <1>3, SMTT(30)
<1>6. \A i \in 1..Len(handled'), j \in 1..Len(normQ') : handled'[i] < normQ'[j]
  <2> TAKE i \in 1..Len(handled'), j \in 1..Len(normQ')
  <2>1. CASE j \in 1..Len(normQ)
    BY <2>1, <1>1, <1>2, Zenon
  <2>2. CASE j = Len(normQ) + 1
    BY <2>2, <1>1, <1>2
  <2> QED
    BY <2>1, <2>2, <1>3, Zenon
<1> QED
  BY <1>1, <1>2, <1>4, <1>5, <1>6, Zenon

\* No other step touches the normal queue or dispatches: a retry runs in place,
\* and a restart carries the queue over.
LEMMA OthersLeaveOrder ==
    [Next]_vars /\ ~ReceiveBusiness /\ ~SendBusiness => UNCHANGED <<normQ, handled, business>>
<1> SUFFICES ASSUME [Next]_vars, ~ReceiveBusiness, ~SendBusiness
             PROVE  UNCHANGED <<normQ, handled, business>>
  BY Zenon
<1> USE DEF mailVars, counters
<1>1. CASE RestoreState \/ RestoreFails \/ OnStart \/ OnStartFails \/ OnSuspend
             \/ EnterSuspendedEnds \/ SaveEnds
  BY <1>1 DEF RestoreState, RestoreFails, OnStart, OnStartFails, OnSuspend, EnterSuspendedEnds,
              SaveEnds
<1>2. CASE ReceivePriority
  <2>1. OnPriority(Head(prioQ).kind) => handled' = handled
    BY Zenon DEF OnPriority, OnShutdown, OnHeartbeat, OnSuspendMessage, OnResumeMessage, OnForceRestart,
           OnUrgent
  <2> QED
    BY <1>2, <2>1, Zenon DEF ReceivePriority
<1>3. CASE HandleReturns \/ HandleSkips \/ HandleEscalates \/ HandleRetries \/ Unwind \/ Teardown
  BY <1>3 DEF HandleReturns, HandleSkips, HandleEscalates, HandleRetries, RetryInPlace, Unwind,
              Teardown
<1>4. CASE StoreStep
  BY <1>4, Zenon DEF StoreStep, WriteLands, WriteFails
<1>5. CASE SendControl \/ SuspendCall \/ ResumeCall \/ StopCall \/ StopTimeout \/ StopReturns
             \/ StartAgain
  BY <1>5, Zenon DEF SendControl, SuspendCall, ResumeCall, StopCall, StopTimeout, StopReturns, StartAgain,
              Carried
<1>6. CASE UNCHANGED vars
  BY <1>6, Zenon DEF vars
<1> QED
  BY <1>1, <1>2, <1>3, <1>4, <1>5, <1>6, Zenon DEF Next, LoopStep, Environment

\* Business messages are dispatched in the order they were sent and at most once,
\* through suspensions, retries, crashes and restarts (_dispatch(),
\* _transfer_mailbox()).
THEOREM DispatchedInOrder == Spec => []FifoAtMostOnce
<1>1. Init => InOrder
  BY DEF Init, InOrder
<1>2. InOrder /\ [Next]_vars => InOrder'
  <2> SUFFICES ASSUME InOrder, [Next]_vars, ~ReceiveBusiness, ~SendBusiness PROVE InOrder'
    BY ReceiveInOrder, SendInOrder, Zenon
  <2> QED
    BY OthersLeaveOrder, Zenon DEF InOrder
<1>3. InOrder => FifoAtMostOnce
  BY Zenon DEF InOrder, FifoAtMostOnce
<1> QED
  BY <1>1, <1>2, <1>3, PTL DEF Spec
-----------------------------------------------------------------------------
(* Suspension.                                                             *)

Types ==
    /\ marker \in BOOLEAN /\ requested \in BOOLEAN /\ stored \in BOOLEAN /\ degraded \in BOOLEAN
    /\ pc \in Pcs
    /\ \A w \in pending : w \in [by : Writers, mark : BOOLEAN]

\* In the loop status and marker agree.
Agree == pc \in LoopPcs => /\ status \in {"RUNNING", "SUSPENDED"}
                           /\ marker <=> status = "SUSPENDED"

\* As long as resume() has not been called directly, a suspension that is being
\* entered stays entered.  Without any direct call nobody requests one behind
\* the back of a loop that waits, and one that waits in get() is RUNNING.
Entered ==
    /\ pc \in {"enter", "mark"} /\ "resume" \notin called => marker
    /\ pc \in {"get", "get_priority"} /\ called = {} => ~requested
    /\ pc = "get" /\ called = {} => status = "RUNNING"

\* Without direct calls of resume() and failed writes, the store has the marker
\* or the one write under way brings it there; outside "mark" and "save" none is
\* under way.
Saved ==
    ~degraded /\ "resume" \notin called =>
        /\ \A w \in pending : w = [by |-> "loop", mark |-> marker]
        /\ pc \notin {"mark", "save"} => pending = {}
        /\ pc \in LoopPcs \ {"enter"} /\ pending = {} => stored = marker
        /\ pc = "on_start" => stored = marker

SuspendInv == Types /\ Agree /\ Entered /\ Saved

LEMMA SuspendInitially == Init => SuspendInv
BY Zenon DEF Init, SuspendInv, Types, Agree, Entered, Saved, Pcs, LoopPcs

\* The loop comes back to its top with the store settled and a status that
\* agrees with the marker.
LEMMA TopKeeps ==
    ASSUME SuspendInv, NEW st, NEW rq \in BOOLEAN, AtTop(st, marker, rq),
           st \in {"RUNNING", "SUSPENDED"} => (marker <=> st = "SUSPENDED"),
           ~degraded /\ "resume" \notin called => pending = {} /\ stored = marker,
           UNCHANGED <<stored, pending, degraded, called>>
    PROVE  SuspendInv'
<1>1. CASE st \notin {"RUNNING", "SUSPENDED"}
  <2>1. marker' = marker /\ requested' = rq /\ pc' = "unwind"
    BY <1>1, Zenon DEF AtTop
  <2> QED
    BY <2>1, Zenon DEF SuspendInv, Types, Agree, Entered, Saved, Pcs, LoopPcs
<1>2. CASE st = "RUNNING" /\ rq
  <2>1. status' = "SUSPENDED" /\ marker' = TRUE /\ requested' = rq /\ pc' = "enter"
    BY <1>2, Zenon DEF AtTop
  <2> QED
    BY <2>1, Zenon DEF SuspendInv, Types, Agree, Entered, Saved, Pcs, LoopPcs
<1>3. CASE st = "SUSPENDED" \/ (st = "RUNNING" /\ ~rq)
  <2>1. status' = st /\ marker' = marker /\ requested' = FALSE /\ pc' = ParkAt(st)
    BY <1>3, Zenon DEF AtTop
  <2> QED
    BY <1>3, <2>1, Zenon DEF SuspendInv, Types, Agree, Entered, Saved, Pcs, LoopPcs, ParkAt
<1> QED
  BY <1>1, <1>2, <1>3, Zenon

LEMMA Settled ==
    SuspendInv /\ pc \in {"get", "get_priority", "handle"} =>
        /\ status \in {"RUNNING", "SUSPENDED"} /\ (marker <=> status = "SUSPENDED")
        /\ requested \in BOOLEAN
        /\ ~degraded /\ "resume" \notin called => pending = {} /\ stored = marker
BY Zenon DEF SuspendInv, Types, Agree, Saved, LoopPcs

LEMMA OnStartKeeps == SuspendInv /\ OnStart => SuspendInv'
<1> SUFFICES ASSUME SuspendInv, OnStart PROVE SuspendInv'
  OBVIOUS
<1> DEFINE st == IF marker THEN "SUSPENDED" ELSE "RUNNING"
<1>1. AtTop(st, marker, requested) /\ UNCHANGED <<stored, pending, degraded, called>>
  BY Zenon DEF OnStart, storeVars, counters
<1>2. marker <=> st = "SUSPENDED"
  BY Zenon
<1>3. requested \in BOOLEAN /\ (~degraded /\ "resume" \notin called => pending = {} /\ stored = marker)
  BY Zenon DEF OnStart, SuspendInv, Types, Saved
<1> HIDE DEF st
<1> QED
  BY <1>1, <1>2, <1>3, TopKeeps, Zenon

LEMMA OnSuspendKeeps == SuspendInv /\ OnSuspend => SuspendInv'
<1> SUFFICES ASSUME SuspendInv, OnSuspend PROVE SuspendInv'
  OBVIOUS
<1> DEFINE w0 == [by |-> "loop", mark |-> marker]
<1>1. /\ pc = "enter" /\ pc' = "mark" /\ pending' = pending \cup {w0}
      /\ UNCHANGED <<status, marker, requested, stored, degraded, called>>
  BY Zenon DEF OnSuspend, Checkpoint, agentVars, taskVars, storeVars, counters
<1>2. Types' /\ Agree' /\ Entered'
  BY <1>1 DEF SuspendInv, Types, Agree, Entered, Saved, Pcs, LoopPcs, Writers
<1>3. Saved'
  BY <1>1, Zenon DEF SuspendInv, Saved, LoopPcs
<1> QED
  BY <1>2, <1>3, Zenon DEF SuspendInv

LEMMA EnterSuspendedKeeps == SuspendInv /\ EnterSuspendedEnds => SuspendInv'
<1> SUFFICES ASSUME SuspendInv, EnterSuspendedEnds PROVE SuspendInv'
  OBVIOUS
<1>1. /\ pc = "mark" /\ ~Writing("loop") /\ requested' = FALSE /\ pc' = ParkAt(status)
      /\ UNCHANGED <<status, marker, stored, pending, degraded, called>>
  BY Zenon DEF EnterSuspendedEnds, agentVars, taskVars, storeVars, counters
<1>2. ~degraded /\ "resume" \notin called => pending = {}
  BY <1>1 DEF SuspendInv, Saved, Writing
<1>3. status \in {"RUNNING", "SUSPENDED"} /\ (marker <=> status = "SUSPENDED")
  BY <1>1, Zenon DEF SuspendInv, Agree, LoopPcs
<1> QED
  BY <1>1, <1>2, <1>3, Zenon DEF SuspendInv, Types, Agree, Entered, Saved, Pcs, LoopPcs, ParkAt

LEMMA SaveKeeps == SuspendInv /\ SaveEnds => SuspendInv'
<1> SUFFICES ASSUME SuspendInv, SaveEnds PROVE SuspendInv'
  OBVIOUS
<1>1. /\ pc = "save" /\ ~Writing("loop") /\ AtTop(status, marker, requested)
      /\ UNCHANGED <<stored, pending, degraded, called>>
  BY Zenon DEF SaveEnds, agentVars, taskVars, storeVars, counters
<1>2. ~degraded /\ "resume" \notin called => pending = {}
  BY <1>1 DEF SuspendInv, Saved, Writing
<1>3. /\ status \in {"RUNNING", "SUSPENDED"} => (marker <=> status = "SUSPENDED")
      /\ requested \in BOOLEAN
      /\ ~degraded /\ "resume" \notin called => stored = marker
  BY <1>1, <1>2, Zenon DEF SuspendInv, Types, Agree, Entered, Saved, Pcs, LoopPcs
<1> QED
  BY <1>1, <1>2, <1>3, TopKeeps, Zenon

LEMMA HandleKeeps == SuspendInv /\ (HandleReturns \/ HandleSkips \/ HandleEscalates \/ HandleRetries) => SuspendInv'
<1> SUFFICES ASSUME SuspendInv, (HandleReturns \/ HandleSkips \/ HandleEscalates \/ HandleRetries) PROVE SuspendInv'
  BY Zenon
<1>1. pc = "handle" /\ UNCHANGED <<stored, pending, degraded, called>>
  BY Zenon DEF HandleReturns, HandleSkips, HandleEscalates, HandleRetries, agentVars, taskVars, storeVars, counters
<1>2. \/ \E st \in {status, "STOPPING"} : AtTop(st, marker, requested)
      \/ pc' = "unwind" /\ UNCHANGED <<marker, requested>>
      \/ UNCHANGED <<status, marker, requested, pc>>
  BY Zenon DEF HandleReturns, HandleSkips, HandleEscalates, HandleRetries, RetryInPlace, Raise, agentVars
<1>3. ASSUME NEW st \in {status, "STOPPING"}, AtTop(st, marker, requested) PROVE SuspendInv'
  BY <1>1, <1>3, Settled, TopKeeps, Zenon
<1>4. CASE pc' = "unwind" /\ UNCHANGED <<marker, requested>>
  BY <1>1, <1>4, Zenon DEF SuspendInv, Types, Agree, Entered, Saved, Pcs, LoopPcs
<1>5. CASE UNCHANGED <<status, marker, requested, pc>>
  BY <1>1, <1>5, Zenon DEF SuspendInv, Types, Agree, Entered, Saved, Pcs, LoopPcs
<1> QED
  BY <1>2, <1>3, <1>4, <1>5, Zenon

LEMMA PriorityKeeps == SuspendInv /\ ReceivePriority => SuspendInv'
<1> SUFFICES ASSUME SuspendInv, ReceivePriority PROVE SuspendInv'
  OBVIOUS
<1>1. pc \in {"get", "get_priority"} /\ called' = called
  BY Zenon DEF ReceivePriority, counters
<1>2. \/ OnShutdown \/ OnHeartbeat \/ OnSuspendMessage \/ OnResumeMessage
      \/ OnForceRestart \/ OnUrgent
  BY Zenon DEF ReceivePriority, OnPriority
<1>3. ASSUME NEW rq \in BOOLEAN, AtTop(status, marker, rq), UNCHANGED storeVars PROVE SuspendInv'
  BY <1>1, <1>3, Settled, TopKeeps, Zenon DEF storeVars
<1>4. CASE OnShutdown \/ OnForceRestart
  BY <1>1, <1>4, Zenon DEF OnShutdown, OnForceRestart, Raise, agentVars, storeVars, SuspendInv, Types, Agree, Entered, Saved, Pcs, LoopPcs
<1>5. CASE OnUrgent
  BY <1>1, <1>5, Zenon DEF OnUrgent, agentVars, storeVars, SuspendInv, Types, Agree, Entered, Saved, Pcs, LoopPcs
<1>6. CASE OnHeartbeat
  <2>1. CASE Raise(status) /\ UNCHANGED storeVars
    BY <1>1, <2>1, Zenon DEF Raise, storeVars, SuspendInv, Types, Agree, Entered, Saved, Pcs, LoopPcs
  <2> QED
    BY <1>1, <1>3, <1>6, <2>1, Settled, Zenon DEF OnHeartbeat
<1>7. CASE OnSuspendMessage
  <2>1. CASE status = "SUSPENDED"
    <3> DEFINE w0 == [by |-> "loop", mark |-> marker]
    <3>1. /\ pc' = "save" /\ pending' = pending \cup {w0}
          /\ UNCHANGED <<status, marker, requested, stored, degraded, called>>
      BY <1>1, <1>7, <2>1, Zenon DEF OnSuspendMessage, Checkpoint, agentVars
    <3>2. Types' /\ Agree' /\ Entered'
      BY <1>1, <3>1 DEF SuspendInv, Types, Agree, Entered, Saved, Pcs, LoopPcs, Writers
    <3>3. Saved'
      BY <1>1, <3>1, Settled, Zenon DEF SuspendInv, Saved, LoopPcs
    <3> QED
      BY <3>2, <3>3 DEF SuspendInv
  <2> QED
    BY <1>3, <1>7, <2>1, Zenon DEF OnSuspendMessage
<1>8. CASE OnResumeMessage
  <2>1. CASE status = "SUSPENDED"
    <3> DEFINE w0 == [by |-> "loop", mark |-> FALSE]
    <3>1. /\ pc' = "save" /\ pending' = pending \cup {w0} /\ status' = "RUNNING"
          /\ marker' = FALSE /\ requested' = FALSE
          /\ UNCHANGED <<stored, degraded, called>>
      BY <1>1, <1>8, <2>1, Zenon DEF OnResumeMessage, Checkpoint
    <3>4. w0 \in [by : Writers, mark : BOOLEAN]
      BY Zenon DEF Writers
    <3>2. Types' /\ Agree' /\ Entered'
      <4> HIDE DEF w0
      <4>1. Types'
        BY <3>1, <3>4, Zenon DEF SuspendInv, Types, Pcs, LoopPcs
      <4> QED
        BY <3>1, <4>1, Zenon DEF Agree, Entered
    <3>3. Saved'
      BY <1>1, <3>1, Settled, Zenon DEF SuspendInv, Saved, LoopPcs
    <3> QED
      BY <3>2, <3>3 DEF SuspendInv
  <2> QED
    BY <1>3, <1>8, <2>1, Zenon DEF OnResumeMessage
<1> QED
  BY <1>2, <1>4, <1>5, <1>6, <1>7, <1>8, Zenon

LEMMA ResumeCallKeeps == SuspendInv /\ ResumeCall => SuspendInv'
<1> SUFFICES ASSUME SuspendInv, ResumeCall PROVE SuspendInv'
  OBVIOUS
<1> DEFINE w0 == [by |-> "caller", mark |-> FALSE]
<1>1. requested' = FALSE /\ "resume" \in called' /\ UNCHANGED <<pc, degraded>>
  BY Zenon DEF ResumeCall, Checkpoint, taskVars, storeVars
<1>2. \/ status = "SUSPENDED" /\ status' = "RUNNING" /\ marker' = FALSE /\ stored' = stored /\ pending' = pending \cup {w0}
      \/ status # "SUSPENDED" /\ UNCHANGED <<status, marker, stored, pending>>
  BY Zenon DEF ResumeCall, Checkpoint, storeVars
<1>3. Types'
  <2>1. w0 \in [by : Writers, mark : BOOLEAN]
    BY Zenon DEF Writers
  <2> HIDE DEF w0
  <2> QED
    BY <1>1, <1>2, <2>1, Zenon DEF SuspendInv, Types
<1>4. Agree' /\ Entered' /\ Saved'
  BY <1>1, <1>2 DEF SuspendInv, Types, Agree, Entered, Saved, Pcs, LoopPcs
<1> QED
  BY <1>3, <1>4, Zenon DEF SuspendInv

LEMMA TimeoutKeeps == SuspendInv /\ StopTimeout => SuspendInv'
<1> SUFFICES ASSUME SuspendInv, StopTimeout PROVE SuspendInv'
  OBVIOUS
<1>1. /\ pc' \in {"unwind", "done"} /\ pending' = Abandoned /\ degraded' = (degraded \/ Writing("loop"))
      /\ UNCHANGED <<marker, requested, stored, called>>
  BY Zenon DEF StopTimeout, agentVars, counters
<1>2. Types'
  <2>1. \A w \in pending' : w \in [by : Writers, mark : BOOLEAN]
    BY <1>1, Zenon DEF Abandoned, SuspendInv, Types, Writers
  <2>2. degraded' \in BOOLEAN
    BY <1>1, Zenon DEF SuspendInv, Types, Writing
  <2> QED
    BY <1>1, <2>1, <2>2, Zenon DEF SuspendInv, Types, Pcs
<1>3. Agree' /\ Entered'
  BY <1>1, Zenon DEF Agree, Entered, LoopPcs
<1>4. ~degraded' /\ "resume" \notin called' => pending' = {}
  <2>1. ~Writing("loop") /\ ~degraded /\ "resume" \notin called => pending = {}
    BY DEF SuspendInv, Saved, Writing
  <2>2. pending = {} => Abandoned = {}
    BY Zenon DEF Abandoned
  <2> QED
    BY <1>1, <2>1, <2>2, Zenon
<1>5. Saved'
  BY <1>1, <1>4, Zenon DEF Saved, LoopPcs
<1> QED
  BY <1>2, <1>3, <1>5, Zenon DEF SuspendInv

LEMMA SuspendStep == SuspendInv /\ [Next]_vars => SuspendInv'
<1> SUFFICES ASSUME SuspendInv, [Next]_vars PROVE SuspendInv'
  BY Zenon
<1> USE DEF SuspendInv, Types, Agree, Entered, Saved, Pcs, LoopPcs, agentVars, taskVars, storeVars, counters
<1>1. CASE RestoreState
  BY <1>1, Zenon DEF RestoreState
<1>2. CASE RestoreFails
  BY <1>2, Zenon DEF RestoreFails
<1>3. CASE OnStartFails
  BY <1>3, Zenon DEF OnStartFails
<1>4. CASE ReceiveBusiness
  BY <1>4, Zenon DEF ReceiveBusiness
<1>5. CASE Unwind
  BY <1>5, Zenon DEF Unwind
<1>6. CASE Teardown
  BY <1>6, Zenon DEF Teardown
<1>7. CASE WriteLands
  BY <1>7 DEF WriteLands
<1>8. CASE WriteFails
  BY <1>8, Zenon DEF WriteFails
<1>9. CASE SendBusiness \/ SendControl \/ StopCall \/ StopReturns
  BY <1>9 DEF SendBusiness, SendControl, StopCall, StopReturns
<1>10. CASE SuspendCall
  BY <1>10, Zenon DEF SuspendCall
<1>11. CASE StartAgain
  BY <1>11, Zenon DEF StartAgain, TaskLive
<1>12. CASE UNCHANGED vars
  BY <1>12 DEF vars
<1> HIDE DEF SuspendInv, Types, Agree, Entered, Saved
<1> QED
  BY <1>1, <1>2, <1>3, <1>4, <1>5, <1>6, <1>7, <1>8, <1>9, <1>10, <1>11, <1>12,
     OnStartKeeps, OnSuspendKeeps, EnterSuspendedKeeps, SaveKeeps, HandleKeeps, PriorityKeeps,
     ResumeCallKeeps, TimeoutKeeps
     DEF Next, LoopStep, StoreStep, Environment

\* While the loop runs, the status and the suspend marker agree whoever calls
\* suspend() or resume(); and when it waits for a message with no write under
\* way, so does the checkpoint, failed and abandoned writes and direct resumes
\* excepted (_enter_suspended(), resume(), _update_suspend_reason()).
THEOREM StatusDurable == Spec => []DurableStatus
<1>1. SuspendInv => DurableStatus
  BY Zenon DEF SuspendInv, Agree, Saved, DurableStatus, LoopPcs
<1> QED
  BY <1>1, SuspendInitially, SuspendStep, PTL DEF Spec

\* A business message reaches handle() only in a running agent of which no
\* suspension is requested, and a request is dropped only by a resume or with
\* its incarnation: the loop enters every other one (_message_loop()).
THEOREM SuspendsExactly == Spec => SuspendExact
<1> DEFINE Step ==
      /\ (handled' # handled /\ called = {}) => status = "RUNNING" /\ ~marker /\ ~requested
      /\ (requested /\ ~requested') => \/ "resume" \in called
                                       \/ marker'
                                       \/ ResumeCall \/ StartAgain
                                       \/ ReceivePriority /\ Head(prioQ).kind = "resume"
<1>1. SuspendInv /\ [Next]_vars => [Step]_vars
  <2> SUFFICES ASSUME SuspendInv, Next PROVE Step
    BY ZenonT(30)
  <2>1. handled' # handled => ReceiveBusiness
    BY Zenon DEF Next, LoopStep, StoreStep, Environment, RestoreState, RestoreFails, OnStart, OnStartFails,
       OnSuspend, EnterSuspendedEnds, SaveEnds, ReceivePriority, OnPriority, OnShutdown, OnHeartbeat,
       OnSuspendMessage, OnResumeMessage, OnForceRestart, OnUrgent, HandleReturns, HandleSkips,
       HandleEscalates, HandleRetries, RetryInPlace, Unwind, Teardown, WriteLands, WriteFails,
       SendBusiness, SendControl, SuspendCall, ResumeCall, StopCall, StopTimeout, StopReturns, StartAgain
  <2>2. ReceiveBusiness /\ called = {} => status = "RUNNING" /\ ~marker /\ ~requested
    BY Zenon DEF ReceiveBusiness, SuspendInv, Types, Agree, Entered, LoopPcs
  <2>3. ASSUME NEW st, AtTop(st, marker, requested), requested, ~requested' PROVE st = "SUSPENDED" /\ marker' = marker
    BY <2>3, Zenon DEF AtTop
  <2>4. SUFFICES ASSUME requested, ~requested', ~ResumeCall, ~StartAgain, "resume" \notin called,
                        ~(ReceivePriority /\ Head(prioQ).kind = "resume")
                 PROVE  marker'
    BY <2>1, <2>2, Zenon
  <2>5. CASE OnStart
    <3>1. CASE ~marker
      BY <2>4, <2>5, <3>1, Zenon DEF OnStart, AtTop
    <3>2. CASE marker
      BY <2>4, <2>5, <3>2, Zenon DEF OnStart, AtTop
    <3> QED
      BY <3>1, <3>2, Zenon
  <2>6. CASE EnterSuspendedEnds
    BY <2>4, <2>6, Zenon DEF EnterSuspendedEnds, SuspendInv, Entered
  <2>7. CASE SaveEnds
    BY <2>3, <2>4, <2>7, Zenon DEF SaveEnds, SuspendInv, Agree, LoopPcs
  <2>8. CASE HandleReturns \/ HandleSkips
    <3>1. PICK st \in {status, "STOPPING"} : AtTop(st, marker, requested)
      BY <2>8, Zenon DEF HandleReturns, HandleSkips
    <3> QED
      BY <2>3, <2>4, <2>8, <3>1, Zenon DEF HandleReturns, HandleSkips, SuspendInv, Agree, LoopPcs
  <2>9. CASE HandleRetries
    BY <2>3, <2>4, <2>9, Zenon DEF HandleRetries, RetryInPlace, Raise, agentVars, SuspendInv, Agree, LoopPcs
  <2>10. CASE ReceivePriority
    <3>1. OnShutdown \/ OnHeartbeat \/ OnSuspendMessage \/ OnForceRestart \/ OnUrgent
      BY <2>4, <2>10, Zenon DEF ReceivePriority, OnPriority
    <3>2. CASE OnShutdown \/ OnForceRestart \/ OnUrgent
      BY <2>4, <3>2, Zenon DEF OnShutdown, OnForceRestart, OnUrgent, Raise, agentVars
    <3>3. CASE OnHeartbeat
      BY <2>3, <2>4, <2>10, <3>3, Zenon DEF OnHeartbeat, Raise, ReceivePriority, SuspendInv, Agree, LoopPcs
    <3>4. CASE OnSuspendMessage
      BY <2>4, <2>10, <3>4, Zenon DEF OnSuspendMessage, AtTop, agentVars, ReceivePriority, SuspendInv, Agree, LoopPcs
    <3> QED
      BY <3>1, <3>2, <3>3, <3>4, Zenon
  <2>11. CASE RestoreState \/ RestoreFails \/ OnStartFails \/ OnSuspend \/ ReceiveBusiness \/ HandleEscalates
               \/ Unwind \/ Teardown \/ StoreStep
    BY <2>4, <2>11, Zenon DEF StoreStep, RestoreState, RestoreFails, OnStartFails, OnSuspend, ReceiveBusiness,
       HandleEscalates, Raise, Unwind, Teardown, WriteLands, WriteFails, agentVars
  <2>12. CASE SendBusiness \/ SendControl \/ SuspendCall \/ StopCall \/ StopTimeout \/ StopReturns
    BY <2>4, <2>12, Zenon DEF SendBusiness, SendControl, SuspendCall, StopCall, StopTimeout, StopReturns, agentVars
  <2> QED
    BY <2>4, <2>5, <2>6, <2>7, <2>8, <2>9, <2>10, <2>11, <2>12, Zenon DEF Next, LoopStep, Environment
<1>2. SuspendExact <=> [][Step]_vars
  BY Zenon DEF SuspendExact
<1> HIDE DEF Step
<1> QED
  BY <1>1, <1>2, SuspendInitially, SuspendStep, PTL DEF Spec

-----------------------------------------------------------------------------
(* Requests and replies.                                                   *)

Items ==
    [kind : {"request", "reply", "error"}, ask : Asks] \cup
    [kind : {"load", "cast", "resume"}, ask : {NoAsk}]
Wires == [Processes -> Seq(Items)]

\* On the wire w: anything about ask r; its request; at most one of these.
Has(w, r) == \E p \in Processes : \E i \in DOMAIN w[p] : w[p][i].ask = r
HasRequest(w, r) == \E p \in Processes : \E i \in DOMAIN w[p] : w[p][i] = Item("request", r)
Single(w, r) ==
    \A p, q \in Processes : \A i \in DOMAIN w[p], j \in DOMAIN w[q] :
        w[p][i] = Item("request", r) /\ w[q][j] = Item("request", r) => p = q /\ i = j

InBox(b, r) == \E i \in DOMAIN b : b[i].ask = r

AskTypes ==
    /\ ask \in [Asks -> {"none", "sending", "waiting"} \cup Done]
    /\ queue \in [Asks -> Seq({"reply", "error"})]
    /\ addrs \subseteq Asks
    /\ serverBox \in Seq(Items)
    /\ \A i \in DOMAIN serverBox : serverBox[i].kind \in {"request", "cast"}
    /\ DOMAIN server = {"st", "ask", "left"}
    /\ server.st = "idle" => server.ask = NoAsk
    /\ server.st \in {"handling", "replying", "blocked"} => server.ask \in Asks
    /\ deferred \subseteq Asks
    /\ wire \in Wires
    /\ blocked \in [Processes -> Asks \cup {NoAsk}]
    /\ accepted \subseteq Asks

\* An ask under way has its address registered, its request is sent once, and
\* is not accepted while it is on the wire or not yet sent.
SentOnce(r) ==
    /\ ask[r] \in {"sending", "waiting"} => r \in addrs
    /\ ask[r] \in {"none", "sending"} => r \notin accepted /\ ~HasRequest(wire, r)
    /\ HasRequest(wire, r) => r \notin accepted
    /\ Single(wire, r)

\* Where the answer to an accepted ask is, or where it will come from.
Placed(r) ==
    \/ queue[r] # <<>>
    \/ Has(wire, r)
    \/ \E p \in Processes : blocked[p] = r
    \/ InBox(serverBox, r)
    \/ server.ask = r
    \/ r \in deferred

Expects(r) == r \in accepted \ (unanswered \cup lost) /\ ask[r] \in {"sending", "waiting"}

\* The end of the server.
Ends ==
    /\ server.st \in {"draining", "gone"} =>
          config.trouble = "removal" /\ ~listed /\ server.ask = NoAsk /\ deferred = {}
    /\ server.st = "gone" => \A r \in accepted : ~InBox(serverBox, r)

Kept(r) == SentOnce(r) /\ (Expects(r) => Placed(r))

AskInv ==
    /\ AskTypes
    /\ Ends
    /\ config.trouble = "removal" => \A r \in Asks : Kept(r)
-----------------------------------------------------------------------------
(* Wires and mailboxes. *)

\* What Item makes.
LEMMA ItemIs ==
    \A k, r : Item(k, r).ask = r /\ Item(k, r).kind = k
BY Zenon DEF Item

\* An item is its kind and its ask.
LEMMA ItemsAre ==
    \A x \in Items : x = Item(x.kind, x.ask) /\ x.ask \in Asks \cup {NoAsk}
BY DEF Items, Item

\* What joining two sequences gives.
LEMMA Concatenated ==
    ASSUME NEW S, NEW a \in Seq(S), NEW b \in Seq(S)
    PROVE  /\ a \o b \in Seq(S) /\ Len(a \o b) = Len(a) + Len(b)
           /\ DOMAIN (a \o b) = 1..Len(a \o b)
           /\ \A k \in 1..Len(a \o b) :
                 (a \o b)[k] = IF k <= Len(a) THEN a[k] ELSE b[k - Len(a)]
OBVIOUS

\* The place the k-th element had before the i-th was taken out.
Origin(i, k) == IF k < i THEN k ELSE k + 1

\* What taking the i-th element out of a sequence leaves: every other element,
\* each from a place of its own.
LEMMA Removed ==
    ASSUME NEW S, NEW s \in Seq(S), NEW i \in DOMAIN s
    PROVE  /\ Without(s, i) \in Seq(S)
           /\ \A j \in DOMAIN s : j # i => \E k \in DOMAIN Without(s, i) : Without(s, i)[k] = s[j]
           /\ \A k \in DOMAIN Without(s, i) :
                 /\ Origin(i, k) \in DOMAIN s /\ Origin(i, k) # i
                 /\ Without(s, i)[k] = s[Origin(i, k)]
<1> DEFINE a == SubSeq(s, 1, i - 1)
           b == SubSeq(s, i + 1, Len(s))
           t == Without(s, i)
<1>1. Len(s) \in Nat /\ DOMAIN s = 1..Len(s) /\ i \in 1..Len(s) /\ \A k \in 1..Len(s) : s[k] \in S
  OBVIOUS
<1>2. a \in Seq(S) /\ Len(a) = i - 1 /\ \A k \in 1..(i - 1) : a[k] = s[k]
  BY <1>1
<1>3. b \in Seq(S) /\ Len(b) = Len(s) - i /\ \A k \in 1..(Len(s) - i) : b[k] = s[i + k]
  <2>1. CASE i = Len(s)
    BY <1>1, <2>1
  <2>2. CASE i < Len(s)
    <3>1. i + 1 \in Nat /\ i + 1 <= Len(s) /\ Len(s) - (i + 1) + 1 = Len(s) - i
      BY <1>1, <2>2
    <3>2. b \in Seq(S) /\ Len(b) = Len(s) - (i + 1) + 1
      BY <1>1, <3>1
    <3>3. \A k \in 1..(Len(s) - i) : b[k] = s[i + k]
      BY <1>1, <3>1, SMTT(30)
    <3> QED
      BY <3>1, <3>2, <3>3
  <2> QED
    BY <1>1, <2>1, <2>2
<1>4. t = a \o b
  BY Zenon DEF Without
<1> HIDE DEF a, b, t
<1>5. t \in Seq(S) /\ Len(t) = Len(a) + Len(b) /\ DOMAIN t = 1..Len(t)
      /\ \A k \in 1..Len(t) : t[k] = IF k <= Len(a) THEN a[k] ELSE b[k - Len(a)]
  <2>1. a \in Seq(S) /\ b \in Seq(S)
    BY <1>2, <1>3, Zenon
  <2>2. /\ a \o b \in Seq(S) /\ Len(a \o b) = Len(a) + Len(b)
        /\ DOMAIN (a \o b) = 1..Len(a \o b)
        /\ \A k \in 1..Len(a \o b) :
              (a \o b)[k] = IF k <= Len(a) THEN a[k] ELSE b[k - Len(a)]
    BY <2>1, Concatenated, Zenon
  <2> QED
    BY <1>4, <2>2, Zenon
<1>6. Len(t) = Len(s) - 1
  BY <1>1, <1>2, <1>3, <1>5, SMTT(30)
<1>7. \A k \in 1..Len(t) : k < i => k \in 1..Len(s) /\ t[k] = s[k]
  BY <1>1, <1>2, <1>5, <1>6, SMTT(30)
<1>8. \A k \in 1..Len(t) : ~(k < i) => k + 1 \in 1..Len(s) /\ k + 1 # i /\ t[k] = s[k + 1]
  <2> SUFFICES ASSUME NEW k \in 1..Len(t), ~(k < i)
               PROVE  k + 1 \in 1..Len(s) /\ k + 1 # i /\ t[k] = s[k + 1]
    BY Zenon
  <2>1. k - (i - 1) \in 1..(Len(s) - i) /\ i + (k - (i - 1)) = k + 1 /\ ~(k <= i - 1)
    BY <1>1, <1>6
  <2>2. t[k] = b[k - (i - 1)]
    BY <1>2, <1>5, <2>1, Zenon
  <2>3. b[k - (i - 1)] = s[i + (k - (i - 1))]
    BY <1>3, <2>1, Zenon
  <2> QED
    BY <1>1, <1>6, <2>1, <2>2, <2>3
<1>9. \A j \in DOMAIN s : j # i => \E k \in DOMAIN t : t[k] = s[j]
  <2> SUFFICES ASSUME NEW j \in DOMAIN s, j # i PROVE \E k \in DOMAIN t : t[k] = s[j]
    BY Zenon
  <2>1. CASE j < i
    <3>1. j \in 1..Len(t)
      BY <1>1, <1>6, <2>1
    <3> QED
      BY <1>5, <1>7, <2>1, <3>1, Zenon
  <2>2. CASE j > i
    <3>1. j - 1 \in 1..Len(t) /\ ~(j - 1 < i) /\ (j - 1) + 1 = j
      BY <1>1, <1>6, <2>2
    <3>2. t[j - 1] = s[(j - 1) + 1]
      BY <1>8, <3>1, Zenon
    <3> QED
      BY <1>5, <3>1, <3>2, Zenon
  <2> QED
    BY <1>1, <2>1, <2>2
<1>10. \A k \in DOMAIN t :
          Origin(i, k) \in DOMAIN s /\ Origin(i, k) # i /\ t[k] = s[Origin(i, k)]
  <2> SUFFICES ASSUME NEW k \in DOMAIN t
               PROVE  Origin(i, k) \in DOMAIN s /\ Origin(i, k) # i /\ t[k] = s[Origin(i, k)]
    BY Zenon
  <2>1. CASE k < i
    BY <1>1, <1>5, <1>7, <2>1 DEF Origin
  <2>2. CASE ~(k < i)
    BY <1>1, <1>5, <1>8, <2>2, Zenon DEF Origin
  <2> QED
    BY <2>1, <2>2, Zenon
<1> QED
  BY <1>5, <1>9, <1>10, Zenon DEF t

\* A message is published.
Sent(w, p, x) == [w EXCEPT ![p] = Append(@, x)]

LEMMA WireAppend ==
    ASSUME NEW w \in Wires, NEW p \in Processes, NEW x \in Items,
           NEW w1, w1 = Sent(w, p, x)
    PROVE  /\ w1 \in Wires
           /\ \A r : Has(w, r) => Has(w1, r)
           /\ Has(w1, x.ask)
           /\ \A r : HasRequest(w1, r) => HasRequest(w, r) \/ x = Item("request", r)
           /\ \A r : Single(w, r) /\ (x = Item("request", r) => ~HasRequest(w, r)) => Single(w1, r)
<1>1. \A q \in Processes : w[q] \in Seq(Items) /\ Len(w[q]) \in Nat /\ DOMAIN w[q] = 1..Len(w[q])
  <2> TAKE q \in Processes
  <2>1. w[q] \in Seq(Items)
    BY Zenon DEF Wires
  <2> QED
    BY <2>1
<1>2. w1[p] = Append(w[p], x) /\ \A q \in Processes : q # p => w1[q] = w[q]
  BY Zenon DEF Wires, Sent
<1>3. /\ w1[p] \in Seq(Items) /\ DOMAIN w1[p] = 1..(Len(w[p]) + 1)
      /\ w1[p][Len(w[p]) + 1] = x /\ \A i \in 1..Len(w[p]) : w1[p][i] = w[p][i]
  <2>1. /\ Append(w[p], x) \in Seq(Items) /\ Len(Append(w[p], x)) = Len(w[p]) + 1
        /\ Append(w[p], x)[Len(w[p]) + 1] = x
        /\ \A i \in 1..Len(w[p]) : Append(w[p], x)[i] = w[p][i]
    BY <1>1
  <2>2. DOMAIN Append(w[p], x) = 1..Len(Append(w[p], x))
    BY <2>1
  <2> QED
    BY <1>2, <2>1, <2>2, Zenon
<1>4. w1 \in Wires
  BY <1>1, <1>2, <1>3, Zenon DEF Wires, Sent
<1>5. \A q \in Processes : \A i \in DOMAIN w[q] : i \in DOMAIN w1[q] /\ w1[q][i] = w[q][i]
  <2> TAKE q \in Processes
  <2> TAKE i \in DOMAIN w[q]
  <2>1. CASE q = p
    <3>1. i \in 1..Len(w[p]) /\ Len(w[p]) \in Nat
      BY <1>1, <2>1, Zenon
    <3>2. i \in 1..(Len(w[p]) + 1)
      BY <3>1
    <3> QED
      BY <1>3, <2>1, <3>1, <3>2, Zenon
  <2>2. CASE q # p
    BY <1>2, <2>2, Zenon
  <2> QED
    BY <2>1, <2>2, Zenon
<1>6. \A q \in Processes : \A i \in DOMAIN w1[q] :
         (i \in DOMAIN w[q] /\ w1[q][i] = w[q][i]) \/ (q = p /\ i = Len(w[p]) + 1 /\ w1[q][i] = x)
  <2> TAKE q \in Processes
  <2> TAKE i \in DOMAIN w1[q]
  <2>1. CASE q = p
    <3>1. i \in 1..(Len(w[p]) + 1) /\ Len(w[p]) \in Nat
      BY <1>1, <1>3, <2>1, Zenon
    <3>2. i \in 1..Len(w[p]) \/ i = Len(w[p]) + 1
      BY <3>1
    <3> QED
      BY <1>1, <1>3, <2>1, <3>2, Zenon
  <2>2. CASE q # p
    BY <1>2, <2>2, Zenon
  <2> QED
    BY <2>1, <2>2, Zenon
<1>7. \A r : Has(w, r) => Has(w1, r)
  BY <1>5 DEF Has
<1>8. Has(w1, x.ask)
  <2>1. Len(w[p]) + 1 \in DOMAIN w1[p]
    BY <1>1, <1>3
  <2> QED
    BY <1>3, <2>1, Zenon DEF Has
<1>9. \A r : HasRequest(w1, r) => HasRequest(w, r) \/ x = Item("request", r)
  <2> SUFFICES ASSUME NEW r, HasRequest(w1, r) PROVE HasRequest(w, r) \/ x = Item("request", r)
    BY Zenon
  <2>1. PICK q \in Processes : \E i \in DOMAIN w1[q] : w1[q][i] = Item("request", r)
    BY Zenon DEF HasRequest
  <2> QED
    BY <1>6, <2>1 DEF HasRequest
<1>10. \A r : Single(w, r) /\ (x = Item("request", r) => ~HasRequest(w, r)) => Single(w1, r)
  <2> SUFFICES ASSUME NEW r, Single(w, r), x = Item("request", r) => ~HasRequest(w, r),
                      NEW q \in Processes, NEW o \in Processes,
                      NEW i \in DOMAIN w1[q], NEW j \in DOMAIN w1[o],
                      w1[q][i] = Item("request", r), w1[o][j] = Item("request", r)
               PROVE  q = o /\ i = j
    BY DEF Single
  <2>1. (i \in DOMAIN w[q] /\ w1[q][i] = w[q][i]) \/ (q = p /\ i = Len(w[p]) + 1 /\ w1[q][i] = x)
    BY <1>6, Zenon
  <2>2. (j \in DOMAIN w[o] /\ w1[o][j] = w[o][j]) \/ (o = p /\ j = Len(w[p]) + 1 /\ w1[o][j] = x)
    BY <1>6, Zenon
  <2>3. CASE x = Item("request", r)
    <3>1. ~(i \in DOMAIN w[q] /\ w1[q][i] = w[q][i]) /\ ~(j \in DOMAIN w[o] /\ w1[o][j] = w[o][j])
      BY <2>3, Zenon DEF HasRequest
    <3> QED
      BY <2>1, <2>2, <3>1, Zenon
  <2>4. CASE x # Item("request", r)
    <3>1. i \in DOMAIN w[q] /\ w1[q][i] = w[q][i] /\ j \in DOMAIN w[o] /\ w1[o][j] = w[o][j]
      BY <2>1, <2>2, <2>4, Zenon
    <3> QED
      BY <3>1 DEF Single
  <2> QED
    BY <2>3, <2>4, Zenon
<1> QED
  BY <1>4, <1>7, <1>8, <1>9, <1>10, Zenon

\* A message is taken from the wire.
Taken(w, p, n) == [w EXCEPT ![p] = Without(@, n)]

LEMMA WireRemove ==
    ASSUME NEW w \in Wires, NEW p \in Processes, NEW n \in DOMAIN w[p],
           NEW w1, w1 = Taken(w, p, n)
    PROVE  /\ w1 \in Wires
           /\ \A r : Has(w, r) /\ r # w[p][n].ask => Has(w1, r)
           /\ \A r : HasRequest(w1, r) => HasRequest(w, r)
           /\ \A r : Single(w, r) => Single(w1, r)
           /\ \A r : Single(w, r) /\ w[p][n] = Item("request", r) => ~HasRequest(w1, r)
<1> DEFINE At(q, k) == IF q = p THEN Origin(n, k) ELSE k
<1>1. w[p] \in Seq(Items)
  BY Zenon DEF Wires
<1>2. w1[p] = Without(w[p], n) /\ \A q \in Processes : q # p => w1[q] = w[q]
  BY Zenon DEF Wires, Taken
<1>3. /\ w1[p] \in Seq(Items)
      /\ \A j \in DOMAIN w[p] : j # n => \E k \in DOMAIN w1[p] : w1[p][k] = w[p][j]
      /\ \A k \in DOMAIN w1[p] :
            Origin(n, k) \in DOMAIN w[p] /\ Origin(n, k) # n /\ w1[p][k] = w[p][Origin(n, k)]
  <2> DEFINE s == w[p]
  <2>1. s \in Seq(Items) /\ n \in DOMAIN s
    BY <1>1, Zenon
  <2>2. w1[p] = Without(s, n)
    BY <1>2, Zenon
  <2> HIDE DEF s
  <2>3. /\ Without(s, n) \in Seq(Items)
        /\ \A j \in DOMAIN s : j # n => \E k \in DOMAIN Without(s, n) : Without(s, n)[k] = s[j]
        /\ \A k \in DOMAIN Without(s, n) :
              Origin(n, k) \in DOMAIN s /\ Origin(n, k) # n /\ Without(s, n)[k] = s[Origin(n, k)]
    BY <2>1, Removed, Zenon
  <2> QED
    BY <2>2, <2>3, ZenonT(30) DEF s
<1>4. w1 \in Wires
  BY <1>2, <1>3, Zenon DEF Wires, Taken
<1>5. \A q \in Processes : \A k \in DOMAIN w1[q] :
         At(q, k) \in DOMAIN w[q] /\ w1[q][k] = w[q][At(q, k)] /\ ~(q = p /\ At(q, k) = n)
  <2> TAKE q \in Processes
  <2> TAKE k \in DOMAIN w1[q]
  <2>1. CASE q = p
    BY <1>3, <2>1, Zenon
  <2>2. CASE q # p
    BY <1>2, <2>2, Zenon
  <2> QED
    BY <2>1, <2>2, Zenon
<1>6. \A q \in Processes : \A k, l \in DOMAIN w1[q] : At(q, k) = At(q, l) => k = l
  <2>1. \A q \in Processes : DOMAIN w1[q] \subseteq Nat
    <3> TAKE q \in Processes
    <3>1. w1[q] \in Seq(Items)
      BY <1>4, Zenon DEF Wires
    <3> QED
      BY <3>1
  <2>2. n \in Nat
    BY <1>1
  <2> QED
    BY <2>1, <2>2 DEF Origin
<1> HIDE DEF At
<1>7. \A r : Has(w, r) /\ r # w[p][n].ask => Has(w1, r)
  <2> SUFFICES ASSUME NEW r, Has(w, r), r # w[p][n].ask PROVE Has(w1, r)
    BY Zenon
  <2>1. PICK q \in Processes : \E j \in DOMAIN w[q] : w[q][j].ask = r
    BY Zenon DEF Has
  <2>4. PICK j \in DOMAIN w[q] : w[q][j].ask = r
    BY <2>1, Zenon
  <2>2. CASE q = p
    <3>1. j # n
      BY <2>4, <2>2, Zenon
    <3>2. PICK k \in DOMAIN w1[p] : w1[p][k] = w[p][j]
      BY <1>3, <2>2, <3>1, Zenon
    <3> QED
      BY <2>4, <2>2, <3>2, Zenon DEF Has
  <2>3. CASE q # p
    BY <1>2, <2>1, <2>3, Zenon DEF Has
  <2> QED
    BY <2>2, <2>3, Zenon
<1>8. \A r : HasRequest(w1, r) => HasRequest(w, r)
  <2> SUFFICES ASSUME NEW r, HasRequest(w1, r) PROVE HasRequest(w, r)
    BY Zenon
  <2>1. PICK q \in Processes : \E k \in DOMAIN w1[q] : w1[q][k] = Item("request", r)
    BY Zenon DEF HasRequest
  <2> QED
    BY <1>5, <2>1 DEF HasRequest
<1>9. \A r : Single(w, r) => Single(w1, r)
  <2> SUFFICES ASSUME NEW r, Single(w, r), NEW q \in Processes, NEW o \in Processes,
                      NEW k \in DOMAIN w1[q], NEW l \in DOMAIN w1[o],
                      w1[q][k] = Item("request", r), w1[o][l] = Item("request", r)
               PROVE  q = o /\ k = l
    BY DEF Single
  <2>1. /\ At(q, k) \in DOMAIN w[q] /\ w[q][At(q, k)] = Item("request", r)
        /\ At(o, l) \in DOMAIN w[o] /\ w[o][At(o, l)] = Item("request", r)
    BY <1>5, Zenon
  <2>2. q = o /\ At(q, k) = At(o, l)
    BY <2>1 DEF Single
  <2> QED
    BY <1>6, <2>2, Zenon
<1>10. \A r : Single(w, r) /\ w[p][n] = Item("request", r) => ~HasRequest(w1, r)
  <2> SUFFICES ASSUME NEW r, Single(w, r), w[p][n] = Item("request", r), HasRequest(w1, r)
               PROVE  FALSE
    BY Zenon
  <2>1. PICK q \in Processes : \E k \in DOMAIN w1[q] : w1[q][k] = Item("request", r)
    BY Zenon DEF HasRequest
  <2>3. PICK k \in DOMAIN w1[q] : w1[q][k] = Item("request", r)
    BY <2>1, Zenon
  <2>2. At(q, k) \in DOMAIN w[q] /\ w[q][At(q, k)] = Item("request", r) /\ ~(q = p /\ At(q, k) = n)
    BY <1>5, <2>3, Zenon
  <2> QED
    BY <2>2, Zenon DEF Single
<1> QED
  BY <1>4, <1>7, <1>8, <1>9, <1>10, Zenon

\* A mailbox grows and shrinks.
LEMMA BoxAppend ==
    ASSUME NEW b \in Seq(Items), NEW x \in Items
    PROVE  /\ Append(b, x) \in Seq(Items)
           /\ \A r : InBox(Append(b, x), r) <=> InBox(b, r) \/ x.ask = r
           /\ \A i \in DOMAIN Append(b, x) :
                 Append(b, x)[i] = x \/ \E j \in DOMAIN b : Append(b, x)[i] = b[j]
<1> DEFINE c == Append(b, x)
<1>1. /\ c \in Seq(Items) /\ Len(c) = Len(b) + 1 /\ c[Len(b) + 1] = x
      /\ \A i \in 1..Len(b) : c[i] = b[i]
  OBVIOUS
<1> HIDE DEF c
<1>2. DOMAIN c = 1..Len(c) /\ DOMAIN b = 1..Len(b) /\ Len(b) \in Nat
  BY <1>1
<1>3. DOMAIN c = DOMAIN b \cup {Len(b) + 1}
  BY <1>1, <1>2
<1>4. \A r : InBox(c, r) <=> InBox(b, r) \/ x.ask = r
  BY <1>1, <1>2, <1>3, Zenon DEF InBox
<1>5. \A i \in DOMAIN c : c[i] = x \/ \E j \in DOMAIN b : c[i] = b[j]
  BY <1>1, <1>2, <1>3, Zenon
<1> QED
  BY <1>1, <1>4, <1>5, Zenon DEF c

LEMMA BoxTail ==
    ASSUME NEW b \in Seq(Items), b # <<>>
    PROVE  /\ Tail(b) \in Seq(Items) /\ Head(b) \in Items
           /\ \A r : InBox(b, r) <=> InBox(Tail(b), r) \/ Head(b).ask = r
<1> DEFINE c == Tail(b)
<1>1. /\ c \in Seq(Items) /\ Len(c) = Len(b) - 1 /\ \A i \in 1..Len(c) : c[i] = b[i + 1]
      /\ Head(b) \in Items /\ Head(b) = b[1]
  OBVIOUS
<1> HIDE DEF c
<1>2. DOMAIN c = 1..Len(c) /\ DOMAIN b = 1..Len(b) /\ Len(b) \in Nat /\ Len(b) >= 1
  BY <1>1
<1>3. \A r : InBox(b, r) => InBox(c, r) \/ Head(b).ask = r
  <2> SUFFICES ASSUME NEW r, InBox(b, r), Head(b).ask # r PROVE InBox(c, r)
    BY Zenon
  <2>1. PICK i \in DOMAIN b : b[i].ask = r
    BY Zenon DEF InBox
  <2>2. i - 1 \in 1..Len(c) /\ (i - 1) + 1 = i
    BY <1>1, <1>2, <2>1
  <2>3. c[i - 1] = b[i]
    BY <1>1, <2>2, Zenon
  <2> QED
    BY <1>2, <2>1, <2>2, <2>3, Zenon DEF InBox
<1>4. \A r : InBox(c, r) \/ Head(b).ask = r => InBox(b, r)
  <2>1. 1 \in DOMAIN b /\ \A i \in DOMAIN c : i + 1 \in DOMAIN b
    BY <1>1, <1>2
  <2> QED
    BY <1>1, <1>2, <2>1, Zenon DEF InBox
<1> QED
  BY <1>1, <1>3, <1>4, Zenon DEF c
\* The kinds of what is left in a mailbox.
LEMMA HeadKinds ==
    ASSUME NEW S, NEW b \in Seq(Items), b # <<>>, \A i \in DOMAIN b : b[i].kind \in S
    PROVE  Head(b).kind \in S /\ \A i \in DOMAIN Tail(b) : Tail(b)[i].kind \in S
<1> DEFINE c == Tail(b)
<1>1. /\ c \in Seq(Items) /\ Len(c) = Len(b) - 1 /\ \A i \in 1..Len(c) : c[i] = b[i + 1]
      /\ Head(b) = b[1]
  OBVIOUS
<1> HIDE DEF c
<1>2. DOMAIN c = 1..Len(c) /\ DOMAIN b = 1..Len(b) /\ Len(b) \in Nat /\ Len(b) >= 1
  BY <1>1
<1>3. 1 \in DOMAIN b /\ \A i \in DOMAIN c : i + 1 \in DOMAIN b
  BY <1>1, <1>2
<1>4. Head(b).kind \in S /\ \A i \in DOMAIN c : c[i].kind \in S
  BY <1>1, <1>2, <1>3, Zenon
<1> QED
  BY <1>4, Zenon DEF c
-----------------------------------------------------------------------------
(* What the steps of the asks and the server do to the invariant. *)

\* The variables the invariant is about.
books == <<config, ask, queue, addrs, serverBox, server, deferred, listed, wire, blocked, accepted,
           unanswered, lost>>

LEMMA BooksKept ==
    ASSUME AskInv, UNCHANGED books
    PROVE  AskInv'
<1>1. AskTypes'
  BY Zenon DEF AskInv, AskTypes, books
<1>2. Ends'
  BY Zenon DEF AskInv, Ends, books
<1>3. config.trouble = "removal" => \A r \in Asks : Kept(r)'
  BY Zenon DEF AskInv, Kept, SentOnce, Expects, Placed, books
<1> QED
  BY <1>1, <1>2, <1>3, Zenon DEF AskInv, books

\* The home of the server is a process.
LEMMA HomeIs == Home \in Processes /\ "here" \in Processes
BY Zenon DEF Home, Processes

\* The parts of the invariant, one ask at a time.
LEMMA InvParts ==
    ASSUME AskTypes', Ends', config' = config,
           \A r \in Asks : config.trouble = "removal" => Kept(r)'
    PROVE  AskInv'
BY Zenon DEF AskInv

\* A reply is routed: it reaches the queue or the wire when somebody waits for
\* it, and disturbs nothing else.
LEMMA Routes ==
    ASSUME AskTypes, NEW kind \in {"reply", "error"}, NEW r \in Asks,
           CanRoute(r), RouteReply(kind, r)
    PROVE  /\ queue' \in [Asks -> Seq({"reply", "error"})]
           /\ wire' \in Wires
           /\ \A q \in Asks : queue[q] # <<>> => queue'[q] # <<>>
           /\ \A q : Has(wire, q) => Has(wire', q)
           /\ \A q : HasRequest(wire', q) => HasRequest(wire, q)
           /\ \A q : Single(wire, q) => Single(wire', q)
           /\ r \in addrs => queue'[r] # <<>> \/ Has(wire', r)
<1>1. CASE config.apart
  <2> DEFINE x == Item(kind, r)
  <2>1. x \in Items /\ x.ask = r /\ \A q : x # Item("request", q)
    BY Zenon DEF Items, Item
  <2>2. wire' = Sent(wire, "here", x) /\ queue' = queue
    BY <1>1, Zenon DEF RouteReply, Publish, Sent
  <2>3. wire \in Wires /\ queue \in [Asks -> Seq({"reply", "error"})]
    BY Zenon DEF AskTypes
  <2> HIDE DEF x
  <2>4. /\ wire' \in Wires
        /\ \A q : Has(wire, q) => Has(wire', q)
        /\ Has(wire', x.ask)
        /\ \A q : HasRequest(wire', q) => HasRequest(wire, q) \/ x = Item("request", q)
        /\ \A q : Single(wire, q) /\ (x = Item("request", q) => ~HasRequest(wire, q)) => Single(wire', q)
    BY <2>1, <2>2, <2>3, HomeIs, WireAppend, Zenon
  <2> QED
    BY <2>1, <2>2, <2>3, <2>4, Zenon
<1>2. CASE ~config.apart
  <2>1. wire' = wire /\ queue' = IF r \in addrs THEN [queue EXCEPT ![r] = <<kind>>] ELSE queue
    BY <1>2, Zenon DEF RouteReply
  <2>2. wire \in Wires /\ queue \in [Asks -> Seq({"reply", "error"})]
    BY DEF AskTypes
  <2>3. <<kind>> \in Seq({"reply", "error"}) /\ <<kind>> # <<>>
    OBVIOUS
  <2>4. queue' \in [Asks -> Seq({"reply", "error"})]
    BY <2>1, <2>2, <2>3, Zenon
  <2>5. \A q \in Asks : queue[q] # <<>> => queue'[q] # <<>>
    BY <2>1, <2>2, <2>3, Zenon
  <2>6. r \in addrs => queue'[r] # <<>>
    BY <2>1, <2>2, <2>3, Zenon
  <2> QED
    BY <2>1, <2>2, <2>4, <2>5, <2>6, Zenon
<1> QED
  BY <1>1, <1>2, Zenon

\* An ask begins.
LEMMA StartAskKeeps ==
    ASSUME AskInv, NEW r \in Asks, NEW failFast \in BOOLEAN, StartAsk(r, failFast)
    PROVE  AskInv'
<1> DEFINE x == Item("request", r)
<1>1. AskTypes /\ Ends
  BY Zenon DEF AskInv
<1>2. ask[r] = "none" /\ UNCHANGED <<config, queue, serverBox, server, deferred, listed, blocked,
                                     accepted, unanswered, lost>>
  BY Zenon DEF StartAsk, serverVars, history
<1>3. Ends'
  BY <1>1, <1>2, Zenon DEF Ends
<1>4. x \in Items /\ x.ask = r /\ \A q : x = Item("request", q) => q = r
  BY Zenon DEF Items, Item
<1>5. wire \in Wires
  BY <1>1, Zenon DEF AskTypes
<1>6. CASE Refusal(failFast) # "none"
  <2>1. /\ ask' = [ask EXCEPT ![r] = Refusal(failFast)] /\ Refusal(failFast) \in {"suspended", "unroutable"}
        /\ UNCHANGED <<addrs, wire>>
    BY <1>6, Zenon DEF StartAsk, Refusal
  <2>2. AskTypes'
    BY <1>1, <1>2, <2>1, Zenon DEF AskTypes, Done
  <2>3. ASSUME NEW q \in Asks, config.trouble = "removal"
        PROVE  Kept(q)'
    <3>1. Kept(q) /\ (ask'[q] = ask[q] \/ ask'[q] \in {"suspended", "unroutable"})
      BY <1>1, <2>1, <2>3, Zenon DEF AskInv, AskTypes
    <3> QED
      BY <1>2, <2>1, <3>1, Zenon DEF Kept, SentOnce, Expects, Placed
  <2> QED
    BY <1>2, <1>3, <2>2, <2>3, InvParts, Zenon
<1>7. CASE Refusal(failFast) = "none" /\ config.net = "inproc" /\ BeginInProcess(r)
  <2>1. ask' = [ask EXCEPT ![r] = "sending"] /\ addrs' = addrs \cup {r} /\ wire' = wire
    BY <1>7, Zenon DEF BeginInProcess
  <2>2. AskTypes'
    BY <1>1, <1>2, <2>1, Zenon DEF AskTypes
  <2>3. ASSUME NEW q \in Asks, config.trouble = "removal"
        PROVE  Kept(q)'
    <3>1. Kept(q) /\ (IF q = r THEN ask'[q] = "sending" /\ ask[q] = "none" ELSE ask'[q] = ask[q])
      BY <1>1, <1>2, <2>1, <2>3, Zenon DEF AskInv, AskTypes
    <3> QED
      BY <1>2, <2>1, <3>1, Zenon DEF Kept, SentOnce, Expects, Placed
  <2> QED
    BY <1>2, <1>3, <2>2, <2>3, InvParts
<1>8. CASE BeginZmq(r) \/ BeginNats(r)
  <2>1. /\ ask' = [ask EXCEPT ![r] = "waiting"] /\ addrs' = addrs \cup {r}
        /\ wire' = Sent(wire, Home, x)
    BY <1>8, Zenon DEF BeginZmq, BeginNats, Publish, Sent
  <2> HIDE DEF x
  <2>2. /\ wire' \in Wires
        /\ \A q : Has(wire, q) => Has(wire', q)
        /\ \A q : HasRequest(wire', q) => HasRequest(wire, q) \/ x = Item("request", q)
        /\ \A q : Single(wire, q) /\ (x = Item("request", q) => ~HasRequest(wire, q)) => Single(wire', q)
    BY <1>4, <1>5, <2>1, HomeIs, WireAppend, Zenon
  <2>3. AskTypes'
    BY <1>1, <1>2, <2>1, <2>2, Zenon DEF AskTypes
  <2>4. ASSUME NEW q \in Asks, config.trouble = "removal"
        PROVE  Kept(q)'
    <3>1. /\ Kept(q) /\ (IF q = r THEN ask'[q] = "waiting" /\ ask[q] = "none" ELSE ask'[q] = ask[q])
          /\ q \in addrs => q \in addrs'
          /\ r \in addrs'
      BY <1>1, <1>2, <2>1, <2>4, Zenon DEF AskInv, AskTypes
    <3>2. q # r => x # Item("request", q)
      BY <1>4, Zenon
    <3>3. ask[q] = "none" => ~HasRequest(wire, q) /\ q \notin accepted
      BY <3>1, Zenon DEF Kept, SentOnce
    <3>4. SentOnce(q)'
      BY <1>2, <2>2, <3>1, <3>2, <3>3, Zenon DEF Kept, SentOnce
    <3>5. Expects(q)' => Expects(q)
      BY <1>2, <3>1, <3>3, Zenon DEF Expects
    <3>6. Placed(q) => Placed(q)'
      BY <1>2, <2>2, Zenon DEF Placed
    <3> QED
      BY <3>1, <3>4, <3>5, <3>6, Zenon DEF Kept
  <2> QED
    BY <1>2, <1>3, <2>3, <2>4, InvParts
<1> QED
  BY <1>6, <1>7, <1>8, Zenon DEF StartAsk

\* The request is put to the mailbox.
LEMMA PutRequestKeeps ==
    ASSUME AskInv, NEW r \in Asks, PutRequest(r)
    PROVE  AskInv'
<1> DEFINE x == Item("request", r)
<1>1. AskTypes /\ Ends
  BY Zenon DEF AskInv
<1>2. /\ ask[r] = "sending" /\ ask' = [ask EXCEPT ![r] = "waiting"]
      /\ serverBox' = Append(serverBox, x)
      /\ accepted' = IF Subscribed THEN accepted \cup {r} ELSE accepted
      /\ UNCHANGED <<config, queue, addrs, server, deferred, listed, wire, blocked, unanswered, lost>>
  BY Zenon DEF PutRequest, netVars
<1>3. x \in Items /\ x.ask = r /\ x.kind = "request"
  BY Zenon DEF Items, Item
<1>4. serverBox \in Seq(Items)
  BY <1>1, Zenon DEF AskTypes
<1> HIDE DEF x
<1>5. serverBox' \in Seq(Items) /\ \A q : InBox(serverBox', q) <=> InBox(serverBox, q) \/ x.ask = q
  BY <1>2, <1>3, <1>4, BoxAppend, Zenon
<1>6. \A i \in DOMAIN serverBox' : serverBox'[i].kind \in {"request", "cast"}
  <2>1. \A i \in DOMAIN serverBox : serverBox[i].kind \in {"request", "cast"}
    BY <1>1, Zenon DEF AskTypes
  <2> QED
    BY <1>2, <1>3, <1>4, <2>1
<1>7. AskTypes'
  BY <1>1, <1>2, <1>5, <1>6, Zenon DEF AskTypes
<1>8. Ends'
  <2>1. server.st = "gone" => \A q \in accepted' : ~InBox(serverBox', q)
    <3> SUFFICES ASSUME server.st = "gone", NEW q \in accepted' PROVE ~InBox(serverBox', q)
      BY Zenon
    <3>1. accepted' = accepted /\ ~InBox(serverBox, q) /\ config.trouble = "removal" /\ q \in Asks
      BY <1>1, <1>2, Zenon DEF Ends, Subscribed, AskTypes
    <3>2. r \notin accepted
      BY <1>2, <3>1, Zenon DEF AskInv, Kept, SentOnce
    <3> QED
      BY <1>3, <1>5, <3>1, <3>2, Zenon
  <2> QED
    BY <1>1, <1>2, <2>1, Zenon DEF Ends
<1>9. ASSUME NEW q \in Asks, config.trouble = "removal"
      PROVE  Kept(q)'
  <2>1. Kept(q) /\ (IF q = r THEN ask'[q] = "waiting" /\ ask[q] = "sending" ELSE ask'[q] = ask[q])
    BY <1>1, <1>2, <1>9, Zenon DEF AskInv, AskTypes
  <2>2. q # r => (q \in accepted' <=> q \in accepted)
    BY <1>2, Zenon
  <2>3. SentOnce(q)'
    BY <1>2, <2>1, <2>2, Zenon DEF Kept, SentOnce
  <2>4. q = r => Placed(q)'
    BY <1>3, <1>5, Zenon DEF Placed
  <2>5. q # r => (Expects(q)' => Expects(q))
    BY <1>2, <2>1, <2>2, Zenon DEF Expects
  <2>6. Placed(q) => Placed(q)'
    BY <1>2, <1>5, Zenon DEF Placed
  <2> QED
    BY <2>1, <2>3, <2>4, <2>5, <2>6, Zenon DEF Kept
<1> QED
  BY <1>2, <1>7, <1>8, <1>9, InvParts, Zenon

\* An ask ends, with an answer or without.
LEMMA ResumesKeeps ==
    ASSUME AskInv, NEW r \in Asks, NEW outcome \in Done, Resumes(r, outcome),
           queue' \in [Asks -> Seq({"reply", "error"})],
           \A q \in Asks : q # r => queue'[q] = queue[q],
           UNCHANGED <<config, serverBox, server, deferred, listed, wire, blocked, accepted, unanswered,
                       lost>>
    PROVE  AskInv'
<1>1. AskTypes /\ Ends
  BY Zenon DEF AskInv
<1>2. ask' = [ask EXCEPT ![r] = outcome] /\ addrs' = addrs \ {r}
  BY Zenon DEF Resumes
<1>3. AskTypes'
  BY <1>1, <1>2, Zenon DEF AskTypes
<1>4. Ends'
  BY <1>1, Zenon DEF Ends
<1>5. ASSUME NEW q \in Asks, config.trouble = "removal"
      PROVE  Kept(q)'
  <2>1. Kept(q)
    BY <1>5, Zenon DEF AskInv
  <2>2. CASE q = r
    <3>1. ask'[q] \in Done
      BY <1>1, <1>2, <2>2, Zenon DEF AskTypes
    <3>2. ask'[q] \notin {"none", "sending", "waiting"}
      BY <3>1, Zenon DEF Done
    <3> QED
      BY <2>1, <3>2, Zenon DEF Kept, SentOnce, Expects
  <2>3. CASE q # r
    <3>1. ask'[q] = ask[q] /\ (q \in addrs <=> q \in addrs') /\ queue'[q] = queue[q]
      BY <1>1, <1>2, <2>3, Zenon DEF AskTypes
    <3> QED
      BY <2>1, <3>1, Zenon DEF Kept, SentOnce, Expects, Placed
  <2> QED
    BY <2>2, <2>3, Zenon
<1> QED
  BY <1>3, <1>4, <1>5, InvParts, Zenon

LEMMA GetReplyKeeps ==
    ASSUME AskInv, NEW r \in Asks, GetReply(r)
    PROVE  AskInv'
<1>1. queue \in [Asks -> Seq({"reply", "error"})]
  BY Zenon DEF AskInv, AskTypes
<1>2. queue[r] \in Seq({"reply", "error"}) /\ queue[r] # <<>> /\ queue' = [queue EXCEPT ![r] = Tail(@)]
  BY <1>1, Zenon DEF GetReply
<1>3. Head(queue[r]) \in {"reply", "error"} /\ Tail(queue[r]) \in Seq({"reply", "error"})
  BY <1>2
<1>4. Head(queue[r]) \in Done
  BY <1>3, Zenon DEF Done
<1>5. queue' \in [Asks -> Seq({"reply", "error"})] /\ \A q \in Asks : q # r => queue'[q] = queue[q]
  BY <1>1, <1>2, <1>3, Zenon
<1>6. /\ Resumes(r, Head(queue[r]))
      /\ UNCHANGED <<config, serverBox, server, deferred, listed, wire, blocked, accepted, unanswered,
                     lost>>
  BY Zenon DEF GetReply, serverVars, netVars, history
<1> QED
  BY <1>4, <1>5, <1>6, ResumesKeeps, Zenon

LEMMA TimeOutKeeps ==
    ASSUME AskInv, NEW r \in Asks, TimeOut(r)
    PROVE  AskInv'
<1>1. queue \in [Asks -> Seq({"reply", "error"})]
  BY DEF AskInv, AskTypes
<1>2. /\ Resumes(r, "timeout") /\ queue' = queue
      /\ UNCHANGED <<config, serverBox, server, deferred, listed, wire, blocked, accepted, unanswered,
                     lost>>
  BY Zenon DEF TimeOut, serverVars, netVars
<1>3. "timeout" \in Done
  BY Zenon DEF Done
<1>4. queue' \in [Asks -> Seq({"reply", "error"})] /\ \A q \in Asks : q # r => queue'[q] = queue[q]
  BY <1>1, <1>2, Zenon
<1> QED
  BY <1>2, <1>3, <1>4, ResumesKeeps, Zenon
\* An announcement, cast or command that is about no ask goes out on the wire.
LEMMA NoticeKeeps ==
    ASSUME AskInv, NEW p \in Processes, NEW kind \in {"load", "cast", "resume"},
           Publish(p, Item(kind, NoAsk)),
           UNCHANGED <<config, ask, queue, addrs, serverBox, server, deferred, listed, blocked, accepted,
                       unanswered, lost>>
    PROVE  AskInv'
<1> DEFINE x == Item(kind, NoAsk)
<1>1. AskTypes /\ Ends
  BY Zenon DEF AskInv
<1>2. x \in Items /\ \A q : x # Item("request", q)
  BY Zenon DEF Items, Item
<1>3. wire' = Sent(wire, p, x) /\ wire \in Wires
  BY <1>1, Zenon DEF Publish, Sent, AskTypes
<1> HIDE DEF x
<1>4. /\ wire' \in Wires
      /\ \A q : Has(wire, q) => Has(wire', q)
      /\ \A q : HasRequest(wire', q) => HasRequest(wire, q) \/ x = Item("request", q)
      /\ \A q : Single(wire, q) /\ (x = Item("request", q) => ~HasRequest(wire, q)) => Single(wire', q)
  BY <1>2, <1>3, WireAppend, Zenon
<1>5. AskTypes'
  BY <1>1, <1>4, Zenon DEF AskTypes
<1>6. Ends'
  BY <1>1, Zenon DEF Ends
<1>7. ASSUME NEW q \in Asks, config.trouble = "removal"
      PROVE  Kept(q)'
  <2>1. Kept(q)
    BY <1>7, Zenon DEF AskInv
  <2>2. SentOnce(q)'
    BY <1>2, <1>4, <2>1, Zenon DEF Kept, SentOnce
  <2>3. (Expects(q)' => Expects(q)) /\ (Placed(q) => Placed(q)')
    BY <1>4, Zenon DEF Expects, Placed
  <2> QED
    BY <2>1, <2>2, <2>3, Zenon DEF Kept
<1> QED
  BY <1>5, <1>6, <1>7, InvParts, Zenon

\* A cast enters the mailbox of the server: over a full wire or at once.
LEMMA SendToCallerKeeps ==
    ASSUME AskInv, SendToCaller
    PROVE  AskInv'
<1>1. CASE InProcess
  BY <1>1, BooksKept, Zenon DEF SendToCaller, books, serverVars
<1>2. CASE ~InProcess
  <2>1. /\ Publish("here", Item("load", NoAsk))
        /\ UNCHANGED <<config, ask, queue, addrs, serverBox, server, deferred, listed, blocked, accepted,
                       unanswered, lost>>
    BY <1>2, Zenon DEF SendToCaller, serverVars
  <2> QED
    BY <2>1, HomeIs, NoticeKeeps, Zenon
<1> QED
  BY <1>1, <1>2, Zenon

LEMMA ResumeKeeps ==
    ASSUME AskInv, Resume
    PROVE  AskInv'
<1>1. CASE InProcess
  BY <1>1, BooksKept, Zenon DEF Resume, books, callerVars, history
<1>2. CASE ~InProcess
  <2>1. /\ Publish(Home, Item("resume", NoAsk))
        /\ UNCHANGED <<config, ask, queue, addrs, serverBox, server, deferred, listed, blocked, accepted,
                       unanswered, lost>>
    BY <1>2, Zenon DEF Resume, callerVars, history
  <2> QED
    BY <2>1, HomeIs, NoticeKeeps, Zenon
<1> QED
  BY <1>1, <1>2

LEMMA CastToServerKeeps ==
    ASSUME AskInv, CastToServer
    PROVE  AskInv'
<1>1. CASE InProcess
  <2> DEFINE x == Item("cast", NoAsk)
  <2>1. AskTypes /\ Ends /\ listed
    BY Zenon DEF AskInv, CastToServer
  <2>2. /\ serverBox' = Append(serverBox, x)
        /\ UNCHANGED <<config, ask, queue, addrs, server, deferred, listed, wire, blocked, accepted,
                       unanswered, lost>>
    BY <1>1, Zenon DEF CastToServer, callerVars
  <2>3. x \in Items /\ x.kind = "cast" /\ serverBox \in Seq(Items)
    BY <2>1, Zenon DEF Items, Item, AskTypes
  <2> HIDE DEF x
  <2>4. serverBox' \in Seq(Items) /\ \A q : InBox(serverBox', q) <=> InBox(serverBox, q) \/ x.ask = q
    BY <2>2, <2>3, BoxAppend, Zenon
  <2>5. \A i \in DOMAIN serverBox' : serverBox'[i].kind \in {"request", "cast"}
    <3>1. \A i \in DOMAIN serverBox : serverBox[i].kind \in {"request", "cast"}
      BY <2>1, Zenon DEF AskTypes
    <3> QED
      BY <2>2, <2>3, <3>1
  <2>6. AskTypes'
    BY <2>1, <2>2, <2>4, <2>5, Zenon DEF AskTypes
  <2>7. Ends'
    BY <2>1, <2>2, Zenon DEF Ends
  <2>8. ASSUME NEW q \in Asks, config.trouble = "removal"
        PROVE  Kept(q)'
    <3>1. Kept(q)
      BY <2>8, Zenon DEF AskInv
    <3>2. SentOnce(q)'
      BY <2>2, <3>1, Zenon DEF Kept, SentOnce
    <3>3. (Expects(q)' => Expects(q)) /\ (Placed(q) => Placed(q)')
      BY <2>2, <2>4, Zenon DEF Expects, Placed
    <3> QED
      BY <3>1, <3>2, <3>3, Zenon DEF Kept
  <2> QED
    BY <2>2, <2>6, <2>7, <2>8, InvParts, Zenon
<1>2. CASE ~InProcess
  <2>1. /\ Publish(Home, Item("cast", NoAsk))
        /\ UNCHANGED <<config, ask, queue, addrs, serverBox, server, deferred, listed, blocked, accepted,
                       unanswered, lost>>
    BY <1>2, Zenon DEF CastToServer, callerVars
  <2> QED
    BY <2>1, HomeIs, NoticeKeeps, Zenon
<1> QED
  BY <1>1, <1>2

\* What is known of a message taken from the wire.
LEMMA TakenFacts ==
    ASSUME AskTypes, NEW p \in Processes, NEW n \in DOMAIN wire[p],
           wire' = Taken(wire, p, n)
    PROVE  /\ wire' \in Wires
           /\ \A r : Has(wire, r) /\ r # wire[p][n].ask => Has(wire', r)
           /\ \A r : HasRequest(wire', r) => HasRequest(wire, r)
           /\ \A r : Single(wire, r) => Single(wire', r)
           /\ \A r : Single(wire, r) /\ wire[p][n] = Item("request", r) => ~HasRequest(wire', r)
           /\ wire[p][n] \in Items
<1>1. wire \in Wires /\ wire' = Taken(wire, p, n)
  BY Zenon DEF AskTypes
<1>2. wire[p] \in Seq(Items)
  BY <1>1, Zenon DEF Wires
<1>3. wire[p][n] \in Items
  BY <1>2
<1> QED
  BY <1>1, <1>3, WireRemove, Zenon

\* A message about no ask, or any message while faults are allowed, is taken.
LEMMA TakenKeeps ==
    ASSUME AskInv, NEW p \in Processes, NEW n \in DOMAIN wire[p],
           wire' = Taken(wire, p, n),
           wire[p][n].ask = NoAsk \/ config.trouble # "removal",
           UNCHANGED <<config, ask, queue, addrs, serverBox, server, deferred, listed, blocked, accepted,
                       unanswered>>,
           config.trouble = "removal" => lost' = lost
    PROVE  AskInv'
<1>1. AskTypes /\ Ends
  BY Zenon DEF AskInv
<1>2. /\ wire' \in Wires
      /\ \A r : Has(wire, r) /\ r # wire[p][n].ask => Has(wire', r)
      /\ \A r : HasRequest(wire', r) => HasRequest(wire, r)
      /\ \A r : Single(wire, r) => Single(wire', r)
  BY <1>1, TakenFacts, Zenon
<1>3. AskTypes'
  BY <1>1, <1>2, Zenon DEF AskTypes
<1>4. Ends'
  BY <1>1, Zenon DEF Ends
<1>5. ASSUME NEW q \in Asks, config.trouble = "removal"
      PROVE  Kept(q)'
  <2>1. Kept(q) /\ q # wire[p][n].ask /\ lost' = lost
    BY <1>5, AskAssumption, Zenon DEF AskInv
  <2>2. SentOnce(q)'
    BY <1>2, <2>1, Zenon DEF Kept, SentOnce
  <2>3. (Expects(q)' => Expects(q)) /\ (Placed(q) => Placed(q)')
    BY <1>2, <2>1, Zenon DEF Expects, Placed
  <2> QED
    BY <2>1, <2>2, <2>3, Zenon DEF Kept
<1> QED
  BY <1>3, <1>4, <1>5, InvParts, Zenon

LEMMA ReceiveLoadKeeps ==
    ASSUME AskInv, NEW p \in Processes, NEW n \in DOMAIN wire[p],
           ReceiveLoad(p, n) \/ ReceiveResume(p, n) \/ Lose(p, n)
    PROVE  AskInv'
<1>1. /\ wire' = Taken(wire, p, n)
      /\ UNCHANGED <<config, ask, queue, addrs, serverBox, server, deferred, listed, blocked, accepted,
                     unanswered>>
  BY Zenon DEF ReceiveLoad, ReceiveResume, Lose, Taken, serverVars, callerVars, history
<1>2. config.trouble = "removal" => lost' = lost
  BY Zenon DEF ReceiveLoad, ReceiveResume, Lose, history
<1>3. wire[p][n].ask = NoAsk \/ config.trouble # "removal"
  <2>1. wire[p][n] \in Items
    <3>1. AskTypes
      BY Zenon DEF AskInv
    <3> QED
      BY <1>1, <3>1, TakenFacts, Zenon
  <2>2. wire[p][n].kind \in {"load", "resume"} => wire[p][n].ask = NoAsk
    BY <2>1, Zenon DEF Items
  <2> QED
    BY <2>2, Zenon DEF ReceiveLoad, ReceiveResume, Lose
<1> QED
  BY <1>1, <1>2, <1>3, TakenKeeps, Zenon

\* A request or cast reaches the server, or a server that is gone.
LEMMA ReceiveForServerKeeps ==
    ASSUME AskInv, NEW p \in Processes, NEW n \in DOMAIN wire[p], ReceiveForServer(p, n)
    PROVE  AskInv'
<1> DEFINE x == wire[p][n]
<1>1. AskTypes /\ Ends
  BY Zenon DEF AskInv
<1>2. /\ x.kind \in {"request", "cast"}
      /\ wire' = Taken(wire, p, n)
      /\ UNCHANGED <<config, ask, queue, addrs, server, deferred, listed, blocked, unanswered, lost>>
  BY Zenon DEF ReceiveForServer, Taken, callerVars
<1>3. IF Subscribed THEN serverBox' = Append(serverBox, x) /\ accepted' = accepted \cup ({x.ask} \ {NoAsk})
                    ELSE serverBox' = serverBox /\ accepted' = accepted
  BY Zenon DEF ReceiveForServer
<1>4. /\ wire' \in Wires
      /\ \A r : Has(wire, r) /\ r # x.ask => Has(wire', r)
      /\ \A r : HasRequest(wire', r) => HasRequest(wire, r)
      /\ \A r : Single(wire, r) => Single(wire', r)
      /\ \A r : Single(wire, r) /\ x = Item("request", r) => ~HasRequest(wire', r)
      /\ x \in Items
  BY <1>1, <1>2, TakenFacts, Zenon
<1>5. /\ x.kind = "cast" => x.ask = NoAsk
      /\ x.kind = "request" => x.ask \in Asks /\ x = Item("request", x.ask)
  BY <1>4, Zenon DEF Items, Item
<1>6. \A r : x = Item("request", r) => HasRequest(wire, r)
  BY Zenon DEF HasRequest
<1>7. serverBox \in Seq(Items) /\ \A i \in DOMAIN serverBox : serverBox[i].kind \in {"request", "cast"}
  BY <1>1, Zenon DEF AskTypes
<1> HIDE DEF x
<1>8. /\ serverBox' \in Seq(Items)
      /\ \A q : InBox(serverBox, q) => InBox(serverBox', q)
      /\ Subscribed => InBox(serverBox', x.ask)
  <2>1. CASE Subscribed
    <3>1. serverBox' = Append(serverBox, x)
      BY <1>3, <2>1, Zenon
    <3>2. serverBox' \in Seq(Items) /\ \A q : InBox(serverBox', q) <=> InBox(serverBox, q) \/ x.ask = q
      BY <1>4, <1>7, <3>1, BoxAppend, Zenon
    <3> QED
      BY <3>2, Zenon
  <2>2. CASE ~Subscribed
    BY <1>3, <1>7, <2>2, Zenon
  <2> QED
    BY <2>1, <2>2, Zenon
<1>9. \A i \in DOMAIN serverBox' : serverBox'[i].kind \in {"request", "cast"}
  <2>1. CASE Subscribed
    <3>1. serverBox' = Append(serverBox, x)
      BY <1>3, <2>1
    <3>2. x \in Items
      BY <1>4, Zenon
    <3>3. \A i \in DOMAIN Append(serverBox, x) :
             \/ Append(serverBox, x)[i] = x
             \/ \E j \in DOMAIN serverBox : Append(serverBox, x)[i] = serverBox[j]
      BY <1>7, <3>2, BoxAppend, Zenon
    <3>4. \A i \in DOMAIN serverBox' :
             serverBox'[i] = x \/ \E j \in DOMAIN serverBox : serverBox'[i] = serverBox[j]
      BY <3>1, <3>3, Zenon
    <3> QED
      BY <1>2, <1>7, <3>4, Zenon
  <2>2. CASE ~Subscribed
    BY <1>3, <1>7, <2>2, Zenon
  <2> QED
    BY <2>1, <2>2, Zenon
<1>10. AskTypes'
  <2>1. accepted' \subseteq Asks
    BY <1>1, <1>2, <1>3, <1>5, Zenon DEF AskTypes
  <2> QED
    BY <1>1, <1>2, <1>4, <1>8, <1>9, <2>1, Zenon DEF AskTypes
<1>11. Ends'
  BY <1>1, <1>2, <1>3, Zenon DEF Ends, Subscribed
<1>12. ASSUME NEW q \in Asks, config.trouble = "removal"
       PROVE  Kept(q)'
  <2>1. Kept(q) /\ q # NoAsk
    BY <1>12, AskAssumption, Zenon DEF AskInv
  <2>2. SentOnce(q) /\ Single(wire, q)
    BY <2>1, Zenon DEF Kept, SentOnce
  <2>3. CASE q # x.ask
    <3>1. q \in accepted' <=> q \in accepted
      BY <1>3, <2>3, Zenon
    <3>2. SentOnce(q)'
      BY <1>2, <1>4, <2>2, <3>1, Zenon DEF SentOnce
    <3>3. (Expects(q)' => Expects(q)) /\ (Placed(q) => Placed(q)')
      BY <1>2, <1>4, <1>8, <2>3, <3>1, Zenon DEF Expects, Placed
    <3> QED
      BY <2>1, <3>2, <3>3, Zenon DEF Kept
  <2>4. CASE q = x.ask
    <3>1. x = Item("request", q)
      BY <1>2, <1>5, <2>1, <2>4, Zenon
    <3>2. HasRequest(wire, q) /\ ~HasRequest(wire', q)
      BY <1>4, <1>6, <2>2, <3>1, Zenon
    <3>3. ask[q] \notin {"none", "sending"} /\ q \notin accepted
      BY <2>2, <3>2, Zenon DEF SentOnce
    <3>4. SentOnce(q)'
      BY <1>2, <1>4, <2>2, <3>2, <3>3, Zenon DEF SentOnce
    <3>5. Expects(q)' => Placed(q)'
      <4>1. CASE Subscribed
        BY <1>8, <2>4, <4>1, Zenon DEF Placed
      <4>2. CASE ~Subscribed
        BY <1>3, <3>3, <4>2, Zenon DEF Expects
      <4> QED
        BY <4>1, <4>2, Zenon
    <3> QED
      BY <3>4, <3>5, Zenon DEF Kept
  <2> QED
    BY <2>3, <2>4, Zenon
<1> QED
  BY <1>2, <1>10, <1>11, <1>12, InvParts, Zenon

\* A reply reaches the process of the ask.
LEMMA ReceiveReplyKeeps ==
    ASSUME AskInv, NEW p \in Processes, NEW n \in DOMAIN wire[p], ReceiveReply(p, n)
    PROVE  AskInv'
<1> DEFINE x == wire[p][n]
           r == x.ask
<1>1. AskTypes /\ Ends
  BY DEF AskInv
<1>2. /\ x.kind \in {"reply", "error"}
      /\ wire' = Taken(wire, p, n)
      /\ UNCHANGED <<config, ask, addrs, serverBox, server, deferred, listed, accepted, unanswered, lost>>
  BY Zenon DEF ReceiveReply, Taken, serverVars, history
<1>3. /\ wire' \in Wires
      /\ \A q : Has(wire, q) /\ q # r => Has(wire', q)
      /\ \A q : HasRequest(wire', q) => HasRequest(wire, q)
      /\ \A q : Single(wire, q) => Single(wire', q)
      /\ x \in Items
  BY <1>1, <1>2, TakenFacts, Zenon
<1>4. r \in Asks
  BY <1>2, <1>3, Zenon DEF Items
<1>5. queue \in [Asks -> Seq({"reply", "error"})] /\ blocked \in [Processes -> Asks \cup {NoAsk}]
  BY <1>1, Zenon DEF AskTypes
<1>6. IF r \notin addrs THEN queue' = queue /\ blocked' = blocked
      ELSE IF queue[r] = <<>>
        THEN queue' = [queue EXCEPT ![r] = <<x.kind>>] /\ blocked' = blocked
        ELSE blocked[p] = NoAsk /\ blocked' = [blocked EXCEPT ![p] = r] /\ queue' = queue
  BY Zenon DEF ReceiveReply, NextOf, NextOnSocket
<1>7. <<x.kind>> \in Seq({"reply", "error"}) /\ <<x.kind>> # <<>>
  BY <1>2
<1> DEFINE v == <<x.kind>>
<1> HIDE DEF x, v, r
<1>8. v \in Seq({"reply", "error"}) /\ v # <<>>
  BY <1>7, Zenon DEF v
<1>9. IF r \notin addrs THEN queue' = queue /\ blocked' = blocked
      ELSE IF queue[r] = <<>>
        THEN queue' = [queue EXCEPT ![r] = v] /\ blocked' = blocked
        ELSE blocked[p] = NoAsk /\ blocked' = [blocked EXCEPT ![p] = r] /\ queue' = queue
  BY <1>6, Zenon DEF v
<1>10. queue' \in [Asks -> Seq({"reply", "error"})] /\ blocked' \in [Processes -> Asks \cup {NoAsk}]
  <2>1. CASE r \in addrs /\ queue[r] = <<>>
    <3>1. queue' = [queue EXCEPT ![r] = v] /\ blocked' = blocked
      BY <1>9, <2>1, Zenon
    <3> QED
      BY <1>4, <1>5, <1>8, <3>1, Zenon
  <2>2. CASE r \notin addrs
    BY <1>5, <1>9, <2>2, Zenon
  <2>3. CASE r \in addrs /\ queue[r] # <<>>
    BY <1>4, <1>5, <1>9, <2>3, Zenon
  <2> QED
    BY <2>1, <2>2, <2>3, Zenon
<1>11. \A q \in Asks : queue[q] # <<>> => queue'[q] # <<>>
  BY <1>4, <1>5, <1>8, <1>9, Zenon
<1>12. r \in addrs => queue'[r] # <<>>
  BY <1>4, <1>5, <1>8, <1>9, Zenon
<1>13. \A q \in Asks : (\E o \in Processes : blocked[o] = q) => \E o \in Processes : blocked'[o] = q
  <2> SUFFICES ASSUME NEW q \in Asks, NEW o \in Processes, blocked[o] = q PROVE blocked'[o] = q
    BY Zenon
  <2>1. q # NoAsk
    BY AskAssumption, Zenon
  <2> QED
    BY <1>5, <1>9, <2>1, Zenon
<1>14. AskTypes'
  BY <1>1, <1>2, <1>3, <1>10, Zenon DEF AskTypes
<1>15. Ends'
  BY <1>1, <1>2, Zenon DEF Ends
<1>16. ASSUME NEW q \in Asks, config.trouble = "removal"
       PROVE  Kept(q)'
  <2>1. Kept(q)
    BY <1>16, Zenon DEF AskInv
  <2>2. SentOnce(q) /\ SentOnce(q)'
    BY <1>2, <1>3, <2>1, Zenon DEF Kept, SentOnce
  <2>3. Expects(q)' => Expects(q) /\ q \in addrs
    BY <1>2, <2>2, Zenon DEF Expects, SentOnce
  <2>4. q \in addrs /\ Placed(q) => Placed(q)'
    BY <1>2, <1>3, <1>11, <1>12, <1>13, Zenon DEF Placed
  <2> QED
    BY <2>1, <2>2, <2>3, <2>4, Zenon DEF Kept
<1> QED
  BY <1>2, <1>14, <1>15, <1>16, InvParts, Zenon

\* A receiver loop gets on with its put.
LEMMA ReceiverPutsKeeps ==
    ASSUME AskInv, NEW p \in Processes, ReceiverPuts(p)
    PROVE  AskInv'
<1> DEFINE r == blocked[p]
           v == <<"reply">>
<1>1. AskTypes /\ Ends
  BY Zenon DEF AskInv
<1>2. /\ r # NoAsk /\ queue' = [queue EXCEPT ![r] = v] /\ blocked' = [blocked EXCEPT ![p] = NoAsk]
      /\ UNCHANGED <<config, ask, addrs, serverBox, server, deferred, listed, wire, accepted, unanswered,
                     lost>>
  BY Zenon DEF ReceiverPuts, serverVars, history
<1>3. queue \in [Asks -> Seq({"reply", "error"})] /\ blocked \in [Processes -> Asks \cup {NoAsk}]
  BY <1>1, Zenon DEF AskTypes
<1>4. r \in Asks
  BY <1>2, <1>3, Zenon
<1>5. v \in Seq({"reply", "error"}) /\ v # <<>>
  OBVIOUS
<1> HIDE DEF v
<1>6. queue' \in [Asks -> Seq({"reply", "error"})] /\ blocked' \in [Processes -> Asks \cup {NoAsk}]
  BY <1>2, <1>3, <1>4, <1>5, Zenon
<1>7. \A q \in Asks : queue[q] # <<>> \/ q = r => queue'[q] # <<>>
  BY <1>2, <1>3, <1>4, <1>5, Zenon
<1>8. \A q \in Asks, o \in Processes : blocked[o] = q => q = r \/ blocked'[o] = q
  BY <1>2, <1>3, Zenon
<1>9. AskTypes'
  BY <1>1, <1>2, <1>6, Zenon DEF AskTypes
<1>10. Ends'
  BY <1>1, <1>2, Zenon DEF Ends
<1> HIDE DEF r
<1>11. ASSUME NEW q \in Asks, config.trouble = "removal"
       PROVE  Kept(q)'
  <2>1. Kept(q)
    BY <1>11, Zenon DEF AskInv
  <2>2. SentOnce(q)' /\ (Expects(q)' => Expects(q))
    BY <1>2, <2>1, Zenon DEF Kept, SentOnce, Expects
  <2>3. Placed(q) => Placed(q)'
    BY <1>2, <1>7, <1>8, Zenon DEF Placed
  <2> QED
    BY <2>1, <2>2, <2>3, Zenon DEF Kept
<1> QED
  BY <1>2, <1>9, <1>10, <1>11, InvParts, Zenon
\* The server takes a message from its mailbox.
LEMMA ServerTakesKeeps ==
    ASSUME AskInv, ServerTakes
    PROVE  AskInv'
<1> DEFINE x == Head(serverBox)
<1>1. AskTypes /\ Ends /\ listed
  BY Zenon DEF AskInv, ServerTakes
<1>2. /\ server.st = "idle" /\ serverBox # <<>> /\ serverBox' = Tail(serverBox)
      /\ server' = IF x.kind = "cast" THEN server ELSE [st |-> "handling", ask |-> x.ask, left |-> 0]
      /\ UNCHANGED <<config, ask, queue, addrs, deferred, listed, wire, blocked, accepted, unanswered, lost>>
  BY Zenon DEF ServerTakes, callerVars, netVars, history
<1>3. serverBox \in Seq(Items) /\ \A i \in DOMAIN serverBox : serverBox[i].kind \in {"request", "cast"}
  BY <1>1, Zenon DEF AskTypes
<1>4. /\ serverBox' \in Seq(Items) /\ x \in Items
      /\ \A r : InBox(serverBox, r) <=> InBox(serverBox', r) \/ x.ask = r
  BY <1>2, <1>3, BoxTail, Zenon
<1>5. /\ x.kind \in {"request", "cast"}
      /\ \A i \in DOMAIN serverBox' : serverBox'[i].kind \in {"request", "cast"}
  BY <1>2, <1>3, HeadKinds, Zenon
<1> HIDE DEF x
<1>6. (x.kind = "cast" => x.ask = NoAsk) /\ (x.kind = "request" => x.ask \in Asks)
  BY <1>4, Zenon DEF Items
<1>7. AskTypes'
  BY <1>1, <1>2, <1>4, <1>5, <1>6, Zenon DEF AskTypes
<1>8. Ends'
  BY <1>1, <1>2, <1>5, Zenon DEF Ends
<1>9. ASSUME NEW q \in Asks, config.trouble = "removal"
      PROVE  Kept(q)'
  <2>1. Kept(q) /\ q # NoAsk /\ server.ask = NoAsk
    BY <1>1, <1>2, <1>9, AskAssumption, Zenon DEF AskInv, AskTypes
  <2>2. SentOnce(q)' /\ (Expects(q)' => Expects(q))
    BY <1>2, <2>1, Zenon DEF Kept, SentOnce, Expects
  <2>3. x.ask = q => server'.ask = q
    BY <1>2, <1>5, <1>6, <2>1, Zenon
  <2>4. Placed(q) => Placed(q)'
    BY <1>2, <1>4, <2>1, <2>3, Zenon DEF Placed
  <2> QED
    BY <2>1, <2>2, <2>4, Zenon DEF Kept
<1> QED
  BY <1>2, <1>7, <1>8, <1>9, InvParts, Zenon

\* The handler has its answer, puts it off, or has none.
LEMMA HandlerKeeps ==
    ASSUME AskInv, (\E n \in 1..MaxAnswers : Answers(n)) \/ Defers \/ FailsToAnswer
    PROVE  AskInv'
<1>1. AskTypes /\ Ends
  BY Zenon DEF AskInv
<1>2. DOMAIN server = {"st", "ask", "left"}
  BY <1>1, Zenon DEF AskTypes
<1>3. /\ server.st = "handling"
      /\ UNCHANGED <<config, ask, queue, addrs, serverBox, listed, wire, blocked, accepted, lost>>
      /\ \/ UNCHANGED <<deferred, unanswered>> /\ \E n \in 1..MaxAnswers :
                server' = [server EXCEPT !.st = "replying", !.left = n]
         \/ server' = Idle /\ deferred' = deferred \cup {server.ask} /\ unanswered' = unanswered
         \/ server' = Idle /\ unanswered' = unanswered \cup {server.ask} /\ deferred' = deferred
  <2>1. ASSUME NEW n \in 1..MaxAnswers, Answers(n)
        PROVE  /\ server.st = "handling" /\ server' = [server EXCEPT !.st = "replying", !.left = n]
               /\ UNCHANGED <<config, ask, queue, addrs, serverBox, listed, wire, blocked, accepted, lost,
                              deferred, unanswered>>
    BY <2>1, Zenon DEF Answers, callerVars, netVars, history
  <2>2. CASE Defers
    BY <2>2, Zenon DEF Defers, callerVars, netVars, history
  <2>3. CASE FailsToAnswer
    BY <2>3, Zenon DEF FailsToAnswer, callerVars, netVars
  <2>4. CASE \E n \in 1..MaxAnswers : Answers(n)
    BY <2>1, <2>4, Zenon
  <2> QED
    BY <2>2, <2>3, <2>4, Zenon
<1>4. server.ask \in Asks
  BY <1>1, <1>3, Zenon DEF AskTypes
<1>7. /\ DOMAIN server' = {"st", "ask", "left"}
      /\ \/ server'.st = "replying" /\ server'.ask = server.ask /\ UNCHANGED <<deferred, unanswered>>
         \/ server' = Idle
  <2>1. CASE UNCHANGED <<deferred, unanswered>> /\ \E n \in 1..MaxAnswers :
                server' = [server EXCEPT !.st = "replying", !.left = n]
    <3>1. PICK n \in 1..MaxAnswers : server' = [server EXCEPT !.st = "replying", !.left = n]
      BY <2>1, Zenon
    <3> QED
      BY <1>2, <2>1, <3>1, Zenon
  <2>2. CASE server' = Idle
    BY <2>2, Zenon DEF Idle
  <2> QED
    BY <1>3, <2>1, <2>2, Zenon
<1>8. AskTypes'
  <2>1. /\ server'.st = "idle" => server'.ask = NoAsk
        /\ server'.st \in {"handling", "replying", "blocked"} => server'.ask \in Asks
    BY <1>4, <1>7 DEF Idle
  <2>2. deferred' \subseteq Asks
    BY <1>1, <1>3, <1>4, Zenon DEF AskTypes
  <2> QED
    BY <1>1, <1>3, <1>7, <2>1, <2>2, Zenon DEF AskTypes
<1>5. Ends'
  BY <1>7 DEF Ends, Idle
<1>6. ASSUME NEW q \in Asks, config.trouble = "removal"
      PROVE  Kept(q)'
  <2>1. Kept(q)
    BY <1>6, Zenon DEF AskInv
  <2>2. SentOnce(q)' /\ (Expects(q)' => Expects(q))
    BY <1>3, <2>1, Zenon DEF Kept, SentOnce, Expects
  <2>3. server.ask = q => server'.ask = q \/ q \in deferred' \/ q \in unanswered'
    BY <1>2, <1>3, Zenon
  <2>4. q \in deferred => q \in deferred'
    BY <1>3, Zenon
  <2>7. server.ask = q => Placed(q)' \/ q \in unanswered'
    BY <2>3, Zenon DEF Placed
  <2>5. Placed(q) => Placed(q)' \/ q \in unanswered'
    BY <1>3, <2>3, <2>4, <2>7, Zenon DEF Placed
  <2>6. Expects(q)' => q \notin unanswered'
    BY Zenon DEF Expects
  <2> QED
    BY <2>1, <2>2, <2>5, <2>6, Zenon DEF Kept
<1> QED
  BY <1>3, <1>5, <1>6, <1>8, InvParts, Zenon

\* A reply to ask r has been routed or put, and nothing but r may have lost its
\* place with the server.
LEMMA AnsweredKeeps ==
    ASSUME AskInv, NEW r \in Asks, AskTypes', Ends',
           UNCHANGED <<config, ask, addrs, blocked, accepted, unanswered, lost>>,
           \A q \in Asks : queue[q] # <<>> => queue'[q] # <<>>,
           \A q : Has(wire, q) => Has(wire', q),
           \A q : HasRequest(wire', q) => HasRequest(wire, q),
           \A q : Single(wire, q) => Single(wire', q),
           r \in addrs => queue'[r] # <<>> \/ Has(wire', r),
           \A q \in Asks : q # r => (InBox(serverBox, q) => InBox(serverBox', q))
                                    /\ (server.ask = q => server'.ask = q)
                                    /\ (q \in deferred => q \in deferred')
    PROVE  AskInv'
<1>1. ASSUME NEW q \in Asks, config.trouble = "removal"
      PROVE  Kept(q)'
  <2>1. Kept(q)
    BY <1>1, Zenon DEF AskInv
  <2>2. SentOnce(q)' /\ (Expects(q)' => Expects(q) /\ q \in addrs)
    BY <2>1, Zenon DEF Kept, SentOnce, Expects
  <2>3. CASE q = r
    BY <2>2, <2>3, Zenon DEF Kept, Placed
  <2>4. CASE q # r
    <3>1. Placed(q) => Placed(q)'
      BY <2>4, Zenon DEF Placed
    <3> QED
      BY <2>1, <2>2, <3>1, Zenon DEF Kept
  <2> QED
    BY <2>3, <2>4, Zenon
<1> QED
  BY <1>1, InvParts, Zenon

LEMMA RepliesKeeps ==
    ASSUME AskInv, Replies
    PROVE  AskInv'
<1>1. AskTypes /\ Ends
  BY Zenon DEF AskInv
<1>2. /\ server.st = "replying" /\ server.ask \in Asks
      /\ DOMAIN server = {"st", "ask", "left"}
      /\ UNCHANGED <<config, ask, addrs, serverBox, deferred, listed, blocked, accepted, unanswered, lost>>
  BY <1>1, Zenon DEF AskTypes, Replies, history
<1>3. CASE CanRoute(server.ask)
  <2> DEFINE r == server.ask
  <2>1. RouteReply("reply", r) /\ server' = AfterReply
    BY <1>3, Zenon DEF Replies
  <2>2. /\ DOMAIN server' = {"st", "ask", "left"}
        /\ server'.st \in {"idle", "replying"}
        /\ server'.st = "idle" => server'.ask = NoAsk
        /\ server'.st \in {"handling", "replying", "blocked"} => server'.ask \in Asks
    BY <1>2, <2>1, Zenon DEF AfterReply, Idle
  <2>3. /\ queue' \in [Asks -> Seq({"reply", "error"})]
        /\ wire' \in Wires
        /\ \A q \in Asks : queue[q] # <<>> => queue'[q] # <<>>
        /\ \A q : Has(wire, q) => Has(wire', q)
        /\ \A q : HasRequest(wire', q) => HasRequest(wire, q)
        /\ \A q : Single(wire, q) => Single(wire', q)
        /\ r \in addrs => queue'[r] # <<>> \/ Has(wire', r)
    BY <1>1, <1>2, <1>3, <2>1, Routes, Zenon
  <2>4. AskTypes'
    BY <1>1, <1>2, <2>2, <2>3, Zenon DEF AskTypes
  <2>5. Ends'
    BY <2>2, Zenon DEF Ends
  <2> QED
    BY <1>2, <2>3, <2>4, <2>5, AnsweredKeeps, Zenon
<1>4. CASE ~CanRoute(server.ask)
  <2>1. server' = [server EXCEPT !.st = "blocked"] /\ UNCHANGED <<queue, wire>>
    BY <1>4, Zenon DEF Replies
  <2>2. /\ DOMAIN server' = {"st", "ask", "left"}
        /\ server'.st = "blocked" /\ server'.ask = server.ask
    BY <1>2, <2>1, Zenon
  <2>3. AskTypes'
    BY <1>1, <1>2, <2>1, <2>2, Zenon DEF AskTypes
  <2>4. Ends'
    BY <2>2, Zenon DEF Ends
  <2>5. ASSUME NEW q \in Asks, config.trouble = "removal"
        PROVE  Kept(q)'
    <3>1. Kept(q)
      BY <2>5 DEF AskInv
    <3> QED
      BY <1>2, <2>1, <2>2, <3>1, Zenon DEF Kept, SentOnce, Expects, Placed
  <2> QED
    BY <1>2, <2>3, <2>4, <2>5, InvParts, Zenon
<1> QED
  BY <1>3, <1>4, Zenon

LEMMA ServerPutsKeeps ==
    ASSUME AskInv, ServerPuts
    PROVE  AskInv'
<1> DEFINE r == server.ask
           v == <<"reply">>
<1>1. AskTypes /\ Ends
  BY DEF AskInv
<1>2. /\ server.st = "blocked" /\ r \in Asks
      /\ DOMAIN server = {"st", "ask", "left"}
      /\ queue' = [queue EXCEPT ![r] = v]
      /\ server' = IF server.left = 1 THEN Idle ELSE [server EXCEPT !.st = "replying", !.left = @ - 1]
      /\ UNCHANGED <<config, ask, addrs, serverBox, deferred, listed, wire, blocked, accepted, unanswered,
                     lost>>
  BY <1>1, Zenon DEF AskTypes, ServerPuts, netVars, history
<1>3. /\ DOMAIN server' = {"st", "ask", "left"}
      /\ server'.st \in {"idle", "replying"}
      /\ server'.st = "idle" => server'.ask = NoAsk
      /\ server'.st \in {"handling", "replying", "blocked"} => server'.ask \in Asks
  <2>1. CASE server.left = 1
    BY <1>2, <2>1, Zenon DEF Idle
  <2>2. CASE server.left # 1
    <3>1. server' = [server EXCEPT !.st = "replying", !.left = @ - 1]
      BY <1>2, <2>2, Zenon
    <3> QED
      BY <1>2, <3>1, Zenon
  <2> QED
    BY <2>1, <2>2, Zenon
<1>4. v \in Seq({"reply", "error"}) /\ v # <<>>
  OBVIOUS
<1> HIDE DEF v
<1>5. queue \in [Asks -> Seq({"reply", "error"})]
  BY <1>1, Zenon DEF AskTypes
<1>6. queue' \in [Asks -> Seq({"reply", "error"})]
  BY <1>2, <1>4, <1>5, Zenon
<1>7. (\A q \in Asks : queue[q] # <<>> => queue'[q] # <<>>) /\ queue'[r] # <<>>
  BY <1>2, <1>4, <1>5, Zenon
<1>8. AskTypes'
  BY <1>1, <1>2, <1>3, <1>6, Zenon DEF AskTypes
<1>9. Ends'
  BY <1>3 DEF Ends
<1>10. UNCHANGED <<config, ask, addrs, serverBox, deferred, wire, blocked, accepted, unanswered, lost>>
  BY <1>2, Zenon
<1> QED
  BY <1>2, <1>7, <1>8, <1>9, <1>10, AnsweredKeeps, Zenon

LEMMA RepliesLaterKeeps ==
    ASSUME AskInv, NEW r \in Asks, RepliesLater(r)
    PROVE  AskInv'
<1>1. AskTypes /\ Ends
  BY DEF AskInv
<1>2. /\ r \in deferred /\ CanRoute(r) /\ deferred' = deferred \ {r} /\ RouteReply("reply", r)
      /\ UNCHANGED <<config, ask, addrs, serverBox, server, listed, blocked, accepted, unanswered, lost>>
  BY Zenon DEF RepliesLater, history
<1>3. /\ queue' \in [Asks -> Seq({"reply", "error"})]
      /\ wire' \in Wires
      /\ \A q \in Asks : queue[q] # <<>> => queue'[q] # <<>>
      /\ \A q : Has(wire, q) => Has(wire', q)
      /\ \A q : HasRequest(wire', q) => HasRequest(wire, q)
      /\ \A q : Single(wire, q) => Single(wire', q)
      /\ r \in addrs => queue'[r] # <<>> \/ Has(wire', r)
  BY <1>1, <1>2, Routes, Zenon
<1>4. AskTypes'
  BY <1>1, <1>2, <1>3, Zenon DEF AskTypes
<1>5. Ends'
  BY <1>1, <1>2, Zenon DEF Ends
<1> QED
  BY <1>2, <1>3, <1>4, <1>5, AnsweredKeeps, Zenon

\* The server is torn down or despawned: what it was about to answer is given up.
LEMMA RemovedKeeps ==
    ASSUME AskInv, TearDown \/ Despawn
    PROVE  AskInv'
<1>1. AskTypes /\ Ends
  BY Zenon DEF AskInv
<1>2. /\ config.trouble = "removal" /\ listed' = FALSE /\ deferred' = {}
      /\ unanswered' = unanswered \cup ({server.ask} \ {NoAsk}) \cup deferred
      /\ UNCHANGED <<config, ask, queue, addrs, serverBox, wire, blocked, accepted, lost>>
  BY Zenon DEF TearDown, Despawn, callerVars, netVars
<1>3. /\ DOMAIN server' = {"st", "ask", "left"}
      /\ server'.st \in {"draining", "despawned"} /\ server'.ask = NoAsk
  BY Zenon DEF TearDown, Despawn, Idle
<1>4. AskTypes'
  BY <1>1, <1>2, <1>3, Zenon DEF AskTypes
<1>5. Ends'
  BY <1>2, <1>3, Zenon DEF Ends
<1>6. ASSUME NEW q \in Asks
      PROVE  Kept(q)'
  <2>1. Kept(q) /\ q # NoAsk
    BY <1>2, AskAssumption, Zenon DEF AskInv
  <2>2. SentOnce(q)'
    BY <1>2, <2>1, Zenon DEF Kept, SentOnce
  <2>3. Expects(q)' => Expects(q) /\ server.ask # q /\ q \notin deferred
    BY <1>2, <2>1, Zenon DEF Expects
  <2>4. Placed(q) /\ server.ask # q /\ q \notin deferred => Placed(q)'
    BY <1>2, Zenon DEF Placed
  <2> QED
    BY <2>1, <2>2, <2>3, <2>4, Zenon DEF Kept
<1> QED
  BY <1>2, <1>4, <1>5, <1>6, InvParts, Zenon

\* teardown_agent() drains the mailbox.
LEMMA DrainKeeps ==
    ASSUME AskInv, Drain
    PROVE  AskInv'
<1>1. AskTypes /\ Ends
  BY DEF AskInv
<1>2. /\ server.st = "draining" /\ config.trouble = "removal" /\ ~listed /\ server.ask = NoAsk
      /\ deferred = {}
      /\ UNCHANGED <<config, ask, addrs, deferred, listed, blocked, accepted, unanswered, lost>>
  BY <1>1, Zenon DEF Ends, Drain, history
<1>3. CASE serverBox = <<>>
  <2>1. server' = [Idle EXCEPT !.st = "gone"] /\ UNCHANGED <<serverBox, queue, wire>>
    BY <1>3, Zenon DEF Drain
  <2>2. /\ DOMAIN server' = {"st", "ask", "left"}
        /\ server'.st = "gone" /\ server'.ask = NoAsk
    BY <2>1, Zenon DEF Idle
  <2>3. AskTypes'
    BY <1>1, <1>2, <2>1, <2>2, Zenon DEF AskTypes
  <2>4. Ends'
    <3>1. \A r : ~InBox(serverBox', r)
      BY <1>3, <2>1 DEF InBox
    <3> QED
      BY <1>2, <2>2, <3>1, Zenon DEF Ends
  <2>5. ASSUME NEW q \in Asks
        PROVE  Kept(q)'
    <3>1. Kept(q)
      BY <1>2, Zenon DEF AskInv
    <3> QED
      BY <1>2, <2>1, <2>2, <3>1, Zenon DEF Kept, SentOnce, Expects, Placed
  <2> QED
    BY <1>2, <2>3, <2>4, <2>5, InvParts, Zenon
<1>4. CASE serverBox # <<>>
  <2> DEFINE x == Head(serverBox)
  <2>1. /\ serverBox' = Tail(serverBox) /\ server' = server
        /\ IF x.kind = "cast" THEN UNCHANGED <<queue, wire>>
           ELSE CanRoute(x.ask) /\ RouteReply("error", x.ask)
    BY <1>4, Zenon DEF Drain
  <2>2. serverBox \in Seq(Items) /\ \A i \in DOMAIN serverBox : serverBox[i].kind \in {"request", "cast"}
    BY <1>1, Zenon DEF AskTypes
  <2>3. /\ serverBox' \in Seq(Items) /\ x \in Items
        /\ \A r : InBox(serverBox, r) <=> InBox(serverBox', r) \/ x.ask = r
    BY <1>4, <2>1, <2>2, BoxTail, Zenon
  <2>4. /\ x.kind \in {"request", "cast"}
        /\ \A i \in DOMAIN serverBox' : serverBox'[i].kind \in {"request", "cast"}
    BY <1>4, <2>1, <2>2, HeadKinds, Zenon
  <2> HIDE DEF x
  <2>5. Ends'
    BY <1>1, <1>2, <2>1, Zenon DEF Ends
  <2>6. CASE x.kind = "cast"
    <3>1. UNCHANGED <<queue, wire>> /\ x.ask = NoAsk
      BY <2>1, <2>3, <2>6, Zenon DEF Items
    <3>2. AskTypes'
      BY <1>1, <1>2, <2>1, <2>3, <2>4, <3>1, Zenon DEF AskTypes
    <3>3. ASSUME NEW q \in Asks
          PROVE  Kept(q)'
      <4>1. Kept(q) /\ q # x.ask
        BY <1>2, <3>1, AskAssumption, Zenon DEF AskInv
      <4>2. SentOnce(q)' /\ (Expects(q)' => Expects(q))
        BY <1>2, <3>1, <4>1, Zenon DEF Kept, SentOnce, Expects
      <4>3. Placed(q) => Placed(q)'
        BY <1>2, <2>1, <2>3, <3>1, <4>1, Zenon DEF Placed
      <4> QED
        BY <4>1, <4>2, <4>3, Zenon DEF Kept
    <3> QED
      BY <1>2, <2>5, <3>2, <3>3, InvParts, Zenon
  <2>7. CASE x.kind = "request"
    <3>1. x.ask \in Asks /\ CanRoute(x.ask) /\ RouteReply("error", x.ask)
      BY <2>1, <2>3, <2>7, Zenon DEF Items
    <3>2. /\ queue' \in [Asks -> Seq({"reply", "error"})]
          /\ wire' \in Wires
          /\ \A q \in Asks : queue[q] # <<>> => queue'[q] # <<>>
          /\ \A q : Has(wire, q) => Has(wire', q)
          /\ \A q : HasRequest(wire', q) => HasRequest(wire, q)
          /\ \A q : Single(wire, q) => Single(wire', q)
          /\ x.ask \in addrs => queue'[x.ask] # <<>> \/ Has(wire', x.ask)
      BY <1>1, <3>1, Routes, Zenon
    <3>3. AskTypes'
      BY <1>1, <1>2, <2>1, <2>3, <2>4, <3>2, Zenon DEF AskTypes
    <3> QED
      <4> DEFINE r == x.ask
      <4>1. /\ r \in Asks
            /\ r \in addrs => queue'[r] # <<>> \/ Has(wire', r)
            /\ \A q \in Asks : q # r => (InBox(serverBox, q) => InBox(serverBox', q))
                                       /\ (server.ask = q => server'.ask = q)
                                       /\ (q \in deferred => q \in deferred')
        BY <1>2, <2>1, <2>3, <3>1, <3>2, Zenon
      <4> HIDE DEF r
      <4>2. UNCHANGED <<config, ask, addrs, blocked, accepted, unanswered, lost>>
        BY <1>2, Zenon
      <4> QED
        BY <2>5, <3>2, <3>3, <4>1, <4>2, AnsweredKeeps, Zenon
  <2> QED
    BY <2>4, <2>6, <2>7, Zenon
<1> QED
  BY <1>3, <1>4, Zenon

\* JetStream delivers a request again, in a behaviour without removal.
LEMMA DeliverTwiceKeeps ==
    ASSUME AskInv, NEW n \in DOMAIN wire[Home], DeliverTwice(n)
    PROVE  AskInv'
<1>1. AskTypes /\ Ends /\ config.trouble # "removal"
  BY Zenon DEF AskInv, DeliverTwice
<1>2. /\ wire' = Sent(wire, Home, wire[Home][n])
      /\ UNCHANGED <<config, ask, queue, addrs, serverBox, server, deferred, listed, blocked, accepted,
                     unanswered, lost>>
  BY Zenon DEF DeliverTwice, Publish, Sent, callerVars, serverVars
<1>3. wire \in Wires /\ wire[Home][n] \in Items
  <2>1. wire \in Wires /\ wire[Home] \in Seq(Items)
    BY <1>1, HomeIs, Zenon DEF AskTypes, Wires
  <2> QED
    BY <2>1
<1>4. wire' \in Wires
  <2> DEFINE x == wire[Home][n]
             p == Home
  <2>1. wire' = Sent(wire, p, x) /\ x \in Items /\ p \in Processes
    BY <1>2, <1>3, HomeIs, Zenon
  <2> HIDE DEF x, p
  <2> QED
    BY <1>3, <2>1, WireAppend, Zenon
<1>5. AskTypes'
  BY <1>1, <1>2, <1>4, Zenon DEF AskTypes
<1>6. Ends'
  BY <1>1, <1>2, Zenon DEF Ends
<1> QED
  BY <1>1, <1>2, <1>5, <1>6, InvParts, Zenon

LEMMA AskInvInit == AskInit => AskInv
<1> SUFFICES ASSUME AskInit PROVE AskInv
  BY Zenon
<1>1. AskTypes
  <2>1. wire \in Wires
    BY DEF AskInit, Wires
  <2> QED
    BY <2>1 DEF AskInit, AskTypes, Idle, Done
<1>2. Ends
  BY Zenon DEF AskInit, Ends, Idle
<1>3. \A r \in Asks : Kept(r)
  <2>1. \A p \in Processes : DOMAIN wire[p] = {}
    BY DEF AskInit
  <2> QED
    BY <2>1, Zenon DEF AskInit, Kept, SentOnce, Expects, HasRequest, Single
<1> QED
  BY <1>1, <1>2, <1>3, Zenon DEF AskInv

\* Every step keeps the invariant.
LEMMA AskInvStep == AskInv /\ [AskNext]_askVars => AskInv'
<1> SUFFICES ASSUME AskInv, [AskNext]_askVars PROVE AskInv'
  BY Zenon
<1>1. ASSUME NEW r \in Asks, AskProceeds(r) \/ RepliesLater(r)
      PROVE  AskInv'
  BY <1>1, PutRequestKeeps, GetReplyKeeps, TimeOutKeeps, RepliesLaterKeeps, Zenon DEF AskProceeds
<1>2. CASE CallerProceeds \/ Suspend
  BY <1>2, BooksKept DEF CallerProceeds, CallerTakes, CallerReturns, Suspend, books, callerVars, serverVars,
                         netVars, history
<1>3. CASE ServerProceeds
  BY <1>3, ServerTakesKeeps, HandlerKeeps, RepliesKeeps, ServerPutsKeeps, DrainKeeps, Zenon DEF ServerProceeds
<1>4. ASSUME NEW p \in Processes, Receives(p)
      PROVE  AskInv'
  BY <1>4, ReceiverPutsKeeps, ReceiveLoadKeeps, ReceiveForServerKeeps, ReceiveReplyKeeps, Zenon DEF Receives
<1>5. CASE SendToCaller \/ CastToServer \/ Resume
  BY <1>5, SendToCallerKeeps, CastToServerKeeps, ResumeKeeps, Zenon
<1>6. ASSUME NEW r \in Asks, NEW failFast \in BOOLEAN, AskInHandler(r, failFast) \/ AskBeside(r, failFast)
      PROVE  AskInv'
  BY <1>6, StartAskKeeps, Zenon DEF AskInHandler, AskBeside
<1>7. CASE TearDown \/ Despawn
  BY <1>7, RemovedKeeps, Zenon
<1>8. ASSUME NEW p \in Processes, NEW i \in DOMAIN wire[p], Lose(p, i)
      PROVE  AskInv'
  BY <1>8, ReceiveLoadKeeps, Zenon
<1>9. ASSUME NEW i \in DOMAIN wire[Home], DeliverTwice(i)
      PROVE  AskInv'
  BY <1>9, DeliverTwiceKeeps, Zenon
<1>10. CASE UNCHANGED askVars
  BY <1>10, BooksKept, Zenon DEF askVars, books, callerVars, serverVars, netVars, history
<1>11. InHandler \subseteq Asks /\ Beside \subseteq Asks
  BY Zenon DEF Asks
<1> QED
  BY <1>1, <1>2, <1>3, <1>4, <1>5, <1>6, <1>7, <1>8, <1>9, <1>10, <1>11, Zenon DEF AskNext

LEMMA InvTells == AskInv => TornDownTold
<1> SUFFICES ASSUME AskInv, server.st = "gone", NEW r \in accepted \ (unanswered \cup lost),
                    ask[r] \in {"sending", "waiting"}
             PROVE  queue[r] # <<>> \/ OnWire(r) \/ \E p \in Processes : blocked[p] = r
  BY Zenon DEF TornDownTold
<1>1. /\ config.trouble = "removal" /\ server.ask = NoAsk /\ deferred = {} /\ ~InBox(serverBox, r)
      /\ r \in Asks
  BY Zenon DEF AskInv, Ends, AskTypes
<1>2. Expects(r) /\ Kept(r)
  BY <1>1, Zenon DEF AskInv, Expects
<1>3. r # NoAsk
  BY <1>1, AskAssumption, Zenon
<1> QED
  BY <1>1, <1>2, <1>3, Zenon DEF Kept, Placed, Has, OnWire

\* For any number of asks, answers and other messages, any capacity and any
\* transport: when teardown_agent() has returned, every ask whose request the
\* server had accepted is answered or its answer is under way.
THEOREM NobodyLeftBehind == AskSpec => []TornDownTold
<1>1. AskInit /\ [][AskNext]_askVars => []AskInv
  BY AskInvInit, AskInvStep, PTL
<1> QED
  BY <1>1, InvTells, PTL DEF AskSpec
=============================================================================
