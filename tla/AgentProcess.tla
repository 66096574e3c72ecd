---------------------------- MODULE AgentProcess ----------------------------
(***************************************************************************)
(* One agent name of the runtime (civitas/process.py): the run task of its *)
(* current incarnation (restore, on_start, message loop, teardown),        *)
(* durable suspension, the in-place retry of _dispatch, _stop() with its   *)
(* timeout, and the restart by a supervisor that carries the mailbox over. *)
(*                                                                         *)
(* asyncio runs the code between two awaits without interruption, so an    *)
(* action below is one such stretch of the task, up to and including the   *)
(* boundary test at the head of the loop (AtTop).  Everything another task *)
(* may do meanwhile is an action of its own: sending, calling suspend() or *)
(* resume() directly on the object, calling _stop(), restarting.           *)
(*                                                                         *)
(* A mailbox wait is the guard of Receive: the Mailbox module shows that   *)
(* get() and get_priority() are never left waiting beside a message.       *)
(***************************************************************************)
EXTENDS Integers, Sequences

CONSTANTS
    Controls,         \* the priority messages other processes send
    DirectCalls,      \* which of suspend() and resume() other tasks call
    MaxRetries,       \* max_retries
    StopTimesOut,     \* may shutdown_timeout pass before the task ends?
    StoreFails,       \* may a StateStore call raise?
    MaxBusiness,      \* bound: business messages sent
    MaxControls,      \* bound: priority messages, direct calls and stops
    MaxIncarnations   \* bound: incarnations of the agent

ControlKinds == {"suspend", "resume", "force_restart", "heartbeat", "halt", "urgent"}

ASSUME AgentAssumption ==
    /\ Controls \subseteq ControlKinds
    /\ DirectCalls \subseteq {"suspend", "resume"}
    /\ MaxRetries \in Nat
    /\ StopTimesOut \in BOOLEAN
    /\ StoreFails \in BOOLEAN
    /\ MaxBusiness \in Nat
    /\ MaxControls \in Nat
    /\ MaxIncarnations \in Nat \ {0}

VARIABLES
    status,       \* _status
    marker,       \* is the suspend marker in self.state?
    requested,    \* _suspend_requested
    pc,           \* where the run task is waiting
    exit,         \* how the task is ending: returning, raising, cancelled
    attempt,      \* message.attempt of the message being dispatched
    prioQ,        \* priority queue of the mailbox: [kind, to] in FIFO order
    normQ,        \* normal queue: business messages, numbered as sent
    stored,       \* is the marker in the agent's checkpoint?
    pending,      \* store writes handed to the store and not yet done
    stopper,      \* the caller of _stop()
    incarnation,  \* how many times the agent has been started
    handled,      \* history: business messages in the order dispatched
    degraded,     \* history: a marker write failed or was abandoned
    called,       \* history: which of suspend() and resume() others have called
    business,     \* bound counter: business messages sent
    controls      \* bound counter: priority messages, direct calls, stops

agentVars == <<status, marker, requested>>
taskVars  == <<pc, exit, attempt>>
mailVars  == <<prioQ, normQ>>
storeVars == <<stored, pending, degraded>>
envVars   == <<stopper, incarnation>>
counters  == <<business, controls, called>>
vars == <<agentVars, taskVars, mailVars, storeVars, envVars, handled, counters>>

Statuses == {"INITIALIZING", "RUNNING", "SUSPENDED", "STOPPING", "STOPPED", "CRASHED"}

\* Where the task waits.  "enter" is on_suspend() of _enter_suspended(), "mark"
\* its checkpoint; "save" is the checkpoint of resume() and of
\* _update_suspend_reason(); "unwind" is _interrupt_out_streams() and "teardown"
\* on_stop(), both in the loop's finally block.
LoopPcs == {"enter", "mark", "save", "get", "get_priority", "handle"}
Pcs     == LoopPcs \cup {"restore", "on_start", "unwind", "teardown", "done"}

Writers == {"loop", "caller", "nobody"}

TaskLive == pc # "done"

-----------------------------------------------------------------------------
(* The head of the message loop, reached with status st, marker mk and     *)
(* request rq: leave the loop, begin _enter_suspended(), or wait for the   *)
(* next message.                                                           *)

\* Mutant: a suspended agent waits like a running one.
ParkAtAlwaysGet(st) == "get"

ParkAt(st) == IF st = "SUSPENDED" THEN "get_priority" ELSE "get"

AtTop(st, mk, rq) ==
    \/ /\ st \notin {"RUNNING", "SUSPENDED"}
       /\ status' = st /\ marker' = mk /\ requested' = rq
       /\ pc' = "unwind" /\ exit' = "returns"
    \/ /\ st = "RUNNING" /\ rq
       /\ status' = "SUSPENDED" /\ marker' = TRUE /\ requested' = rq
       /\ pc' = "enter" /\ UNCHANGED exit
    \/ /\ st = "SUSPENDED" \/ (st = "RUNNING" /\ ~rq)
       /\ status' = st /\ marker' = mk /\ requested' = FALSE
       /\ pc' = ParkAt(st) /\ UNCHANGED exit

\* An exception leaves the loop with the agent in status st.
Raise(st) ==
    /\ status' = st /\ pc' = "unwind" /\ exit' = "raises"
    /\ UNCHANGED <<marker, requested>>

\* checkpoint() hands the state with marker mk to the store.
Checkpoint(who, mk) ==
    /\ pending' = pending \cup {[by |-> who, mark |-> mk]}
    /\ UNCHANGED <<stored, degraded>>

Writing(who) == \E w \in pending : w.by = who

-----------------------------------------------------------------------------
(* The run task: _run() and _message_loop().                               *)

\* _restore_state(): the checkpoint replaces the empty state of a new
\* incarnation.
RestoreState ==
    /\ pc = "restore"
    /\ marker' = stored
    /\ pc' = "on_start"
    /\ UNCHANGED <<status, requested, exit, attempt, mailVars, storeVars, envVars, handled, counters>>

\* The store raises: the task ends without touching the status.
RestoreFails ==
    /\ StoreFails
    /\ pc = "restore"
    /\ pc' = "done" /\ exit' = "raises"
    /\ UNCHANGED <<agentVars, attempt, mailVars, storeVars, envVars, handled, counters>>

\* on_start() returns: the loop begins in the status the marker says.
OnStart ==
    /\ pc = "on_start"
    /\ AtTop(IF marker THEN "SUSPENDED" ELSE "RUNNING", marker, requested)
    /\ UNCHANGED <<attempt, mailVars, storeVars, envVars, handled, counters>>

\* on_start() raises: CRASHED, on_stop() is called, the exception ends the task.
OnStartFails ==
    /\ pc = "on_start"
    /\ status' = "CRASHED" /\ pc' = "done" /\ exit' = "raises"
    /\ UNCHANGED <<marker, requested, attempt, mailVars, storeVars, envVars, handled, counters>>

\* Mutant: the marker is not saved when a suspension is entered.
OnSuspendUnsaved ==
    /\ pc = "enter"
    /\ pc' = "mark"
    /\ UNCHANGED <<agentVars, exit, attempt, mailVars, storeVars, envVars, handled, counters>>

\* on_suspend() is over: the state is saved as it is now.
OnSuspend ==
    /\ pc = "enter"
    /\ Checkpoint("loop", marker)
    /\ pc' = "mark"
    /\ UNCHANGED <<agentVars, exit, attempt, mailVars, envVars, handled, counters>>

\* _enter_suspended() returns: the request is consumed and the loop waits for
\* the status it finds.
EnterSuspendedEnds ==
    /\ pc = "mark"
    /\ ~Writing("loop")
    /\ requested' = FALSE
    /\ pc' = ParkAt(status)
    /\ UNCHANGED <<status, marker, exit, attempt, mailVars, storeVars, envVars, handled, counters>>

\* The checkpoint of resume() or _update_suspend_reason() is over.
SaveEnds ==
    /\ pc = "save"
    /\ ~Writing("loop")
    /\ AtTop(status, marker, requested)
    /\ UNCHANGED <<attempt, mailVars, storeVars, envVars, handled, counters>>

-----------------------------------------------------------------------------
(* Receiving: the branches of the loop body on message.type.               *)

\* _agency.shutdown and civitas.eval.halt break out of the loop.
OnShutdown ==
    /\ pc' = "unwind" /\ exit' = "returns"
    /\ UNCHANGED <<agentVars, attempt, storeVars, handled>>

\* The heartbeat is acknowledged, or on_child_terminated() is called for a
\* civitas.dynamic.terminated; an exception of either leaves the loop.
OnHeartbeat ==
    /\ AtTop(status, marker, requested) \/ Raise(status)
    /\ UNCHANGED <<attempt, storeVars, handled>>

OnSuspendMessage ==
    \/ /\ status = "SUSPENDED" /\ marker
       /\ Checkpoint("loop", marker)
       /\ pc' = "save"
       /\ UNCHANGED <<agentVars, exit, attempt, handled>>
    \/ /\ status # "SUSPENDED"
       /\ AtTop(status, marker, TRUE)
       /\ UNCHANGED <<attempt, storeVars, handled>>

\* resume() called by the loop for an _agency.resume message.
OnResumeMessage ==
    \/ /\ status = "SUSPENDED"
       /\ status' = "RUNNING" /\ marker' = FALSE /\ requested' = FALSE
       /\ Checkpoint("loop", FALSE)
       /\ pc' = "save"
       /\ UNCHANGED <<exit, attempt, handled>>
    \/ /\ status # "SUSPENDED"
       /\ AtTop(status, marker, FALSE)
       /\ UNCHANGED <<attempt, storeVars, handled>>

OnForceRestart ==
    /\ Raise("CRASHED")
    /\ UNCHANGED <<attempt, storeVars, handled>>

\* Any other priority message is dispatched to handle(), suspended or not.
OnUrgent ==
    /\ pc' = "handle" /\ attempt' = 0
    /\ UNCHANGED <<agentVars, exit, storeVars, handled>>

OnPriority(kind) ==
    \/ kind \in {"shutdown", "halt"} /\ OnShutdown
    \/ kind = "heartbeat" /\ OnHeartbeat
    \/ kind = "suspend" /\ OnSuspendMessage
    \/ kind = "resume" /\ OnResumeMessage
    \/ kind = "force_restart" /\ OnForceRestart
    \/ kind = "urgent" /\ OnUrgent

\* Mutant: a suspended agent reads no messages at all.
ReceivePriorityUnlessSuspended ==
    /\ pc = "get"
    /\ prioQ # << >>
    /\ prioQ' = Tail(prioQ)
    /\ OnPriority(Head(prioQ).kind)
    /\ UNCHANGED <<normQ, envVars, counters>>

\* get() and get_priority() both return a priority message when there is one.
ReceivePriority ==
    /\ pc \in {"get", "get_priority"}
    /\ prioQ # << >>
    /\ prioQ' = Tail(prioQ)
    /\ OnPriority(Head(prioQ).kind)
    /\ UNCHANGED <<normQ, envVars, counters>>

\* Only get() returns a business message, when no priority message waits.
ReceiveBusiness ==
    /\ pc = "get"
    /\ prioQ = << >>
    /\ normQ # << >>
    /\ normQ' = Tail(normQ)
    /\ handled' = Append(handled, Head(normQ))
    /\ pc' = "handle" /\ attempt' = 0
    /\ UNCHANGED <<agentVars, exit, prioQ, storeVars, envVars, counters>>

-----------------------------------------------------------------------------
(* _dispatch(): handle() returns, or raises and on_error() rules.          *)

HandleReturns ==
    /\ pc = "handle"
    /\ AtTop(status, marker, requested)
    /\ UNCHANGED <<attempt, mailVars, storeVars, envVars, handled, counters>>

\* SKIP drops the message; STOP asks the loop to end.
HandleSkips ==
    /\ pc = "handle"
    /\ \E st \in {status, "STOPPING"} : AtTop(st, marker, requested)
    /\ UNCHANGED <<attempt, mailVars, storeVars, envVars, handled, counters>>

\* ESCALATE, or an exception out of on_error() itself.
HandleEscalates ==
    /\ pc = "handle"
    /\ \E st \in {"CRASHED", status} : Raise(st)
    /\ UNCHANGED <<attempt, mailVars, storeVars, envVars, handled, counters>>

\* Mutant: RETRY puts the message back into the mailbox.
RetryInPlaceRequeues ==
    /\ attempt' = attempt + 1
    /\ \/ attempt' > MaxRetries /\ Raise("CRASHED") /\ UNCHANGED normQ
       \/ /\ attempt' <= MaxRetries /\ handled # << >>
          /\ AtTop(status, marker, requested)
          /\ normQ' = Append(normQ, handled[Len(handled)])
    /\ UNCHANGED <<prioQ, handled>>

\* RETRY runs handle() again at once with the same message, crashes past
\* max_retries, and drops the message if the agent is no longer RUNNING.
RetryInPlace ==
    /\ attempt' = attempt + 1
    /\ \/ attempt' > MaxRetries /\ Raise("CRASHED")
       \/ /\ attempt' <= MaxRetries /\ status # "RUNNING"
          /\ AtTop(status, marker, requested)
       \/ /\ attempt' <= MaxRetries /\ status = "RUNNING"
          /\ UNCHANGED <<agentVars, pc, exit>>
    /\ UNCHANGED <<mailVars, handled>>

HandleRetries ==
    /\ pc = "handle"
    /\ RetryInPlace
    /\ UNCHANGED <<storeVars, envVars, counters>>

-----------------------------------------------------------------------------
(* The finally block of _message_loop().                                   *)

Unwind ==
    /\ pc = "unwind"
    /\ status' = IF status = "CRASHED" THEN "CRASHED" ELSE "STOPPING"
    /\ pc' = "teardown"
    /\ UNCHANGED <<marker, requested, exit, attempt, mailVars, storeVars, envVars, handled, counters>>

Teardown ==
    /\ pc = "teardown"
    /\ status' = IF status = "CRASHED" THEN "CRASHED" ELSE "STOPPED"
    /\ pc' = "done"
    /\ UNCHANGED <<marker, requested, exit, attempt, mailVars, storeVars, envVars, handled, counters>>

-----------------------------------------------------------------------------
(* The store.  SQLiteStateStore runs each write in a thread of its own, so *)
(* two writes under way may be applied in either order.                    *)

WriteLands ==
    /\ \E w \in pending : stored' = w.mark /\ pending' = pending \ {w}
    /\ UNCHANGED <<agentVars, taskVars, mailVars, degraded, envVars, handled, counters>>

\* A failed marker write is logged and tolerated ("durability degraded").
WriteFails ==
    /\ StoreFails
    /\ \E w \in pending : pending' = pending \ {w}
    /\ degraded' = TRUE
    /\ UNCHANGED <<agentVars, taskVars, mailVars, stored, envVars, handled, counters>>

-----------------------------------------------------------------------------
(* Other tasks.                                                            *)

\* receive(): a business message enters the normal queue, whatever the status.
SendBusiness ==
    /\ business < MaxBusiness
    /\ business' = business + 1
    /\ normQ' = Append(normQ, business')
    /\ UNCHANGED <<agentVars, taskVars, prioQ, storeVars, envVars, handled, controls, called>>

\* Runtime.suspend(), resume(), restart_agent(), a supervisor's heartbeat, an
\* EvalAgent's halt, or an application message of positive priority.
SendControl ==
    /\ controls < MaxControls
    /\ controls' = controls + 1
    /\ \E k \in Controls : prioQ' = Append(prioQ, [kind |-> k, to |-> incarnation])
    /\ UNCHANGED <<agentVars, taskVars, normQ, storeVars, envVars, handled, business, called>>

\* suspend() called on the object by another task, or by the agent's own
\* handle().
SuspendCall ==
    /\ "suspend" \in DirectCalls /\ controls < MaxControls
    /\ controls' = controls + 1 /\ called' = called \cup {"suspend"}
    /\ requested' = TRUE
    /\ UNCHANGED <<status, marker, taskVars, mailVars, storeVars, envVars, handled, business>>

\* resume() called on the object by another task.
ResumeCall ==
    /\ "resume" \in DirectCalls /\ controls < MaxControls /\ ~Writing("caller")
    /\ controls' = controls + 1 /\ called' = called \cup {"resume"}
    /\ requested' = FALSE
    /\ \/ /\ status = "SUSPENDED"
          /\ status' = "RUNNING" /\ marker' = FALSE
          /\ Checkpoint("caller", FALSE)
       \/ /\ status # "SUSPENDED"
          /\ UNCHANGED <<status, marker, storeVars>>
    /\ UNCHANGED <<taskVars, mailVars, envVars, handled, business>>

\* _stop(), called by a supervisor or the runtime: a shutdown message for the
\* incarnation it means to stop, then a wait for the task.
StopCall ==
    /\ stopper = "idle" /\ controls < MaxControls
    /\ controls' = controls + 1
    /\ status \in {"RUNNING", "INITIALIZING", "SUSPENDED"}
    /\ prioQ' = Append(prioQ, [kind |-> "shutdown", to |-> incarnation])
    /\ stopper' = IF TaskLive THEN "waiting" ELSE "idle"
    /\ UNCHANGED <<agentVars, taskVars, normQ, storeVars, incarnation, handled, business, called>>

\* The write a cancelled task was waiting for goes on without it.
Abandoned ==
    {IF w.by = "loop" THEN [w EXCEPT !.by = "nobody"] ELSE w : w \in pending}

\* shutdown_timeout passes: the task is cancelled where it waits.  Outside the
\* loop, and in its finally block, the cancellation ends the task at once.
StopTimeout ==
    /\ StopTimesOut
    /\ stopper = "waiting" /\ TaskLive
    /\ stopper' = "cancelled"
    /\ exit' = "cancelled"
    /\ pc' = IF pc \in LoopPcs THEN "unwind" ELSE "done"
    /\ pending' = Abandoned
    /\ degraded' = (degraded \/ Writing("loop"))
    /\ UNCHANGED <<agentVars, attempt, mailVars, stored, incarnation, handled, counters>>

StopReturns ==
    /\ stopper # "idle" /\ ~TaskLive
    /\ stopper' = "idle"
    /\ UNCHANGED <<agentVars, taskVars, mailVars, storeVars, incarnation, handled, counters>>

-----------------------------------------------------------------------------
(* A supervisor starts the agent again: _restart_agent_child() builds a    *)
(* fresh object and _transfer_mailbox() carries the queued messages over,  *)
(* in order; start() of a restarted subtree uses the same object again.    *)

Carried(q) == q

StartAgain ==
    /\ ~TaskLive /\ stopper = "idle"
    /\ incarnation < MaxIncarnations
    /\ incarnation' = incarnation + 1
    /\ status' = "INITIALIZING" /\ marker' = FALSE /\ pc' = "restore" /\ exit' = "none"
    /\ attempt' = 0
    /\ requested' \in {FALSE, requested}
    /\ prioQ' = Carried(prioQ) /\ normQ' = Carried(normQ)
    /\ UNCHANGED <<storeVars, stopper, handled, counters>>

-----------------------------------------------------------------------------
Init ==
    /\ status = "INITIALIZING" /\ marker = FALSE /\ requested = FALSE
    /\ pc = "restore" /\ exit = "none" /\ attempt = 0
    /\ prioQ = << >> /\ normQ = << >>
    /\ stored = FALSE /\ pending = {} /\ degraded = FALSE
    /\ stopper = "idle" /\ incarnation = 1
    /\ handled = << >>
    /\ business = 0 /\ controls = 0 /\ called = {}

\* What the run task does when scheduled; on_start() and handle() end somehow.
LoopStep ==
    \/ RestoreState \/ RestoreFails
    \/ OnStart \/ OnStartFails
    \/ OnSuspend \/ EnterSuspendedEnds \/ SaveEnds
    \/ ReceivePriority \/ ReceiveBusiness
    \/ HandleReturns \/ HandleSkips \/ HandleEscalates \/ HandleRetries
    \/ Unwind \/ Teardown

StoreStep == WriteLands \/ WriteFails

Environment ==
    \/ SendBusiness \/ SendControl
    \/ SuspendCall \/ ResumeCall
    \/ StopCall \/ StopTimeout \/ StopReturns
    \/ StartAgain

Next == LoopStep \/ StoreStep \/ Environment

Spec == Init /\ [][Next]_vars

\* The event loop runs a ready task, the store answers, and the caller of
\* _stop() sees the task end.  Nobody is obliged to send, call or restart.
FairSpec == Spec /\ WF_vars(LoopStep) /\ WF_vars(StoreStep) /\ WF_vars(StopReturns)

-----------------------------------------------------------------------------
(* Properties.                                                             *)

Messages == [kind : ControlKinds \cup {"shutdown"}, to : 1..MaxIncarnations]

TypeOK ==
    /\ status \in Statuses /\ marker \in BOOLEAN /\ requested \in BOOLEAN
    /\ pc \in Pcs /\ exit \in {"none", "returns", "raises", "cancelled"}
    /\ attempt \in 0..(MaxRetries + 1)
    /\ prioQ \in Seq(Messages)
    /\ normQ \in Seq(1..MaxBusiness)
    /\ stored \in BOOLEAN /\ degraded \in BOOLEAN
    /\ pending \in SUBSET [by : Writers, mark : BOOLEAN]
    /\ stopper \in {"idle", "waiting", "cancelled"}
    /\ incarnation \in 1..MaxIncarnations
    /\ handled \in Seq(1..MaxBusiness)
    /\ business \in 0..MaxBusiness /\ controls \in 0..MaxControls
    /\ called \subseteq DirectCalls

\* Business messages are dispatched in the order they were sent and at most
\* once: through suspensions, in-place retries, crashes and the mailbox
\* transfer of a restart.
FifoAtMostOnce ==
    \A i, j \in 1..Len(handled) : i < j => handled[i] < handled[j]

\* While the loop runs, the status and the marker in self.state agree, whichever
\* task called suspend() or resume() (process.py:698-704 and 665-668 change the
\* two together).  When it waits for a message and no write is under way, the
\* checkpoint agrees too: a crash now brings the agent back suspended iff it is
\* suspended now (S5), unless a marker write failed or was abandoned, or a
\* direct resume() wrote its marker while the loop was writing another.
DurableStatus ==
    /\ pc \in LoopPcs => /\ status \in {"RUNNING", "SUSPENDED"}
                         /\ marker <=> status = "SUSPENDED"
    /\ (/\ pc \in {"get", "get_priority"} /\ pending = {}
        /\ ~degraded /\ "resume" \notin called) => stored = marker

\* A suspension is exact.  A business message is dispatched only by an agent
\* that is RUNNING, whose marker is clear and of which no suspension has been
\* requested (S2), as long as requests come as messages: a direct suspend() does
\* not wake an idle loop.  And one that was requested is entered, unless a resume
\* withdraws it or the incarnation ends: the loop never just forgets
\* _suspend_requested, unless a direct resume() lets a second request in while
\* the first is being entered.
SuspendExact ==
    [][/\ (handled' # handled /\ called = {}) => status = "RUNNING" /\ ~marker /\ ~requested
       /\ (requested /\ ~requested') => \/ "resume" \in called
                                        \/ marker'
                                        \/ ResumeCall \/ StartAgain
                                        \/ ReceivePriority /\ Head(prioQ).kind = "resume"]_vars

\* The message loop serves or ends.  A business message in the mailbox of an
\* agent that is RUNNING is dispatched, unless the agent leaves that status, or
\* ends, or resume() is called directly.  A caller of _stop() gets its agent
\* stopped: the task ends, also that of a suspended agent (S7), with no help from
\* shutdown_timeout.
ServesOrStops ==
    /\ \A n \in 1..MaxBusiness :
           (status = "RUNNING" /\ \E i \in 1..Len(normQ) : normQ[i] = n)
               ~> \/ status # "RUNNING" \/ ~TaskLive \/ "resume" \in called
                  \/ \E i \in 1..Len(handled) : handled[i] = n
    /\ stopper = "waiting" ~> ~TaskLive
=============================================================================
