----------------------------- MODULE Supervisor -----------------------------
(***************************************************************************)
(* A supervision tree (civitas/supervisor.py): a root supervisor whose     *)
(* children are agents and supervisors of agents, and the runtime that     *)
(* stops it.                                                               *)
(*                                                                         *)
(* Every supervisor processes the messages of its own mailbox one at a     *)
(* time; a restart runs inside that processing and is a sequence of        *)
(* awaited calls.  The model keeps it as a plan: the calls still to be     *)
(* made, each an operation on one child.  Runtime.stop() runs a plan too.  *)
(* Agents are what AgentProcess shows of them: a task that comes up,       *)
(* crashes or ends, and the shutdown message that may wait in its mailbox. *)
(* The restart engine is the abstract RestartBudget: crashes age out of    *)
(* the window at any time.                                                 *)
(***************************************************************************)
EXTENDS Integers, Sequences, Functions

CONSTANTS
    Root,      \* the top-level supervisor
    Settings   \* trees with their strategies and with what may happen in them:
               \*   kids           the children of every supervisor, in order
               \*   strategy       the restart strategy of every supervisor
               \*   startFailures  how a restart may fail: "failed" on_start(), "stuck" restore
               \*   agentTimesOut  may the _stop() of an agent time out?
               \*   loopTimesOut   may the _stop() of a supervisor time out?
               \*   slowTeardown   may the on_stop() of an agent take time?
               \*   endInStop      may an agent end by itself while its shutdown message waits?
               \*   crashInSubtree may an agent crash while its subtree is stopped or
               \*                  restarted from above?
               \*   exempt         may a crashed agent have been suspended?
               \*   mayStop        does the runtime stop the tree?
               \*   maxRestarts    max_restarts of every supervisor
               \*   maxCrashes     bound: crashes and spontaneous exits of agents

Runtime == "runtime"
KidsOf(kids) == UNION {Range(kids[s]) : s \in DOMAIN kids}
AllSups == UNION {DOMAIN c.kids : c \in Settings}
AllAgents == UNION {KidsOf(c.kids) \ DOMAIN c.kids : c \in Settings}

ASSUME SupervisorAssumption ==
    \A c \in Settings :
        LET sups == DOMAIN c.kids IN
        /\ Root \in sups \ KidsOf(c.kids) /\ Runtime \notin sups \cup KidsOf(c.kids)
        /\ c.kids \in [sups -> Seq(KidsOf(c.kids))]
        /\ \A s \in sups \ {Root} : s \in Range(c.kids[Root]) /\ Range(c.kids[s]) \cap sups = {}
        /\ \A s, t \in sups : s # t => Range(c.kids[s]) \cap Range(c.kids[t]) = {}
        /\ c.strategy \in [sups -> {"ONE_FOR_ONE", "ONE_FOR_ALL", "REST_FOR_ONE"}]
        /\ c.startFailures \subseteq {"failed", "stuck"}
        /\ {c.maxRestarts, c.maxCrashes} \subseteq Nat
        /\ {c.agentTimesOut, c.loopTimesOut, c.slowTeardown, c.endInStop, c.crashInSubtree,
            c.exempt, c.mayStop} \subseteq BOOLEAN

VARIABLES
    st,       \* the agent's task: see AgentStates
    inc,      \* which start of the agent its task belongs to
    tracked,  \* _child_tasks: the incarnation the done-callback is attached to
    shutting, \* is a shutdown message waiting in the agent's mailbox?
    loop,     \* is the supervisor's own message loop running?
    mail,     \* the supervisor's priority queue
    running,  \* _running
    window,   \* occupancy of the engine's window
    plan,     \* per actor: the operations it has still to perform
    cause,    \* per supervisor: the child whose crash its plan answers
    waiting,  \* per actor: how far is the first operation of its plan?
    gaveUp,   \* children reported permanently down at the root
    dropped,  \* history: children whose start was dropped with the restart that failed
    left,     \* history: agents that ended of their own accord
    stray,    \* history: has a stop left its shutdown message unread in a mailbox?
    gen,      \* history: how often a supervisor has been started
    stopping, \* has Runtime.stop() been called?
    setting,  \* which of the settings this is, never changed
    crashes   \* bound counter

agentVars == <<st, inc, tracked, shutting, left>>
supVars   == <<loop, mail, running, window, gen>>
planVars  == <<plan, cause, waiting>>
reports   == <<gaveUp, dropped>>
envVars   == <<setting, stopping, stray>>
vars == <<agentVars, supVars, planVars, reports, envVars, crashes>>

Kids   == setting.kids
Sups   == DOMAIN Kids
Agents == DOMAIN st
Actors == Sups \cup {Runtime}

ParentOf(p) == CHOOSE s \in Sups : p \in Range(Kids[s])

\* "dying" and "leaving": the loop has raised or ended and on_stop() runs, in
\* status CRASHED or STOPPING; "crashed" and "stopped": that task is over.
\* "failed": on_start() raised; "stuck": the restore raised and the status is
\* still INITIALIZING.
AgentStates ==
    {"starting", "live", "dying", "leaving", "crashed", "stopped", "failed", "stuck"}

Live(a)   == st[a] \in {"starting", "live"}
TaskUp(a) == st[a] \in {"starting", "live", "dying", "leaving"}

Crashed(c, i, g) == [kind |-> "child_crashed", who |-> c, inc |-> i, gen |-> g]
Shutdown         == [kind |-> "shutdown", who |-> Root, inc |-> 0, gen |-> 0]

-----------------------------------------------------------------------------
(* The calls of a restart, flattened.                                      *)

Op(o, p) == [op |-> o, who |-> p]

Backwards(q) == [i \in 1..Len(q) |-> q[Len(q) - i + 1]]

\* One sequence after the other.
Joined(ss) ==
    LET upTo[n \in 0..Len(ss)] == IF n = 0 THEN << >> ELSE upTo[n - 1] \o ss[n]
    IN  upTo[Len(ss)]

\* child._stop() of an agent; stop() of a supervisor: its own loop first, then
\* its children last to first.
StopOps(p) ==
    IF p \in Agents THEN <<Op("stop_agent", p)>>
    ELSE <<Op("stop_loop", p)>>
         \o [i \in 1..Len(Kids[p]) |-> Op("stop_agent", Backwards(Kids[p])[i])]

\* _restart_agent_child() of an agent; start() of a supervisor with a fresh
\* budget: its own loop first, then its children in order.
StartOps(p) ==
    IF p \in Agents THEN <<Op("start_agent", p)>>
    ELSE <<Op("start_loop", p)>>
         \o [i \in 1..Len(Kids[p]) |-> Op("start_agent", Kids[p][i])]

StopAll(ps)  == Joined([i \in 1..Len(ps) |-> StopOps(ps[i])])
StartAll(ps) == Joined([i \in 1..Len(ps) |-> StartOps(ps[i])])

\* Mutant of From: the children after the crashed one only.
FromAfter(s, p) ==
    LET i == CHOOSE j \in 1..Len(Kids[s]) : Kids[s][j] = p
    IN  SubSeq(Kids[s], i + 1, Len(Kids[s]))

\* The crashed child and those after it.
From(s, p) ==
    LET i == CHOOSE j \in 1..Len(Kids[s]) : Kids[s][j] = p
    IN  SubSeq(Kids[s], i, Len(Kids[s]))

RestartOps(s, p) ==
    CASE setting.strategy[s] = "ONE_FOR_ONE" ->
            IF p \in Agents THEN StartOps(p) ELSE StopOps(p) \o StartOps(p)
      [] setting.strategy[s] = "ONE_FOR_ALL" ->
            StopAll(Kids[s]) \o StartAll(Kids[s])
      [] setting.strategy[s] = "REST_FOR_ONE" ->
            StopAll(Backwards(From(s, p))) \o StartAll(From(s, p))

\* Supervisor.stop() of the root, as Runtime.stop() calls it.
StopTree == <<Op("stop_loop", Root)>> \o StopAll(Backwards(Kids[Root]))

-----------------------------------------------------------------------------
(* Agents.                                                                 *)

\* The task's done-callback: a crash of the tracked incarnation is queued.
OnChildDone(a) ==
    IF tracked[a] = inc[a]
    THEN mail' = [mail EXCEPT ![ParentOf(a)] = Append(@, Crashed(a, inc[a], 0))]
    ELSE UNCHANGED mail

AgentReady(a) ==
    /\ st[a] = "starting"
    /\ st' = [st EXCEPT ![a] = "live"]
    /\ UNCHANGED <<inc, tracked, shutting, left, supVars, planVars, reports, envVars, crashes>>

AgentStartFails(a) ==
    /\ st[a] = "starting"
    /\ setting.endInStop \/ ~shutting[a]
    /\ \E s \in setting.startFailures : st' = [st EXCEPT ![a] = s]
    /\ UNCHANGED <<inc, tracked, shutting, left, supVars, planVars, reports, envVars, crashes>>

\* The agent is fully started, and nobody but its own supervisor is about to
\* stop or start it or a sibling.
Undisturbed(a) ==
    /\ tracked[a] = inc[a]
    /\ \A x \in Actors \ {ParentOf(a)} :
          \A i \in DOMAIN plan[x] : plan[x][i].who \notin Range(Kids[ParentOf(a)])

\* handle() raises and the agent is not to go on.
AgentCrash(a) ==
    /\ st[a] = "live" /\ crashes < setting.maxCrashes
    /\ setting.endInStop \/ ~shutting[a]
    /\ setting.crashInSubtree \/ Undisturbed(a)
    /\ crashes' = crashes + 1
    /\ \/ /\ setting.slowTeardown
          /\ st' = [st EXCEPT ![a] = "dying"]
          /\ UNCHANGED mail
       \/ /\ st' = [st EXCEPT ![a] = "crashed"]
          /\ OnChildDone(a)
    /\ UNCHANGED <<inc, tracked, shutting, left, loop, running, window, gen, planVars, reports, envVars>>

\* The agent ends normally (ErrorAction.STOP, civitas.eval.halt).
AgentLeaves(a) ==
    /\ st[a] = "live" /\ crashes < setting.maxCrashes
    /\ setting.endInStop \/ ~shutting[a]
    /\ crashes' = crashes + 1
    /\ \E e \in {"stopped"} \cup (IF setting.slowTeardown THEN {"leaving"} ELSE {}) :
          st' = [st EXCEPT ![a] = e]
    /\ left' = left \cup {a}
    /\ UNCHANGED <<inc, tracked, shutting, supVars, planVars, reports, envVars>>

\* The loop meets the shutdown message in its mailbox.
AgentObeys(a) ==
    /\ st[a] = "live" /\ shutting[a]
    /\ st' = [st EXCEPT ![a] = "leaving"]
    /\ shutting' = [shutting EXCEPT ![a] = FALSE]
    /\ UNCHANGED <<inc, tracked, left, supVars, planVars, reports, envVars, crashes>>

\* The task is over; only one that raised leaves an event behind.
AgentEnds(a) ==
    /\ \/ /\ st[a] = "dying"
          /\ st' = [st EXCEPT ![a] = "crashed"]
          /\ OnChildDone(a)
       \/ /\ st[a] = "leaving"
          /\ st' = [st EXCEPT ![a] = "stopped"]
          /\ UNCHANGED mail
    /\ UNCHANGED <<inc, tracked, shutting, left, loop, running, window, gen, planVars, reports, envVars, crashes>>

-----------------------------------------------------------------------------
(* A supervisor's message loop, between two dispatches.                    *)

Idle(s) == loop[s] /\ plan[s] = << >>

\* Mutant of Escalate: the parent is not told.
EscalateNowhere(s, p) ==
    /\ mail' = [mail EXCEPT ![s] = IF Idle(s) THEN Tail(@) ELSE @]
    /\ gaveUp' = IF s = Root THEN gaveUp \cup {p} ELSE gaveUp

\* _escalate_to_parent(): at the root the failure is final and logged.
Escalate(s, p) ==
    IF s = Root
    THEN /\ gaveUp' = gaveUp \cup {p}
         /\ mail' = [mail EXCEPT ![s] = IF Idle(s) THEN Tail(@) ELSE @]
    ELSE /\ mail' = [mail EXCEPT ![s] = IF Idle(s) THEN Tail(@) ELSE @,
                                 ![Root] = Append(@, Crashed(s, 0, gen[s]))]
         /\ UNCHANGED gaveUp

\* Mutant of LoopEnds: the shutdown message is taken and ignored.
LoopEndsNever(s) ==
    /\ Idle(s) /\ mail[s] # << >> /\ Head(mail[s]).kind = "shutdown"
    /\ mail' = [mail EXCEPT ![s] = Tail(@)]
    /\ UNCHANGED <<loop, agentVars, running, window, gen, planVars, reports, envVars, crashes>>

LoopEnds(s) ==
    /\ Idle(s) /\ mail[s] # << >> /\ Head(mail[s]).kind = "shutdown"
    /\ mail' = [mail EXCEPT ![s] = Tail(@)]
    /\ loop' = [loop EXCEPT ![s] = FALSE]
    /\ UNCHANGED <<agentVars, running, window, gen, planVars, reports, envVars, crashes>>

\* Mutant of Stale: the incarnation is not compared.
StaleIfStopped(s, e) == ~running[s]

\* The event is to be ignored: the supervisor is being stopped, or the child
\* has been restarted since.
Stale(s, e) == ~running[s] \/ (e.inc # 0 /\ tracked[e.who] # e.inc)

SkipEvent(s) ==
    /\ Idle(s) /\ mail[s] # << >> /\ Head(mail[s]).kind = "child_crashed"
    /\ Stale(s, Head(mail[s]))
    /\ mail' = [mail EXCEPT ![s] = Tail(@)]
    /\ UNCHANGED <<agentVars, loop, running, window, gen, planVars, reports, envVars, crashes>>

\* _handle_crash() within the budget, or exempt from it because the agent was
\* suspended: a backoff sleep, then the restarts.
BeginRestart(s) ==
    /\ Idle(s) /\ mail[s] # << >> /\ Head(mail[s]).kind = "child_crashed"
    /\ ~Stale(s, Head(mail[s]))
    /\ mail' = [mail EXCEPT ![s] = Tail(@)]
    /\ LET p == Head(mail[s]).who
       IN  /\ \/ /\ window[s] < setting.maxRestarts
                 /\ window' = [window EXCEPT ![s] = @ + 1]
              \/ setting.exempt /\ p \in Agents /\ UNCHANGED window
           /\ plan' = [plan EXCEPT ![s] = <<Op("backoff", p)>> \o RestartOps(s, p)]
           /\ cause' = [cause EXCEPT ![s] = p]
    /\ UNCHANGED <<agentVars, loop, running, gen, waiting, reports, envVars, crashes>>

\* _handle_crash() past the budget: _escalate().
Exhausted(s) ==
    /\ Idle(s) /\ mail[s] # << >> /\ Head(mail[s]).kind = "child_crashed"
    /\ ~Stale(s, Head(mail[s]))
    /\ window[s] >= setting.maxRestarts
    /\ window' = [window EXCEPT ![s] = @ + 1]
    /\ Escalate(s, Head(mail[s]).who)
    /\ UNCHANGED <<dropped, agentVars, loop, running, gen, planVars, envVars, crashes>>

\* Crashes leave the engine's window as time passes.
AgeOut(s) ==
    /\ window[s] > 0
    /\ window' = [window EXCEPT ![s] = 0]
    /\ UNCHANGED <<agentVars, loop, mail, running, gen, planVars, reports, envVars, crashes>>

-----------------------------------------------------------------------------
(* Performing a plan.                                                      *)

Acts(x, o) == plan[x] # << >> /\ Head(plan[x]).op = o
Target(x)  == Head(plan[x]).who

\* The operation has returned.
Proceed(x) ==
    /\ plan' = [plan EXCEPT ![x] = Tail(@)]
    /\ waiting' = [waiting EXCEPT ![x] = "no"]
    /\ UNCHANGED cause

\* The operation has raised: _process_crash_event() escalates; Runtime.stop()
\* passes the exception on.
Abort(x) ==
    /\ plan' = [plan EXCEPT ![x] = << >>]
    /\ waiting' = [waiting EXCEPT ![x] = "no"]
    /\ UNCHANGED cause
    /\ dropped' = dropped \cup
         {o.who : o \in {p \in Range(plan[x]) : p.op \in {"start_agent", "start_loop"}}}
    /\ IF x = Runtime THEN UNCHANGED <<mail, gaveUp>> ELSE Escalate(x, cause[x])

BackoffOver(s) ==
    /\ Acts(s, "backoff")
    /\ Proceed(s)
    /\ UNCHANGED <<agentVars, supVars, reports, envVars, crashes>>

\* _stop() of an agent that is not RUNNING, INITIALIZING or SUSPENDED returns
\* at once; a stuck one is sent a shutdown message that nobody reads.
StopAgentDown(x) ==
    /\ Acts(x, "stop_agent") /\ waiting[x] = "no" /\ ~Live(Target(x))
    /\ stray' = (stray \/ st[Target(x)] = "stuck")
    /\ shutting' = [shutting EXCEPT ![Target(x)] = @ \/ st[Target(x)] = "stuck"]
    /\ Proceed(x)
    /\ UNCHANGED <<st, inc, tracked, left, supVars, reports, setting, stopping, crashes>>

StopAgentSend(x) ==
    /\ Acts(x, "stop_agent") /\ waiting[x] = "no" /\ Live(Target(x))
    /\ shutting' = [shutting EXCEPT ![Target(x)] = TRUE]
    /\ waiting' = [waiting EXCEPT ![x] = "yes"]
    /\ UNCHANGED <<st, inc, tracked, left, supVars, plan, cause, reports, envVars, crashes>>

\* The wait for the task ends: the exception of a task that raised is raised
\* here as well.
StopAgentWaited(x) ==
    /\ Acts(x, "stop_agent") /\ waiting[x] = "yes" /\ ~TaskUp(Target(x))
    /\ IF st[Target(x)] = "stopped" THEN Proceed(x) /\ UNCHANGED <<mail, reports>> ELSE Abort(x)
    /\ UNCHANGED <<agentVars, loop, running, window, gen, envVars, crashes>>

\* shutdown_timeout: the task is cancelled, the message stays in the mailbox.
StopAgentTimeout(x) ==
    /\ setting.agentTimesOut
    /\ stray' = TRUE
    /\ Acts(x, "stop_agent") /\ waiting[x] = "yes" /\ TaskUp(Target(x))
    /\ st' = [st EXCEPT ![Target(x)] = "stopped"]
    /\ Proceed(x)
    /\ UNCHANGED <<inc, tracked, shutting, left, supVars, reports, setting, stopping, crashes>>

StopLoopSend(x) ==
    /\ Acts(x, "stop_loop") /\ waiting[x] = "no"
    /\ LET t == Target(x) IN
        /\ running' = [running EXCEPT ![t] = FALSE]
        /\ mail' = IF loop[t] THEN [mail EXCEPT ![t] = Append(@, Shutdown)] ELSE mail
    /\ waiting' = [waiting EXCEPT ![x] = "yes"]
    /\ UNCHANGED <<agentVars, loop, window, gen, plan, cause, reports, envVars, crashes>>

StopLoopWaited(x) ==
    /\ Acts(x, "stop_loop") /\ waiting[x] # "no" /\ ~loop[Target(x)]
    /\ Proceed(x)
    /\ UNCHANGED <<agentVars, supVars, reports, envVars, crashes>>

\* Is the supervisor inside the wait of a child's _stop()?  That wait takes a
\* cancellation of the supervisor for its own timeout: it cancels the child and
\* returns, and the supervisor goes on with its plan.
InStop(t) == plan[t] # << >> /\ Head(plan[t]).op \in {"stop_agent", "stop_loop"} /\ waiting[t] = "yes"

\* Mutant of StopLoopTimeout: the wait is given up without a cancellation.
StopLoopTimeoutNoCancel(x) ==
    /\ setting.loopTimesOut
    /\ stray' = TRUE
    /\ Acts(x, "stop_loop") /\ waiting[x] = "yes" /\ loop[Target(x)]
    /\ Proceed(x)
    /\ UNCHANGED <<agentVars, supVars, reports, setting, stopping, crashes>>

\* shutdown_timeout of a supervisor's own loop: it is cancelled where it waits
\* and what was left of its plan is dropped.
StopLoopTimeout(x) ==
    /\ setting.loopTimesOut
    /\ stray' = TRUE
    /\ Acts(x, "stop_loop") /\ waiting[x] = "yes" /\ loop[Target(x)]
    /\ LET t == Target(x) IN
        /\ plan[t] # << >> /\ ~InStop(t)
        /\ loop' = [loop EXCEPT ![t] = FALSE]
        /\ plan' = [plan EXCEPT ![t] = << >>, ![x] = Tail(@)]
        /\ waiting' = [waiting EXCEPT ![t] = "no", ![x] = "no"]
    /\ UNCHANGED <<agentVars, cause, mail, running, window, gen, reports, setting, stopping, crashes>>

StopLoopTimeoutSwallowed(x) ==
    /\ setting.loopTimesOut
    /\ stray' = TRUE
    /\ Acts(x, "stop_loop") /\ waiting[x] = "yes" /\ loop[Target(x)] /\ InStop(Target(x))
    /\ LET t == Target(x)
           c == Target(t)
       IN  \/ /\ c \in Agents /\ TaskUp(c)
              /\ st' = [st EXCEPT ![c] = "stopped"]
              /\ UNCHANGED loop
              /\ plan' = [plan EXCEPT ![t] = Tail(@)]
              /\ waiting' = [waiting EXCEPT ![t] = "no", ![x] = "cancelled"]
           \/ /\ c \in Sups /\ loop[c] /\ plan[c] # << >> /\ ~InStop(c)
              /\ loop' = [loop EXCEPT ![c] = FALSE]
              /\ UNCHANGED st
              /\ plan' = [plan EXCEPT ![c] = << >>, ![t] = Tail(@)]
              /\ waiting' = [waiting EXCEPT ![c] = "no", ![t] = "no", ![x] = "cancelled"]
           \/ /\ c \in Sups /\ loop[c] /\ InStop(c) /\ TaskUp(Target(c))
              /\ st' = [st EXCEPT ![Target(c)] = "stopped"]
              /\ UNCHANGED loop
              /\ plan' = [plan EXCEPT ![c] = Tail(@)]
              /\ waiting' = [waiting EXCEPT ![c] = "no", ![x] = "cancelled"]
    /\ UNCHANGED <<inc, tracked, shutting, left, mail, running, window, gen, cause, reports, setting, stopping, crashes>>

\* start(): the budget was reset just before, the mailbox is what it was.
StartLoop(x) ==
    /\ Acts(x, "start_loop")
    /\ LET t == Target(x) IN
        /\ loop' = [loop EXCEPT ![t] = TRUE]
        /\ running' = [running EXCEPT ![t] = TRUE]
        /\ window' = [window EXCEPT ![t] = 0]
        /\ dropped' = dropped \ {t}
        /\ gen' = [gen EXCEPT ![t] = @ + 1]
    /\ Proceed(x)
    /\ UNCHANGED <<agentVars, mail, gaveUp, envVars, crashes>>

\* A fresh incarnation.  If the old task is still in on_stop(), its end comes to
\* light while the new one starts.
StartAgentBegin(x) ==
    /\ Acts(x, "start_agent") /\ waiting[x] = "no"
    /\ LET a == Target(x) IN
        /\ st' = [st EXCEPT ![a] = "starting"]
        /\ inc' = [inc EXCEPT ![a] = @ + 1]
        /\ left' = left \ {a} /\ dropped' = dropped \ {a}
        /\ IF st[a] = "dying" THEN OnChildDone(a) ELSE UNCHANGED mail
    /\ waiting' = [waiting EXCEPT ![x] = "yes"]
    /\ UNCHANGED <<tracked, shutting, loop, running, window, gen, plan, cause, gaveUp, envVars, crashes>>

\* _start() returns once the loop is reached; only then is the task tracked and
\* its done-callback attached, which fires at once for a task already over.
StartAgentWaited(x) ==
    /\ Acts(x, "start_agent") /\ waiting[x] = "yes" /\ st[Target(x)] # "starting"
    /\ LET a == Target(x) IN
        \/ /\ st[a] \in {"failed", "stuck"}
           /\ Abort(x)
           /\ UNCHANGED tracked
        \/ /\ st[a] \notin {"failed", "stuck"}
           /\ tracked' = [tracked EXCEPT ![a] = inc[a]]
           /\ mail' = IF st[a] = "crashed"
                      THEN [mail EXCEPT ![ParentOf(a)] = Append(@, Crashed(a, inc[a], 0))]
                      ELSE mail
           /\ Proceed(x)
           /\ UNCHANGED reports
    /\ UNCHANGED <<st, inc, shutting, left, loop, running, window, gen, envVars, crashes>>

\* Runtime.stop().
StopRuntime ==
    /\ setting.mayStop /\ ~stopping
    /\ stopping' = TRUE
    /\ plan' = [plan EXCEPT ![Runtime] = StopTree]
    /\ UNCHANGED <<agentVars, supVars, cause, waiting, reports, setting, stray, crashes>>

-----------------------------------------------------------------------------
\* The tree as Supervisor.start() leaves it.
Init ==
    /\ setting \in Settings
    /\ st = [a \in KidsOf(Kids) \ Sups |-> "live"]
    /\ inc = [a \in Agents |-> 1] /\ tracked = inc
    /\ shutting = [a \in Agents |-> FALSE]
    /\ loop = [s \in Sups |-> TRUE] /\ running = loop
    /\ mail = [s \in Sups |-> << >>]
    /\ window = [s \in Sups |-> 0]
    /\ plan = [x \in Actors |-> << >>]
    /\ cause = [s \in Sups |-> s]
    /\ waiting = [x \in Actors |-> "no"]
    /\ gaveUp = {} /\ dropped = {} /\ left = {}
    /\ gen = [s \in Sups |-> 1]
    /\ stopping = FALSE /\ stray = FALSE /\ crashes = 0

AgentStep(a) ==
    AgentReady(a) \/ AgentStartFails(a) \/ AgentObeys(a) \/ AgentEnds(a)

LoopStep(s) ==
    LoopEnds(s) \/ SkipEvent(s) \/ BeginRestart(s) \/ Exhausted(s)

PlanStep(x) ==
    \/ StopAgentDown(x) \/ StopAgentSend(x) \/ StopAgentWaited(x)
    \/ StopLoopSend(x) \/ StopLoopWaited(x)
    \/ StartLoop(x) \/ StartAgentBegin(x) \/ StartAgentWaited(x)

Fault ==
    \/ \E a \in Agents : AgentCrash(a) \/ AgentLeaves(a)
    \/ \E x \in Actors : \/ StopAgentTimeout(x)
                         \/ StopLoopTimeout(x) \/ StopLoopTimeoutSwallowed(x)

Next ==
    \/ \E a \in Agents : AgentStep(a)
    \/ \E s \in Sups : LoopStep(s) \/ BackoffOver(s) \/ AgeOut(s)
    \/ \E x \in Actors : PlanStep(x)
    \/ StopRuntime
    \/ Fault

Spec == Init /\ [][Next]_vars

\* Every task of the event loop runs when it can; faults, ageing and the call
\* of Runtime.stop() need not happen.
FairSpec ==
    /\ Spec
    /\ \A a \in AllAgents : WF_vars(a \in Agents /\ AgentStep(a))
    /\ \A s \in AllSups : WF_vars(s \in Sups /\ (LoopStep(s) \/ BackoffOver(s)))
    /\ \A x \in AllSups \cup {Runtime} : WF_vars(x \in Actors /\ PlanStep(x))

-----------------------------------------------------------------------------
(* Properties.                                                             *)

Events == [kind : {"child_crashed", "shutdown"}, who : Sups \cup Agents, inc : Nat, gen : Nat]
Ops    == [op : {"backoff", "stop_agent", "stop_loop", "start_loop", "start_agent"},
           who : Sups \cup Agents]

TypeOK ==
    /\ st \in [Agents -> AgentStates]
    /\ inc \in [Agents -> Nat] /\ tracked \in [Agents -> Nat]
    /\ shutting \in [Agents -> BOOLEAN]
    /\ loop \in [Sups -> BOOLEAN] /\ running \in [Sups -> BOOLEAN]
    /\ mail \in [Sups -> Seq(Events)]
    /\ window \in [Sups -> Nat] /\ gen \in [Sups -> Nat]
    /\ plan \in [Actors -> Seq(Ops)]
    /\ cause \in [Sups -> Sups \cup Agents]
    /\ waiting \in [Actors -> {"no", "yes", "cancelled"}]
    /\ gaveUp \subseteq Sups \cup Agents /\ dropped \subseteq Sups \cup Agents /\ left \subseteq Agents
    /\ setting \in Settings /\ {stopping, stray} \subseteq BOOLEAN /\ crashes \in 0..setting.maxCrashes

Starts(a) == inc'[a] # inc[a]

\* No agent is ever started while its message loop is up: two supervisors and
\* the runtime, acting on the same subtree, never produce two loops on one
\* mailbox.  When its own supervisor restarts it ONE_FOR_ONE, the whole task of
\* the old incarnation is over (docstring of _restart_agent_child,
\* supervisor.py:304-305); the restart of siblings or of a subtree does not wait
\* for an agent that is already in its on_stop().  And a cycle is begun only for
\* an agent that is down: an event of an incarnation already replaced starts
\* nothing (Supervisor._handle_crash).
NoDoubleLoop ==
    [][/\ \A a \in Agents : Starts(a) =>
             /\ ~Live(a)
             /\ LET s == ParentOf(a) IN
                setting.strategy[s] = "ONE_FOR_ONE" /\ Acts(s, "start_agent") => ~TaskUp(a)
       /\ \A s \in Sups : BeginRestart(s) /\ Head(mail[s]).who \in Agents
                             => ~Live(Head(mail[s]).who)]_vars

\* The same of a subtree: an escalation made by an earlier life of the child
\* supervisor starts nothing.
SubtreeRestartsNeeded ==
    [][\A s \in Sups : BeginRestart(s) /\ Head(mail[s]).who \in Sups
                          => Head(mail[s]).gen = gen[Head(mail[s]).who]]_vars

Settled ==
    /\ ~stopping
    /\ \A s \in Sups : plan[s] = << >> /\ (loop[s] => mail[s] = << >>)
    /\ \A a \in Agents : st[a] \notin {"starting", "dying", "leaving"} /\ ~(st[a] = "live" /\ shutting[a])

Reported(a) == a \in left \/ a \in gaveUp \/ ParentOf(a) \in gaveUp

\* Once everything is processed, an agent is up unless it ended of its own
\* accord, was reported permanently down, itself or its supervisor, or was still
\* to be started by a restart that failed; and every supervisor is there for the
\* crashes of its children, unless it was still to be started likewise.  A stop
\* that times out, or meets an agent stuck in its restore, leaves a shutdown
\* message behind that the next incarnation obeys: nothing is promised then.
NoneSilentlyDown ==
    Settled /\ ~stray =>
        /\ \A a \in Agents : st[a] = "live" \/ Reported(a) \/ a \in dropped
        /\ \A s \in Sups : (loop[s] /\ running[s]) \/ s \in dropped

\* A restart that fails leaves nobody down without a report ("A restart that
\* itself fails is no longer silently swallowed", CHANGELOG.md:665).
FailedRestartsReported ==
    Settled /\ ~stray => \A a \in Agents : st[a] = "live" \/ Reported(a)

\* When Runtime.stop() is through, no loop of the tree is left running.
StopComplete ==
    stopping /\ plan[Runtime] = << >> =>
        (\A a \in Agents : ~Live(a)) /\ (\A s \in Sups : ~loop[s])

\* A crashed agent is restarted, or reported as down, or dropped by a restart that
\* failed, unless the tree is stopped or a shutdown message is left behind.
CrashAnswered ==
    \A a \in AllAgents : (a \in Agents /\ st[a] = "crashed") ~> (st[a] = "live" \/ Reported(a) \/ a \in dropped \/ stray \/ stopping)

\* Runtime.stop() comes to its end.
StopEnds == stopping ~> plan[Runtime] = << >>
=============================================================================
