------------------------- MODULE DynamicSupervisor --------------------------
(***************************************************************************)
(* A DynamicSupervisor (civitas/supervisor.py): children are spawned,      *)
(* despawned and stopped by requests that its message loop handles one at  *)
(* a time, while two kinds of background tasks work on the same records:   *)
(* the continuation of a spawn that waits for readiness, and the handler   *)
(* of a child's exit, which may restart it.                                *)
(*                                                                         *)
(* Every start of a child is an incarnation with a number.  Admission      *)
(* checks that only refuse a request (allowlist, quotas, governance hook)  *)
(* are one refusal, which changes nothing.                                 *)
(***************************************************************************)
EXTENDS Naturals, FiniteSets

CONSTANTS
    Names,          \* names of children
    Modes,          \* restart modes of the supervisor: "permanent", "transient" or "never"
    MaxChildren,    \* max_children
    MaxRestarts,    \* max_restarts of every child
    RestartFails,   \* modes in which the start of a restarted child may fail
    RaceRestart,    \* those in which a request or the shutdown may meet an exit handler
    EarlyCrash,     \* those in which a child may end before its waiting spawn saw it run
    CrashInStop,    \* may a child crash while it is being stopped?
    TeardownYields, \* may others take a name while it is being cleaned up?
    MaxStarts,      \* bound: incarnations
    MaxForeign      \* bound: registrations by other supervisors

ASSUME DynamicAssumption ==
    /\ Modes \subseteq {"permanent", "transient", "never"}
    /\ RestartFails \cup RaceRestart \cup EarlyCrash \subseteq Modes
    /\ MaxChildren \in Nat /\ MaxRestarts \in Nat
    /\ MaxStarts \in Nat /\ MaxForeign \in Nat
    /\ {CrashInStop, TeardownYields} \subseteq BOOLEAN

Incs == 1..MaxStarts

VARIABLES
    mode,       \* the restart mode, fixed at the start
    up,         \* the supervisor itself: "up", "stopped" or "crashed"
    born,       \* incarnations so far
    who,        \* the name of an incarnation
    st,         \* the state of an incarnation's task
    rec,        \* _dynamic_children: the incarnation in the record, or 0
    task,       \* _child_tasks: likewise
    acked,      \* names whose record is acknowledged
    watched,    \* incarnations whose done-callback is attached
    window,     \* occupancy of the child's restart window
    registered, \* names in the registry
    foreign,    \* those registered by another supervisor
    busy,       \* the request in the hands of the message loop
    conts,      \* continuations of spawns that wait
    exits,      \* exit handlers
    owed,       \* history: children promised to their spawner and not reported gone
    others      \* bound counter

childVars == <<born, who, st, watched>>
bookVars  == <<rec, task, acked, window>>
regVars   == <<registered, foreign, others>>
bgVars    == <<conts, exits>>
vars == <<mode, up, childVars, bookVars, regVars, busy, bgVars, owed>>

States == {"none", "starting", "live", "crashed", "exited", "failed", "cancelled"}
Up(i)  == st[i] \in {"starting", "live"}
None   == "none"
Idle   == [op |-> "idle", kid |-> None, agent |-> 0, task |-> 0]
UpOf(i) == i # 0 /\ Up(i)

\* Is the incarnation waited for, by a spawn or by a stop request?
Waited(i)  == \E c \in conts : c.inc = i
Stopped(i) == busy.op = "stopping" /\ i \in {busy.agent, busy.task}

\* The bound leaves room for a spawn under way and one more incarnation.
Room == born + (IF busy.op \in {"checked", "claimed"} THEN 1 ELSE 0) < MaxStarts

\* Is a background task still at work on the name?
Settling(n) ==
    \/ \E e \in exits : e.kid = n
    \/ \E c \in conts : who[c.inc] = n /\ st[c.inc] # "starting"

-----------------------------------------------------------------------------
(* Children.                                                               *)

Begin(i) == [inc |-> i, kid |-> who[i], pc |-> "begin"]

\* The task ends by itself: its done-callback creates an exit handler.
Ends(i, s) ==
    /\ st' = [st EXCEPT ![i] = s]
    /\ exits' = IF i \in watched THEN exits \cup {Begin(i)} ELSE exits
    /\ UNCHANGED <<mode, up, born, who, watched, bookVars, regVars, busy, conts, owed>>

ChildReady(i) ==
    /\ st[i] = "starting"
    /\ st' = [st EXCEPT ![i] = "live"]
    /\ UNCHANGED <<mode, up, born, who, watched, bookVars, regVars, busy, bgVars, owed>>

ChildFails(i) ==
    /\ st[i] = "starting"
    /\ mode \in RestartFails \/ i \in watched
    /\ CrashInStop \/ ~Stopped(i)
    /\ Ends(i, "failed")

ChildCrash(i) ==
    /\ st[i] = "live"
    /\ mode \in EarlyCrash \/ ~Waited(i)
    /\ CrashInStop \/ ~Stopped(i)
    /\ Ends(i, "crashed")

\* A normal end: by itself, or by the shutdown message of a stop request.
ChildExits(i) ==
    /\ st[i] = "live"
    /\ mode \in EarlyCrash \/ ~Waited(i)
    /\ Ends(i, "exited")

-----------------------------------------------------------------------------
(* Requests.                                                               *)

\* _handle_spawn() up to the await of on_spawn_requested().
SpawnChecked(n) ==
    /\ up = "up" /\ busy = Idle /\ Room
    /\ TeardownYields \/ ~Settling(n)
    /\ rec[n] = 0 /\ n \notin registered
    /\ Cardinality({m \in Names : rec[m] # 0}) < MaxChildren
    /\ busy' = [op |-> "checked", kid |-> n, agent |-> 0, task |-> 0]
    /\ UNCHANGED <<mode, up, childVars, bookVars, regVars, bgVars, owed>>

\* Mutant: the loser of the race for the name deregisters it.
SpawnClaimedLoserCleans ==
    /\ up = "up" /\ busy.op = "checked"
    /\ \/ /\ busy.kid \notin registered
          /\ registered' = registered \cup {busy.kid}
          /\ busy' = [busy EXCEPT !.op = "claimed"]
          /\ UNCHANGED foreign
       \/ /\ busy' = Idle
          /\ registered' = registered \ {busy.kid} /\ foreign' = foreign \ {busy.kid}
    /\ UNCHANGED <<mode, up, childVars, bookVars, others, bgVars, owed>>

\* The name is claimed, unless another supervisor was faster or the hook says
\* no; then setup_agent() and the audit are awaited.
SpawnClaimed ==
    /\ up = "up" /\ busy.op = "checked"
    /\ \/ /\ busy.kid \notin registered
          /\ registered' = registered \cup {busy.kid}
          /\ busy' = [busy EXCEPT !.op = "claimed"]
       \/ busy' = Idle /\ UNCHANGED registered
    /\ UNCHANGED <<mode, up, childVars, bookVars, foreign, others, bgVars, owed>>

\* The synchronous rest: the task is created and recorded.  Without wait the
\* spawner is answered now, otherwise a continuation will.
SpawnStarted(wait) ==
    /\ up = "up" /\ busy.op = "claimed"
    /\ LET i == born + 1
           n == busy.kid
       IN  /\ born' = i
           /\ who' = [who EXCEPT ![i] = n]
           /\ st' = [st EXCEPT ![i] = "starting"]
           /\ watched' = watched \cup {i}
           /\ rec' = [rec EXCEPT ![n] = i]
           /\ task' = [task EXCEPT ![n] = i]
           /\ acked' = IF wait THEN acked \ {n} ELSE acked \cup {n}
           /\ owed' = IF wait THEN owed ELSE owed \cup {n}
           /\ conts' = IF wait THEN conts \cup {[inc |-> i, pc |-> "wait"]} ELSE conts
    /\ busy' = Idle
    /\ UNCHANGED <<mode, up, window, regVars, exits>>

\* No control request comes for a child that a background task works on.
Undisturbed(n) == mode \in RaceRestart \/ ~Settling(n)

\* _remove_child() and, where the code does it, deregister(), by name alone.
Drop(n) ==
    /\ rec' = [rec EXCEPT ![n] = 0]
    /\ task' = [task EXCEPT ![n] = 0]

Deregister(n) ==
    /\ registered' = registered \ {n}
    /\ foreign' = foreign \ {n}

\* _handle_despawn(): the task on file is cancelled.
Despawn(n) ==
    /\ up = "up" /\ busy = Idle
    /\ rec[n] # 0 /\ Undisturbed(n)
    /\ st' = IF UpOf(task[n]) THEN [st EXCEPT ![task[n]] = "cancelled"] ELSE st
    /\ Drop(n) /\ Deregister(n)
    /\ owed' = owed \ {n}
    /\ UNCHANGED <<mode, up, born, who, watched, acked, window, others, busy, bgVars>>

\* _handle_stop() up to the wait for the agent and the task on file.
StopBegin(n) ==
    /\ up = "up" /\ busy = Idle
    /\ rec[n] # 0 /\ Undisturbed(n)
    /\ busy' = [op |-> "stopping", kid |-> n,
                agent |-> IF Up(rec[n]) THEN rec[n] ELSE 0,
                task |-> IF UpOf(task[n]) THEN task[n] ELSE 0]
    /\ UNCHANGED <<mode, up, childVars, bookVars, regVars, bgVars, owed>>

StopTimeout ==
    /\ busy.op = "stopping" /\ (UpOf(busy.agent) \/ UpOf(busy.task))
    /\ st' = [i \in Incs |-> IF Stopped(i) /\ Up(i) THEN "cancelled" ELSE st[i]]
    /\ UNCHANGED <<mode, up, born, who, watched, bookVars, regVars, busy, bgVars, owed>>

\* on_stop(): the tasks on file are cancelled, then the background tasks.
CancelAll ==
    /\ st' = [i \in Incs |->
                IF st[i] \in {"starting", "live"} /\ rec[who[i]] # 0 /\ task[who[i]] = i
                THEN "cancelled" ELSE st[i]]
    /\ conts' = {} /\ exits' = {}
    /\ busy' = Idle

StopDue == busy.op = "stopping" /\ ~UpOf(busy.agent) /\ ~UpOf(busy.task)

\* The wait is over.  It resumes before the background tasks that the
\* child's end wakes or creates; an exception of the child is raised here and crashes the supervisor.
StopReturns ==
    /\ up = "up" /\ StopDue
    /\ IF \E i \in {busy.agent, busy.task} \ {0} : st[i] \in {"crashed", "failed"}
       THEN /\ up' = "crashed" /\ CancelAll
            /\ UNCHANGED <<rec, task, regVars, owed>>
       ELSE /\ Drop(busy.kid) /\ Deregister(busy.kid)
            /\ busy' = Idle
            /\ owed' = owed \ {busy.kid}
            /\ UNCHANGED <<mode, up, st, bgVars, others>>
    /\ UNCHANGED <<mode, born, who, watched, acked, window>>

\* The loop ends by a shutdown message.
Shutdown ==
    /\ up = "up" /\ busy = Idle
    /\ mode \in RaceRestart \/ (exits = {} /\ conts = {})
    /\ up' = "stopped" /\ CancelAll
    /\ UNCHANGED <<mode, born, who, watched, bookVars, regVars, owed>>

-----------------------------------------------------------------------------
(* Background tasks.                                                       *)

\* Mutant: only the running event is waited for, not the end of the task.
ContWakesOnReady(c) ==
    /\ c \in conts /\ c.pc = "wait" /\ st[c.inc] = "live" /\ ~StopDue
    /\ acked' = acked \cup {who[c.inc]}
    /\ owed' = owed \cup {who[c.inc]}
    /\ conts' = conts \ {c}
    /\ UNCHANGED <<mode, up, childVars, rec, task, window, regVars, busy, exits>>

\* _await_spawn_readiness_and_reply(): an answer, or _terminal_cleanup() of
\* whatever goes by that name now.
ContWakes(c) ==
    /\ c \in conts /\ c.pc = "wait" /\ st[c.inc] # "starting" /\ ~StopDue
    /\ LET n == who[c.inc] IN
        \/ /\ st[c.inc] = "live"
           /\ acked' = acked \cup {n}
           /\ owed' = owed \cup {n}
           /\ conts' = conts \ {c}
           /\ UNCHANGED <<rec, task, registered, foreign>>
        \/ /\ st[c.inc] # "live"
           /\ Deregister(n)
           /\ IF TeardownYields
              THEN /\ conts' = (conts \ {c}) \cup {[c EXCEPT !.pc = "cleaning"]}
                   /\ UNCHANGED <<rec, task>>
              ELSE conts' = conts \ {c} /\ Drop(n)
           /\ UNCHANGED <<acked, owed>>
    /\ UNCHANGED <<mode, up, childVars, window, others, busy, exits>>

ContCleaned(c) ==
    /\ c \in conts /\ c.pc = "cleaning"
    /\ Drop(who[c.inc])
    /\ conts' = conts \ {c}
    /\ UNCHANGED <<mode, up, childVars, acked, window, regVars, busy, exits, owed>>

\* _handle_child_exit() looks the record up by name; its first step is one of
\* the five below.
Turn(e) == e \in exits /\ e.pc = "begin" /\ ~StopDue
CrashExit(e) == st[e.inc] # "exited"
Final(e) == mode = "never" \/ (mode = "transient" /\ ~CrashExit(e))
StartFailed(e) == CrashExit(e) /\ st[rec[e.kid]] \in {"starting", "failed"}

ExitIgnored(e) ==
    /\ Turn(e) /\ rec[e.kid] = 0
    /\ exits' = exits \ {e}
    /\ UNCHANGED <<mode, up, childVars, bookVars, regVars, busy, conts, owed>>

\* A child that never reached its loop: _terminal_cleanup(), and the spawner
\* hears of it if it had an answer already.
ExitOfFailedStart(e) ==
    /\ Turn(e) /\ rec[e.kid] # 0 /\ StartFailed(e)
    /\ Deregister(e.kid)
    /\ IF TeardownYields
       THEN /\ exits' = (exits \ {e}) \cup {[e EXCEPT !.pc = "cleaning"]}
            /\ UNCHANGED <<rec, task, owed>>
       ELSE /\ exits' = exits \ {e}
            /\ Drop(e.kid)
            /\ owed' = IF e.kid \in acked THEN owed \ {e.kid} ELSE owed
    /\ UNCHANGED <<mode, up, childVars, acked, window, others, busy, conts>>

ExitCleaned(e) ==
    /\ e \in exits /\ e.pc = "cleaning"
    /\ Drop(e.kid)
    /\ exits' = exits \ {e}
    /\ owed' = IF e.kid \in acked THEN owed \ {e.kid} ELSE owed
    /\ UNCHANGED <<mode, up, childVars, acked, window, regVars, busy, conts>>

\* Mutant: the spawner is not told.
ExitForGoodUntold(e) ==
    /\ Turn(e) /\ rec[e.kid] # 0 /\ ~StartFailed(e)
    /\ \/ Final(e) /\ UNCHANGED window
       \/ /\ ~Final(e) /\ window[e.kid] >= MaxRestarts
          /\ window' = [window EXCEPT ![e.kid] = @ + 1]
    /\ Drop(e.kid)
    /\ exits' = exits \ {e}
    /\ UNCHANGED <<mode, up, childVars, acked, regVars, busy, conts, owed>>

\* The child is removed for good and its spawner is told; the name stays in the
\* registry.
ExitForGood(e) ==
    /\ Turn(e) /\ rec[e.kid] # 0 /\ ~StartFailed(e)
    /\ \/ Final(e) /\ UNCHANGED window
       \/ /\ ~Final(e) /\ window[e.kid] >= MaxRestarts
          /\ window' = [window EXCEPT ![e.kid] = @ + 1]
    /\ Drop(e.kid)
    /\ exits' = exits \ {e}
    /\ owed' = owed \ {e.kid}
    /\ UNCHANGED <<mode, up, childVars, acked, regVars, busy, conts>>

\* A restart, counted unless the child was suspended: the fresh incarnation is
\* in the record at once, its task on file only after _start().
ExitRestarts(e) ==
    /\ Turn(e) /\ rec[e.kid] # 0 /\ ~StartFailed(e) /\ ~Final(e)
    /\ Room
    /\ \/ /\ window[e.kid] < MaxRestarts
          /\ window' = [window EXCEPT ![e.kid] = @ + 1]
       \/ UNCHANGED window
    /\ LET i == born + 1 IN
        /\ born' = i
        /\ who' = [who EXCEPT ![i] = e.kid]
        /\ st' = [st EXCEPT ![i] = "starting"]
        /\ rec' = [rec EXCEPT ![e.kid] = i]
        /\ exits' = (exits \ {e}) \cup {[inc |-> i, kid |-> e.kid, pc |-> "starting"]}
    /\ UNCHANGED <<mode, up, watched, task, acked, regVars, busy, conts, owed>>

\* Mutant: the new task is not put on file.
ExitStartedUnfiled(e) ==
    /\ e \in exits /\ e.pc = "starting" /\ st[e.inc] # "starting"
    /\ exits' = exits \ {e}
    /\ UNCHANGED <<mode, up, childVars, bookVars, regVars, busy, conts, owed>>

\* _start() returns, or raises out of the handler, where nobody catches it.
ExitStarted(e) ==
    /\ e \in exits /\ e.pc = "starting" /\ st[e.inc] # "starting"
    /\ \/ /\ st[e.inc] = "failed"
          /\ exits' = exits \ {e}
          /\ UNCHANGED <<task, watched>>
       \/ /\ st[e.inc] # "failed"
          /\ task' = [task EXCEPT ![e.kid] = e.inc]
          /\ watched' = watched \cup {e.inc}
          /\ exits' = (exits \ {e})
                \cup (IF st[e.inc] \in {"crashed", "exited"} THEN {Begin(e.inc)} ELSE {})
    /\ UNCHANGED <<mode, up, born, who, st, rec, acked, window, regVars, busy, conts, owed>>

-----------------------------------------------------------------------------
(* Another supervisor with the same registry.                              *)

OtherRegisters(n) ==
    /\ others < MaxForeign /\ n \notin registered
    /\ TeardownYields \/ ~Settling(n)
    /\ registered' = registered \cup {n}
    /\ foreign' = foreign \cup {n}
    /\ others' = others + 1
    /\ UNCHANGED <<mode, up, childVars, bookVars, busy, bgVars, owed>>

OtherReleases(n) ==
    /\ n \in foreign
    /\ Deregister(n)
    /\ UNCHANGED <<mode, up, others, childVars, bookVars, busy, bgVars, owed>>

-----------------------------------------------------------------------------
Init ==
    /\ mode \in Modes
    /\ up = "up" /\ born = 0
    /\ who = [i \in Incs |-> None] /\ st = [i \in Incs |-> "none"]
    /\ rec = [n \in Names |-> 0] /\ task = rec /\ window = rec
    /\ acked = {} /\ watched = {}
    /\ registered = {} /\ foreign = {} /\ others = 0
    /\ busy = Idle /\ conts = {} /\ exits = {} /\ owed = {}

Child(i) == ChildReady(i) \/ ChildFails(i) \/ ChildCrash(i) \/ ChildExits(i)

Request ==
    \/ \E n \in Names : SpawnChecked(n) \/ Despawn(n) \/ StopBegin(n)
    \/ Shutdown

Dispatch == SpawnClaimed \/ (\E w \in BOOLEAN : SpawnStarted(w)) \/ StopReturns

ContStep == \E c \in conts : ContWakes(c) \/ ContCleaned(c)

ExitStep ==
    \E e \in exits :
        \/ ExitIgnored(e) \/ ExitOfFailedStart(e) \/ ExitCleaned(e)
        \/ ExitForGood(e) \/ ExitRestarts(e) \/ ExitStarted(e)

Other == \E n \in Names : OtherRegisters(n) \/ OtherReleases(n)

Next ==
    \/ \E i \in Incs : Child(i)
    \/ Request \/ Dispatch \/ StopTimeout
    \/ ContStep \/ ExitStep \/ Other

Spec == Init /\ [][Next]_vars

\* The supervisor's loop and background tasks run; a stop request has a timeout;
\* a start comes to an end (on_start() returns or raises).
FairSpec ==
    /\ Spec
    /\ WF_vars(Dispatch) /\ WF_vars(StopTimeout)
    /\ WF_vars(ContStep) /\ WF_vars(ExitStep)
    /\ \A i \in Incs : WF_vars(ChildReady(i) \/ ChildFails(i))

-----------------------------------------------------------------------------
(* Properties.                                                             *)

TypeOK ==
    /\ mode \in Modes
    /\ up \in {"up", "stopped", "crashed"} /\ born \in 0..MaxStarts
    /\ who \in [Incs -> Names \cup {None}] /\ st \in [Incs -> States]
    /\ rec \in [Names -> 0..MaxStarts] /\ task \in [Names -> 0..MaxStarts]
    /\ window \in [Names -> 0..MaxStarts]
    /\ acked \subseteq Names /\ watched \subseteq Incs
    /\ registered \subseteq Names /\ foreign \subseteq registered
    /\ others \in 0..MaxForeign
    /\ busy \in [op : {"idle", "checked", "claimed", "stopping"}, kid : Names \cup {None},
                 agent : 0..MaxStarts, task : 0..MaxStarts]
    /\ conts \subseteq [inc : Incs, pc : {"wait", "cleaning"}]
    /\ exits \subseteq [inc : Incs, kid : Names, pc : {"begin", "cleaning", "starting"}]
    /\ owed \subseteq Names

Quiet == up = "up" /\ busy = Idle /\ conts = {} /\ exits = {} /\ \A i \in Incs : st[i] # "starting"

\* Once all background work is done, every running child is in the records,
\* where despawn(), stop() and the shutdown find it; at any time a name runs at
\* most once and at most max_children run, on record or not; and none outlives
\* the supervisor (on_stop()).
NoOrphans ==
    /\ Quiet => \A i \in Incs : Up(i) => rec[who[i]] = i /\ task[who[i]] = i
    /\ \A i, j \in Incs : Up(i) /\ Up(j) /\ who[i] = who[j] => i = j
    /\ Cardinality({i \in Incs : Up(i)}) <= MaxChildren
    /\ up # "up" => \A i \in Incs : ~Up(i)

\* A spawner that was told its child is up hears of its end, unless it asked
\* for it: no child is down behind its back.
NoSilentEnd == Quiet => \A n \in owed : rec[n] # 0 /\ st[rec[n]] = "live"

\* A name whose child is gone can be used again.
NameReusable == Quiet => \A n \in Names : rec[n] = 0 => n \notin registered \ foreign

\* No failure of a child takes the supervisor down.
SupervisorSurvives == up # "crashed"

\* The registration of another supervisor's child is never removed.
ForeignKept == [][\A n \in foreign : n \notin foreign' => OtherReleases(n)]_vars

\* Every request is answered: the loop gets through it, and a waiting spawn is
\* resolved.
RequestsServed ==
    /\ (busy # Idle) ~> (busy = Idle)
    /\ \A i \in Incs : Waited(i) ~> ~Waited(i)
=============================================================================
