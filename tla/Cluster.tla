------------------------------- MODULE Cluster ------------------------------
(***************************************************************************)
(* Two processes of a deployment.  A Worker (civitas/worker.py) hosts      *)
(* agents, or a DynamicSupervisor that spawns a child, and announces them; *)
(* the runtime process routes to them by its registry, and a supervisor    *)
(* there probes the Worker and has it restart agents that are down         *)
(* (civitas/supervisor.py, remote children).                               *)
(*                                                                         *)
(* Announcements of the Worker reach the runtime in the order in which     *)
(* they are published, commands and probes reach the Worker likewise.  On  *)
(* ZeroMQ one receiver task handles them one by one; on NATS each          *)
(* subscription has a task of its own.                                     *)
(***************************************************************************)
EXTENDS Registry, Sequences, SequencesExt, FiniteSets

CONSTANTS
    AgentOrder,   \* the agents of the Worker, in the order of its dict
    Child,        \* the name the DynamicSupervisor spawns
    RestartTopic, \* "_agency.worker.restart"
    Channels,     \* the health channel of each incarnation of the Worker
    Configs,      \* [scene, net, legacy, returns, faults]: whether the behaviour is about
                  \* spawning or probing, the transport, whether the Worker predates health
                  \* channels and is started again after its end, and a bound on faults
    Threshold,    \* missed_heartbeats_threshold
    MaxRestarts,  \* the supervisor's budget
    WorkerMax,    \* max_restarts of the Worker
    MaxSpawns, MaxEvents, MaxInbox  \* bounds: spawns, and when the heartbeat
                  \* loop ticks, crash events waiting and messages on their way to the Worker

Agents == ToSet(AgentOrder)
Epochs == 1..MaxSpawns
None == [to |-> "none"]

VARIABLES
    config,
    wire,      \* announcements on their way to the runtime process
    spawnVars, \* see Spawning
    worker,    \* [state, id]
    agent,     \* each agent of the Worker: "running", "crashed" or "stopped"
    restarts,  \* _restart_counts of the Worker
    job,       \* the restart command its handler is executing
    untold,    \* names it has yet to announce
    inbox,     \* commands and probes on their way to it
    round,     \* the probes left in this tick of the heartbeat loop
    probe,     \* the one that is awaited
    ack,       \* its answer, on the way back
    missed,    \* _missed_heartbeats
    events,    \* crash events in the supervisor's mailbox
    crashes,   \* crashes its engine has recorded
    faults

workerVars == <<worker, agent, restarts, job, untold>>
monitorVars == <<round, probe, ack, missed>>
supVars == <<events, crashes>>
vars == <<config, registryVars, wire, spawnVars, workerVars, inbox, monitorVars, supVars, faults>>

\* An announcement arrives in the runtime process.
Deliver ==
    /\ wire # <<>>
    /\ Receive(Head(wire))
    /\ wire' = Tail(wire)
    /\ UNCHANGED <<config, spawnVars, workerVars, inbox, monitorVars, supVars, faults>>

Announcement(k, n, e, o, c) == [kind |-> k, name |-> n, epoch |-> e, owner |-> o, channel |-> c]

-----------------------------------------------------------------------------
(* A DynamicSupervisor and its child.  spawnVars.kid is each incarnation   *)
(* ("none", "starting", "running" or "ended"); rec is the epoch on record, *)
(* 0 for none; announced the records marked so; tasks the background tasks *)
(* that announce; leaving the incarnations whose deregistration is about   *)
(* to be published.  raced and renumbered are history: incarnations that   *)
(* were removed while a task was announcing them, and whether the          *)
(* supervisor was restarted, which starts its epochs again.                *)

Spawned == Cardinality({e \in Epochs : spawnVars.kid[e] # "none"})
OnlySpawning == UNCHANGED <<config, registryVars, workerVars, inbox, monitorVars, supVars>>

Spawn(wait) ==
    /\ config.scene = "spawning" /\ spawnVars.rec = 0 /\ Spawned < MaxSpawns
    /\ LET e == Spawned + 1 IN
       spawnVars' = [spawnVars EXCEPT !.kid[e] = "starting", !.rec = e,
                                      !.tasks = @ \cup {[epoch |-> e, wait |-> wait, at |-> "starting", rec |-> e]}]
    /\ OnlySpawning /\ UNCHANGED <<wire, faults>>

ChildStarted(e) ==
    /\ spawnVars.kid[e] = "starting"
    /\ spawnVars' = [spawnVars EXCEPT !.kid[e] = "running"]
    /\ OnlySpawning /\ UNCHANGED <<wire, faults>>

\* The child's task ends by itself, or despawn, stop or a cleanup ends it, and
\* its record is dropped; a record that is marked is deregistered everywhere.
ChildRemoved(e) ==
    /\ spawnVars.rec = e /\ e # 0 /\ spawnVars.kid[e] \in {"starting", "running"}
    /\ spawnVars' = [spawnVars EXCEPT !.kid[e] = "ended", !.rec = 0,
                         !.leaving = IF e \in spawnVars.announced THEN @ \cup {e} ELSE @,
                         !.raced = IF \E t \in spawnVars.tasks : t.epoch = e /\ t.at = "settling"
                                   THEN @ \cup {e} ELSE @]
    /\ OnlySpawning /\ UNCHANGED <<wire, faults>>

AnnounceDeregister(e) ==
    /\ e \in spawnVars.leaving
    /\ spawnVars' = [spawnVars EXCEPT !.leaving = @ \ {e}]
    /\ wire' = Append(wire, Announcement("deregister", Child, e, "dyn", "none"))
    /\ OnlySpawning /\ UNCHANGED faults

\* The task is woken by the start or the end of the child.  Without wait=True
\* it looks its record up again, by name.
AnnounceBegins(t) ==
    /\ t \in spawnVars.tasks /\ t.at = "starting" /\ spawnVars.kid[t.epoch] # "starting"
    /\ LET up == spawnVars.kid[t.epoch] = "running"
           go == up /\ (t.wait \/ spawnVars.rec # 0)
           rec == IF t.wait THEN t.epoch ELSE spawnVars.rec
       IN  spawnVars' = [spawnVars EXCEPT !.tasks = (@ \ {t}) \cup
                            IF go THEN {[t EXCEPT !.at = "settling", !.rec = rec]} ELSE {}]
    /\ OnlySpawning /\ UNCHANGED <<wire, faults>>

\* wait_subscribed() has returned or failed: publish, and mark the record.
AnnounceChildUnmarked(t) ==
    /\ t \in spawnVars.tasks /\ t.at = "settling"
    /\ wire' = Append(wire, Announcement("register", Child, t.epoch, "dyn", "none"))
    /\ spawnVars' = [spawnVars EXCEPT !.tasks = @ \ {t}]
    /\ OnlySpawning /\ UNCHANGED faults

AnnounceChild(t) ==
    /\ t \in spawnVars.tasks /\ t.at = "settling"
    /\ wire' = Append(wire, Announcement("register", Child, t.epoch, "dyn", "none"))
    /\ spawnVars' = [spawnVars EXCEPT !.tasks = @ \ {t}, !.announced = @ \cup {t.rec}]
    /\ OnlySpawning /\ UNCHANGED faults

NoChild == [e \in Epochs |-> "none"]

\* The DynamicSupervisor is restarted: on_stop() cancels the children and the
\* background tasks, and a fresh one counts its epochs from zero.
DynamicSupervisorRestarts ==
    /\ config.scene = "spawning" /\ faults < config.faults /\ Spawned > 0
    /\ spawnVars' = [kid |-> NoChild, rec |-> 0, announced |-> {}, tasks |-> {}, leaving |-> {},
                     raced |-> {}, renumbered |-> TRUE]
    /\ faults' = faults + 1
    /\ OnlySpawning /\ UNCHANGED wire

Spawning ==
    \/ \E w \in BOOLEAN : Spawn(w)
    \/ \E e \in Epochs : ChildStarted(e) \/ ChildRemoved(e) \/ AnnounceDeregister(e)
    \/ \E t \in spawnVars.tasks : AnnounceBegins(t) \/ AnnounceChild(t)
    \/ DynamicSupervisorRestarts

-----------------------------------------------------------------------------
(* The Worker.                                                             *)

Channel == Channels[worker.id]
Alive == worker.state # "down"
OnlyWorker == UNCHANGED <<config, registryVars, spawnVars, monitorVars, supVars>>

\* start() up to the announcements: the transport and the agents are up.
WorkerStarts ==
    /\ config.scene = "probing" /\ worker.state = "down"
    /\ worker.id < IF config.returns THEN 2 ELSE 1
    /\ worker' = [state |-> "announcing", id |-> worker.id + 1]
    /\ agent' = [a \in Agents |-> "running"]
    /\ restarts' = [a \in Agents |-> 0]
    /\ untold' = AgentOrder \o <<RestartTopic>> \o IF config.legacy THEN <<>> ELSE <<Channels[worker.id + 1]>>
    /\ OnlyWorker /\ UNCHANGED <<wire, job, inbox, faults>>

WorkerAnnounces ==
    /\ worker.state = "announcing"
    /\ LET n == Head(untold)
           c == IF n \in Agents /\ ~config.legacy THEN Channel ELSE "none"
       IN  wire' = Append(wire, Announcement("register", n, 0, "none", c))
    /\ untold' = Tail(untold)
    /\ worker' = [worker EXCEPT !.state = IF Len(untold) = 1 THEN "up" ELSE @]
    /\ OnlyWorker /\ UNCHANGED <<agent, restarts, job, inbox, faults>>

\* stop(): the agents first, from the last to the first.
WorkerStops ==
    /\ worker.state = "up" /\ faults < config.faults
    /\ worker' = [worker EXCEPT !.state = "stopping"]
    /\ faults' = faults + 1
    /\ untold' = Reverse(AgentOrder)
    /\ OnlyWorker /\ UNCHANGED <<wire, agent, restarts, job, inbox>>

WorkerStopsAgent ==
    /\ worker.state = "stopping" /\ untold # <<>>
    /\ agent' = [agent EXCEPT ![Head(untold)] = "stopped"]
    /\ untold' = Tail(untold)
    /\ OnlyWorker /\ UNCHANGED <<worker, wire, restarts, job, inbox, faults>>

\* Then the deregistrations, and the transport.
WorkerLeaves ==
    /\ worker.state = "stopping" /\ untold = <<>>
    /\ wire' = wire \o [i \in DOMAIN AgentOrder |-> Announcement("deregister", AgentOrder[i], 0, "none", "none")]
    /\ worker' = [worker EXCEPT !.state = "down"]
    /\ job' = None /\ inbox' = <<>>
    /\ OnlyWorker /\ UNCHANGED <<agent, restarts, untold, faults>>

WorkerCrashes ==
    /\ Alive /\ faults < config.faults
    /\ worker' = [worker EXCEPT !.state = "down"]
    /\ faults' = faults + 1
    /\ untold' = <<>> /\ job' = None /\ inbox' = <<>>
    /\ OnlyWorker /\ UNCHANGED <<wire, agent, restarts>>

AgentCrashes(a) ==
    /\ worker.state \in {"announcing", "up"} /\ agent[a] = "running" /\ faults < config.faults
    /\ agent' = [agent EXCEPT ![a] = "crashed"]
    /\ faults' = faults + 1
    /\ OnlyWorker /\ UNCHANGED <<worker, wire, restarts, job, untold, inbox>>

\* _on_restart_command() runs on the task that receives.
TakeRestart ==
    /\ Alive /\ inbox # <<>> /\ Head(inbox).kind = "restart" /\ job = None
    /\ LET a == Head(inbox).to IN
       job' = IF restarts[a] >= WorkerMax THEN None ELSE [to |-> a, at |-> "stopping"]
    /\ inbox' = Tail(inbox)
    /\ OnlyWorker /\ UNCHANGED <<worker, wire, agent, restarts, untold, faults>>

RestartStops ==
    /\ job # None /\ job.at = "stopping"
    /\ agent' = [agent EXCEPT ![job.to] = "stopped"]
    /\ job' = [job EXCEPT !.at = "starting"]
    /\ OnlyWorker /\ UNCHANGED <<worker, wire, restarts, untold, inbox, faults>>

RestartStarts ==
    /\ job # None /\ job.at = "starting"
    /\ agent' = [agent EXCEPT ![job.to] = "running"]
    /\ restarts' = [restarts EXCEPT ![job.to] = @ + 1]
    /\ job' = None
    /\ OnlyWorker /\ UNCHANGED <<worker, wire, untold, inbox, faults>>

\* A fresh incarnation that cannot be built or started: logged, not counted.
RestartFails ==
    /\ job # None /\ job.at = "starting" /\ faults < config.faults
    /\ agent' = [agent EXCEPT ![job.to] = "crashed"]
    /\ job' = None /\ faults' = faults + 1
    /\ OnlyWorker /\ UNCHANGED <<worker, wire, restarts, untold, inbox>>

\* Where the next probe is in the inbox: behind nothing on ZeroMQ, where the
\* receiver must be free; anywhere on NATS.
Probes == {"probe", "ping", "stale"}
AtProbe(i) ==
    /\ Alive /\ inbox[i].kind \in Probes
    /\ \A j \in 1..i - 1 : config.net = "nats" /\ inbox[j].kind \notin Probes
    /\ config.net = "zmq" => job = None

Snapshot == [a \in Agents |-> agent[a] = "running"]

\* The health channel answers at once with a snapshot; a ping goes to the
\* agent's mailbox; nobody waits any more for the answer to a stale one.
TakeProbe ==
    \E i \in DOMAIN inbox :
        /\ AtProbe(i)
        /\ ack' = IF inbox[i].kind = "probe" THEN [to |-> "ack", alive |-> Snapshot] ELSE ack
        /\ probe' = IF inbox[i].kind = "ping" THEN [probe EXCEPT !.at = "delivered"] ELSE probe
        /\ inbox' = RemoveAt(inbox, i)
        /\ UNCHANGED <<config, registryVars, wire, spawnVars, workerVars, round, missed, supVars, faults>>

\* A running agent acknowledges a heartbeat, be it from the mailbox of the
\* incarnation before it.
AnswerPing ==
    /\ probe # None /\ probe.at = "delivered" /\ ack = None
    /\ Alive /\ agent[probe.to] = "running"
    /\ ack' = [to |-> "ack", alive |-> [a \in Agents |-> TRUE]]
    /\ UNCHANGED <<config, registryVars, wire, spawnVars, workerVars, inbox, round, probe, missed, supVars, faults>>

-----------------------------------------------------------------------------
(* The supervisor of the remote children.                                  *)

Unmissed == [n \in Names |-> 0]
ChannelOf(a) == entry[a].channel
Group(a) == IF ChannelOf(a) = "none" THEN [to |-> a, kids |-> {a}]
            ELSE [to |-> ChannelOf(a), kids |-> {b \in Agents : ChannelOf(b) = ChannelOf(a)}]
OnlyMonitor == UNCHANGED <<config, registryVars, wire, spawnVars, workerVars, faults>>

\* A tick of _heartbeat_loop(): one probe for each health channel, then a ping
\* for each child without one.
Tick ==
    /\ config.scene = "probing" /\ probe = None /\ round = {}
    /\ Len(events) < MaxEvents /\ Len(inbox) < MaxInbox
    /\ round' = {Group(a) : a \in Agents}
    /\ OnlyMonitor /\ UNCHANGED <<probe, ack, missed, inbox, supVars>>

\* bus.request(): a target without a route is an error that is only logged; a
\* message to a Worker that is down, or to an earlier one, is lost.
Send(m, there) == inbox' = IF Alive /\ there THEN Append(inbox, m) ELSE inbox

SendProbe(g) ==
    /\ g \in round /\ g.to \notin Agents /\ probe = None
    /\ round' = round \ {g}
    /\ IF Routed(g.to) THEN /\ probe' = [to |-> g.to, kids |-> g.kids, at |-> "sent"]
                            /\ Send([kind |-> "probe", to |-> g.to], g.to = Channel)
                       ELSE UNCHANGED <<probe, inbox>>
    /\ OnlyMonitor /\ UNCHANGED <<ack, missed, supVars>>

SendPing(g) ==
    /\ g \in round /\ probe = None /\ \A h \in round : h.to \in Agents
    /\ round' = round \ {g}
    /\ IF Routed(g.to) THEN /\ probe' = [to |-> g.to, kids |-> g.kids, at |-> "sent"]
                            /\ Send([kind |-> "ping", to |-> g.to], TRUE)
                       ELSE UNCHANGED <<probe, inbox>>
    /\ OnlyMonitor /\ UNCHANGED <<ack, missed, supVars>>

Forgotten == [i \in DOMAIN inbox |-> IF inbox[i].kind \in Probes THEN [inbox[i] EXCEPT !.kind = "stale"] ELSE inbox[i]]
Raise(kids) == events' = events \o SetToSeq(kids)

\* No answer in time.  At the threshold all the children behind the probe are
\* reported as crashed, and the count starts again.
CountMissUnkept ==
    /\ missed' = missed
    /\ IF Threshold = 1 THEN Raise(probe.kids) ELSE UNCHANGED events

CountMiss ==
    LET n == missed[probe.to] + 1
        over == n >= Threshold
    IN  /\ missed' = [missed EXCEPT ![probe.to] = IF over THEN 0 ELSE n]
        /\ IF over THEN Raise(probe.kids) ELSE UNCHANGED events

ProbeTimesOut ==
    /\ probe # None
    /\ CountMiss
    /\ probe' = None /\ ack' = None /\ inbox' = Forgotten
    /\ OnlyMonitor /\ UNCHANGED <<round, crashes>>

\* The answer in time: the count is reset, and children the snapshot shows
\* down are reported.
ProbeAnsweredUnread ==
    /\ probe # None /\ ack # None
    /\ missed' = [missed EXCEPT ![probe.to] = 0]
    /\ probe' = None /\ ack' = None
    /\ OnlyMonitor /\ UNCHANGED <<round, inbox, supVars>>

ProbeAnswered ==
    /\ probe # None /\ ack # None
    /\ missed' = [missed EXCEPT ![probe.to] = 0]
    /\ Raise({a \in probe.kids : ~ack.alive[a]})
    /\ probe' = None /\ ack' = None
    /\ OnlyMonitor /\ UNCHANGED <<round, inbox, crashes>>

RestartRemoteChild(a) == Send([kind |-> "restart", to |-> a], Routed(RestartTopic))

\* The supervisor's message loop takes a crash event, which carries no task and
\* so is never stale: within the budget the Worker is sent a restart command.
HandleCrash ==
    /\ events # <<>>
    /\ events' = Tail(events)
    /\ crashes' = IF crashes > MaxRestarts THEN crashes ELSE crashes + 1
    /\ IF crashes < MaxRestarts THEN RestartRemoteChild(Head(events)) ELSE UNCHANGED inbox
    /\ OnlyMonitor /\ UNCHANGED <<round, probe, ack, missed>>

-----------------------------------------------------------------------------
Init ==
    /\ RegistryInit
    /\ config \in Configs
    /\ wire = <<>>
    /\ spawnVars = [kid |-> NoChild, rec |-> 0, announced |-> {}, tasks |-> {}, leaving |-> {},
                    raced |-> {}, renumbered |-> FALSE]
    /\ worker = [state |-> "down", id |-> 0]
    /\ agent = [a \in Agents |-> "stopped"]
    /\ restarts = [a \in Agents |-> 0]
    /\ job = None /\ untold = <<>> /\ inbox = <<>>
    /\ round = {} /\ probe = None /\ ack = None
    /\ missed = Unmissed
    /\ events = <<>> /\ crashes = 0 /\ faults = 0

WorkerProceeds == WorkerAnnounces \/ WorkerStopsAgent \/ WorkerLeaves
Receives == TakeRestart \/ RestartStops \/ RestartStarts \/ RestartFails \/ TakeProbe
Monitors == Tick \/ (\E g \in round : SendProbe(g) \/ SendPing(g)) \/ ProbeTimesOut \/ ProbeAnswered

Next ==
    \/ Deliver
    \/ Spawning
    \/ WorkerStarts \/ WorkerProceeds \/ WorkerStops \/ WorkerCrashes
    \/ \E a \in Agents : AgentCrashes(a)
    \/ Receives \/ AnswerPing
    \/ Monitors
    \/ HandleCrash

\* The event loops of both processes run what is ready: the receiver tasks,
\* the Worker's start() and stop(), the heartbeat loop, whose awaits end with
\* an answer or a timeout, and the supervisor's message loop.
ClusterSpec ==
    /\ Init /\ [][Next]_vars
    /\ WF_vars(Deliver) /\ WF_vars(WorkerProceeds) /\ WF_vars(Receives)
    /\ WF_vars(Monitors) /\ WF_vars(HandleCrash)

-----------------------------------------------------------------------------
AtRest == wire = <<>> /\ spawnVars.tasks = {} /\ spawnVars.leaving = {}

\* Once its announcements have arrived, a child that was spawned has a route
\* to its present incarnation, and a child that is gone has none, however
\* spawns, starts, ends and background announcements interleaved: except for
\* an incarnation removed while it was being announced, and except after a
\* restart of its DynamicSupervisor (_announce_child(),
\* _maybe_announce_deregister(), register_remote()).
RouteExact ==
    AtRest /\ ~spawnVars.renumbered =>
        /\ Routed(Child) /\ entry[Child].epoch \notin spawnVars.raced => spawnVars.rec = entry[Child].epoch
        /\ spawnVars.rec # 0 => entry[Child].epoch = spawnVars.rec

Exhausted == crashes > MaxRestarts

\* An agent that crashes in a Worker that is up is restarted there, unless the
\* supervisor's budget or the Worker's is spent or the Worker ends: by the
\* snapshot of the next probe, or by the pings that go unanswered
\* (_probe_health_channel(), _on_restart_command()).
RemoteCrashAnswered ==
    \A a \in Agents :
        (worker = [state |-> "up", id |-> 1] /\ agent[a] = "crashed") ~>
            (agent[a] = "running" \/ Exhausted \/ worker.state # "up" \/ restarts[a] = WorkerMax)

\* A Worker that dies for good is noticed: its children are reported again and
\* again until the budget is spent, provided its announcements had arrived
\* (_heartbeat_loop(), _probe_health_channel()).
DeadWorkerDeclared ==
    (worker.state = "down" /\ worker.id = 1 /\ \A a \in Agents : Routed(Group(a).to)) ~>
        (Exhausted \/ worker.state # "down" \/ \E a \in Agents : ~Routed(a))

\* What _group_by_health_channel() promises: "Looked up per tick so workers
\* coming/going are tracked naturally".  When a Worker has announced itself,
\* its agents are probed through its own health channel.
WorkersTracked ==
    worker.state = "up" /\ wire = <<>> /\ ~config.legacy => \A a \in Agents : Group(a).to = Channel
=============================================================================
