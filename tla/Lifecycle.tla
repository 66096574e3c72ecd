----------------------------- MODULE Lifecycle -----------------------------
(***************************************************************************)
(* The life of a process of the system.  In the scene "files" a user runs  *)
(* the commands of module Topology on a topology file.  In the scene       *)
(* "life" a caller starts and stops one Runtime or one Worker, several     *)
(* times, and any step of start() or stop() that awaits something outside  *)
(* may raise.                                                              *)
(*                                                                         *)
(* start() and stop() are sequences of steps, built by one operator per    *)
(* part of the system.  A step takes or drops a resource (a task, a        *)
(* thread, a connection), begins or ends a message loop, or only may raise *)
(* on the way.  A resource belongs to the component set of the start()     *)
(* that took it: `gen` numbers them, and stop() sees the current one only. *)
(***************************************************************************)
EXTENDS Topology, SequencesExt

CONSTANTS Configs,  \* the configurations to choose from
          Members,  \* the agents of the tree, a sequence of names
          MaxCalls  \* the calls of start() and stop()

VARIABLES config,
          verdict,  \* what validate and diff reported
          hosts,    \* process name -> what its command came to
          gen,      \* the number of component sets built
          held,     \* the resources in use, each with its component set
          loops,    \* name -> the number of message loops running
          started, plan, calls, faults,
          failed,   \* some start() has raised
          named,    \* the component sets whose registry holds the agents
          closed    \* the stores and sinks that have been closed

fileVars == <<verdict, hosts>>
lifeVars == <<gen, held, loops, started, plan, calls, faults, failed, named, closed>>
vars == <<config, fileVars, lifeVars>>

Root == "root"
Loops == {Root} \cup ToSet(Members)
Down == [state |-> "down", nodes |-> {}]

-----------------------------------------------------------------------------
(* The steps.                                                              *)

\* may: "no", "before" or "after" its effect the step may raise.
Step(do, what, may) == [do |-> do, what |-> what, may |-> may]

\* The task that drains the span queue, when there are exporters.
OtelSteps == IF config.exporters THEN <<Step("take", "otel", "no")>> ELSE <<>>

\* A new component set, unless one was given or, in a Worker, kept.
BuildSteps == <<Step("build", "components", "before")>>

\* With signing on, the keys of the agents are loaded.
IdentitySteps ==
    IF config.signing THEN <<Step("pass", "identities", "before")>> ELSE <<>>

\* The proxy thread is on record before it is known to have come up.
ProxyStart ==
    IF config.role = "runtime" THEN <<Step("take", "proxy", "after")>> ELSE <<>>

ZmqStart ==
    ProxyStart
    \o <<Step("take", "sockets", "after"), Step("take", "receiver", "no")>>

NatsStart ==
    <<Step("take", "connection", "before")>>
    \o (IF config.jetstream THEN <<Step("pass", "stream", "before")>> ELSE <<>>)

TransportStart ==
    CASE config.transport = "zmq" -> ZmqStart
      [] config.transport = "nats" -> NatsStart
      [] OTHER -> <<>>

\* The names of the agents.  They are never deregistered, so they can be
\* registered once in a component set.
RegisterSteps == <<Step("register", "names", "no")>>

\* The mailboxes of the agents, _agency.register and the others.
SubscribeSteps == <<Step("pass", "subscriptions", "before")>>

\* A server that cannot be reached is logged.
McpSteps == IF config.mcp THEN <<Step("connect", "mcp", "no")>> ELSE <<>>

\* Supervisor.start(): the own loop, then the children in order.
TreeStart ==
    <<Step("begin", Root, "before")>>
    \o [i \in DOMAIN Members |-> Step("begin", Members[i], "before")]

RuntimeStart ==
    IF ~config.tree
    THEN BuildSteps \o OtelSteps \o <<Step("up", "started", "no")>>
    ELSE BuildSteps \o OtelSteps \o IdentitySteps \o RegisterSteps
         \o TransportStart \o SubscribeSteps \o McpSteps \o TreeStart \o <<Step("up", "started", "no")>>

\* The announcements are published when the agents run.
WorkerStart ==
    BuildSteps \o OtelSteps \o TransportStart \o RegisterSteps \o SubscribeSteps
    \o [i \in DOMAIN Members |-> Step("begin", Members[i], "before")]
    \o <<Step("pass", "announcements", "before"), Step("up", "started", "no")>>

\* Supervisor.stop(): the own loop, then the children in reverse order; an
\* agent that raises while it ends has ended, and the exception goes on.
TreeStop ==
    <<Step("end", Root, "after")>>
    \o [i \in DOMAIN Members |-> Step("end", Reverse(Members)[i], "after")]

ProxyStop == <<Step("drop", "proxy", "no")>>

ZmqStop ==
    <<Step("drop", "receiver", "no"), Step("drop", "sockets", "no")>> \o ProxyStop

\* A client that is reconnecting is not drained, and not closed.
NatsStop == <<Step("drain", "connection", "before")>>

TransportStop ==
    CASE config.transport = "zmq" -> ZmqStop
      [] config.transport = "nats" -> NatsStop
      [] OTHER -> <<>>

\* Closing a store or a file is final; nobody opens it again.
StoreStop == IF config.store = "sqlite" THEN <<Step("close", "store", "no")>> ELSE <<>>

OtelStop == <<Step("drop", "otel", "no")>>

AuditStop == IF config.audit THEN <<Step("close", "audit", "before")>> ELSE <<>>

RuntimeStopTransportFirst ==
    TransportStop \o (IF config.tree THEN TreeStop ELSE <<>>)
    \o StoreStop \o OtelStop \o AuditStop \o <<Step("down", "started", "no")>>

RuntimeStop ==
    (IF config.tree THEN TreeStop ELSE <<>>)
    \o TransportStop \o StoreStop \o OtelStop \o AuditStop
    \o <<Step("down", "started", "no")>>

\* A Worker leaves its store open.
WorkerStop ==
    [i \in DOMAIN Members |-> Step("end", Reverse(Members)[i], "after")]
    \o TransportStop \o OtelStop \o <<Step("down", "started", "no")>>

-----------------------------------------------------------------------------
(* Calls and steps.                                                        *)

Idle == plan = <<>>
Op == Head(plan)

StartSteps == IF config.role = "runtime" THEN RuntimeStart ELSE WorkerStart
StopSteps == IF config.role = "runtime" THEN RuntimeStop ELSE WorkerStop

\* A caller of a Worker does not start it twice; Runtime.start() checks.
CallStart ==
    /\ Idle /\ calls < MaxCalls
    /\ ~started
    /\ plan' = StartSteps
    /\ calls' = calls + 1
    /\ UNCHANGED <<gen, held, loops, started, faults, failed, named, closed>>

\* Not started: returns at once.
CallStop ==
    /\ Idle /\ calls < MaxCalls
    /\ started
    /\ plan' = StopSteps
    /\ calls' = calls + 1
    /\ UNCHANGED <<gen, held, loops, started, faults, failed, named, closed>>

\* Assigning over a task or a transport forgets the old one, it does not
\* end it: the old one is still held, under its own number.
Take(r) == held' = held \cup {<<r, gen>>}
Drop(r) == held' = held \ {<<r, gen>>}

Build ==
    /\ gen' = IF config.role = "worker" /\ gen > 0 THEN gen ELSE gen + 1
    /\ UNCHANGED <<held, loops, closed>>

Connect(r) ==
    /\ Take(r) \/ UNCHANGED held
    /\ UNCHANGED <<gen, loops, closed>>

Begin(m) ==
    /\ loops' = [loops EXCEPT ![m] = @ + 1]
    /\ UNCHANGED <<gen, held, closed>>

\* _stop() of an agent whose loop has ended returns; the loop ends with the
\* MCP clients of its agent.
End(m) ==
    /\ loops' = [loops EXCEPT ![m] = IF @ > 0 THEN @ - 1 ELSE 0]
    /\ IF m # Root THEN Drop("mcp") ELSE UNCHANGED held
    /\ UNCHANGED <<gen, closed>>

\* What a step does when it does not raise, or raises after it.
Effect(o) ==
    CASE o.do = "build" -> Build
      [] o.do = "take" -> Take(o.what) /\ UNCHANGED <<gen, loops, closed>>
      [] o.do = "drop" -> Drop(o.what) /\ UNCHANGED <<gen, loops, closed>>
      [] o.do = "drain" -> /\ IF config.away THEN UNCHANGED held ELSE Drop(o.what)
                           /\ UNCHANGED <<gen, loops, closed>>
      [] o.do = "connect" -> Connect(o.what)
      [] o.do = "begin" -> Begin(o.what)
      [] o.do = "end" -> End(o.what)
      [] o.do = "close" -> closed' = closed \cup {o.what} /\ UNCHANGED <<gen, held, loops>>
      [] OTHER -> UNCHANGED <<gen, held, loops, closed>>

Advance ==
    /\ ~Idle
    /\ Effect(Op)
    /\ plan' = Tail(plan)
    /\ started' = CASE Op.do = "up" -> TRUE [] Op.do = "down" -> FALSE [] OTHER -> started
    /\ Op.do = "register" => gen \notin named
    /\ named' = IF Op.do = "register" THEN named \cup {gen} ELSE named
    /\ UNCHANGED <<calls, faults, failed>>

\* An exception: what has been done stays done, the rest is not tried.
Raise ==
    /\ ~Idle /\ Op.may # "no" /\ faults > 0
    /\ IF Op.may = "after" THEN Effect(Op) ELSE UNCHANGED <<gen, held, loops, closed>>
    /\ plan' = <<>>
    /\ faults' = faults - 1
    /\ failed' = (failed \/ ~started)
    /\ UNCHANGED <<started, calls, named>>

\* A Worker keeps its component set: the names are still there from before.
AlreadyRegistered ==
    /\ ~Idle /\ Op.do = "register" /\ gen \in named
    /\ plan' = <<>>
    /\ failed' = TRUE
    /\ UNCHANGED <<gen, held, loops, started, calls, faults, named, closed>>

-----------------------------------------------------------------------------
(* The commands.                                                           *)

Validate ==
    /\ verdict' = [verdict EXCEPT !.valid = IF Valid(config.file) THEN "yes" ELSE "no"]
    /\ UNCHANGED hosts

Diff ==
    /\ verdict' = [verdict EXCEPT !.differ =
                      IF Differ(config.file, config.other) THEN "yes" ELSE "no"]
    /\ UNCHANGED hosts

RunSupervisor ==
    /\ hosts[Coordinator] = Down
    /\ hosts' = [hosts EXCEPT ![Coordinator] =
          IF FromConfigRaises(config.file) \/ RegisterRaises(config.file)
          THEN [state |-> "raised", nodes |-> {}]
          ELSE [state |-> "up", nodes |-> Built(config.file)]]
    /\ UNCHANGED verdict

\* A Worker needs a broker.
RunWorker(p) ==
    /\ hosts[p] = Down
    /\ hosts' = [hosts EXCEPT ![p] =
          IF WorkerRaises(config.file, p)
             \/ TransportOf(config.file, config.override, p) \notin {"zmq", "nats"}
          THEN [state |-> "raised", nodes |-> {}]
          ELSE [state |-> "up", nodes |-> FindProcessAgents(config.file, p)]]
    /\ UNCHANGED verdict

-----------------------------------------------------------------------------
Init ==
    /\ config \in Configs
    /\ verdict = [valid |-> "unknown", differ |-> "unknown"]
    /\ hosts = [p \in Processes \cup {Coordinator} |-> Down]
    /\ gen = 0 /\ held = {} /\ loops = [m \in Loops |-> 0]
    /\ started = FALSE /\ plan = <<>> /\ calls = 0
    /\ faults = config.faults /\ failed = FALSE /\ named = {} /\ closed = {}

Next ==
    \/ /\ config.scene = "files"
       /\ \/ Validate
          \/ Diff
          \/ RunSupervisor
          \/ \E p \in Processes : RunWorker(p)
       /\ UNCHANGED <<config, lifeVars>>
    \/ /\ config.scene = "life"
       /\ \/ CallStart
          \/ CallStop
          \/ Advance
          \/ Raise
          \/ AlreadyRegistered
       /\ UNCHANGED <<config, fileVars>>

Spec == Init /\ [][Next]_vars

-----------------------------------------------------------------------------
Leaves(f) ==
    {i \in Nodes(f) : /\ f.nodes[i].kind \in {"agent", "dynamic_supervisor"}
                      /\ f.nodes[i].tag \notin Numeric}

\* The coordinator (_build_node with process_filter=None) and the workers
\* (_find_process_agents) divide the leaves of a file among them: no leaf is
\* hosted by two processes, and once every process is up each agent and each
\* dynamic supervisor is hosted by the process its tag names.
HostedOnce ==
    /\ \A p, q \in DOMAIN hosts : p # q => hosts[p].nodes \cap hosts[q].nodes = {}
    /\ (\A p \in DOMAIN hosts : hosts[p].state = "up") =>
          \A i \in Leaves(config.file) :
             LET tag == config.file.nodes[i].tag IN
             /\ tag = NoTag => i \in hosts[Coordinator].nodes
             /\ tag \in Processes => i \in hosts[tag].nodes

\* What the two checks of the command line do not look at: classes, plugins,
\* the names of supervisors and of the parts of a topology server.
Unchecked(f) ==
    \/ f.unknown
    \/ \E i \in Nodes(f) : f.nodes[i].type \in {NotFound, NoName}
    \/ \E p \in DOMAIN hosts : PluginsRaise(f, p)
    \/ \E i, j \in Nodes(f) : /\ i # j /\ Made(f.nodes[i]) \cap Made(f.nodes[j]) # {}
                              /\ {f.nodes[i].kind, f.nodes[j].kind}
                                    \cap {"supervisor", "topology_server"} # {}
    \/ \E i \in Nodes(f) : /\ f.nodes[i].kind = "supervisor"
                           /\ f.nodes[i].name \in {f.root, NoName}

\* A file `topology validate` called valid starts: neither from_config() nor
\* the registrations of Runtime.start() refuse it.  Two files without a
\* difference, made of supervisors and agents with names of their own, give
\* every process the same agents.
ReportsTrue ==
    /\ verdict.valid = "yes" /\ ~Unchecked(config.file) =>
          hosts[Coordinator].state # "raised"
    /\ LET f == config.file
           g == config.other
           plain(x) == /\ \A i \in Nodes(x) : x.nodes[i].kind \in {"supervisor", "agent"}
                       /\ \A i, j \in Nodes(x) : i # j => PathOf(x)[i] # PathOf(x)[j]
           given(x, S) == {<<PathOf(x)[i], x.nodes[i].type>> : i \in S}
       IN  verdict.differ = "no" /\ plain(f) /\ plain(g) =>
              /\ given(f, Built(f)) = given(g, Built(g))
              /\ \A p \in Processes :
                    given(f, FindProcessAgents(f, p)) = given(g, FindProcessAgents(g, p))

TransportParts ==
    CASE config.transport = "zmq" -> {"sockets", "receiver"}
      [] config.transport = "nats" -> {"connection"}
      [] OTHER -> {}

\* When stop() has returned, after however many calls of it that raised,
\* nothing the runtime or the worker started is left: no message loop, task,
\* thread, socket, connection or MCP client, a NATS client that was reconnecting
\* excepted.  And until then an agent whose loop runs has what it was given, in
\* the first life of the process: the transport is up, the span queue is drained
\* and neither the state store nor the audit sink is closed.  Both for a process
\* none of whose start() calls raised.
StopReleases ==
    ~failed =>
        /\ (config.scene = "life" /\ Idle /\ ~started /\ ~config.away) =>
               held = {} /\ \A m \in Loops : loops[m] = 0
        /\ (gen = 1 /\ \E m \in Loops : loops[m] > 0) =>
               /\ \A r \in TransportParts : <<r, gen>> \in held
               /\ config.exporters => <<"otel", gen>> \in held
               /\ closed = {}
=============================================================================
