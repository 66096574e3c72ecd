---------------------------- MODULE MCLifecycle ----------------------------
(* Files of a supervisor and two leaves of every kind, processes with      *)
(* every combination of parts, gateways of every configuration, and a few  *)
(* systems behind a gateway.  A behaviour is about one of them.            *)
EXTENDS Lifecycle, ControlPlane

Leaf(kind, name, type, tag, up) ==
    [kind |-> kind, name |-> name, type |-> type, tag |-> tag, up |-> up]

FirstLeaves ==
    {Leaf(k, n, t, tag, up) :
        k \in {"agent", "module", "dotted", "unknown"} \cup Typed,
        n \in {"a", "s", NoName}, t \in {"C", NotFound}, tag \in {NoTag, "w", "1"},
        up \in {0, 1}}
SecondLeaves ==
    {Leaf(k, n, "C", tag, 0) :
        k \in {"agent", "topology_server"},
        n \in {"a", "b"}, tag \in {NoTag, "w"}}
Sup == Leaf("supervisor", "s", "one_for_one", NoTag, 0)

File(nodes) ==
    [unknown |-> FALSE, section |-> TRUE, root |-> "r", strategy |-> "one_for_one",
     nodes |-> nodes, transport |-> "zmq", store |-> NoName, inner |-> NoName,
     exporters |-> {}, keyed |-> {}]

Base == File(<<Sup, Leaf("agent", "a", "C", NoTag, 1), Leaf("agent", "b", "C", "w", 0)>>)

\* Files that differ from Base in what surrounds the tree.
Others ==
    {[Base EXCEPT !.unknown = TRUE], [Base EXCEPT !.section = FALSE],
     [Base EXCEPT !.strategy = NotFound], [Base EXCEPT !.transport = "in_process"],
     [Base EXCEPT !.transport = "other"], [Base EXCEPT !.exporters = {"console", NotFound}],
     [Base EXCEPT !.nodes[1].name = "r"], [Base EXCEPT !.nodes = <<>>]}
    \cup {[Base EXCEPT !.store = x, !.inner = y, !.keyed = z] :
            x \in {"sqlite", "encrypted"}, y \in {"sqlite", NotFound, NoName},
            z \in {{}, {Coordinator}, {Coordinator, "w"}}}

Files == {File(<<Sup, x, y>>) : x \in FirstLeaves, y \in SecondLeaves} \cup Others

Variants(f) ==
    {f} \cup {[f EXCEPT !.nodes[2] = x] :
                x \in {Leaf("agent", "a", t, tag, 1) :
                          t \in {"C", "D"}, tag \in {NoTag, "w"}}}

Scene(s, f, g, o) ==
    [scene |-> s, file |-> f, other |-> g, override |-> o, role |-> "runtime",
     transport |-> "in_process", exporters |-> FALSE, signing |-> FALSE,
     jetstream |-> FALSE, mcp |-> FALSE, tree |-> TRUE, store |-> "memory",
     audit |-> FALSE, away |-> FALSE, faults |-> 0]

FileScenes ==
    {Scene("files", f, f, NoName) : f \in Files}
    \cup {Scene("files", Base, g, "nats") : g \in Variants(Base)}
    \cup {Scene("files", [Base EXCEPT !.nodes[3] = y], Base, "in_process") : y \in SecondLeaves}

Lives ==
    {[Scene("life", Base, Base, NoName) EXCEPT
        !.role = r, !.transport = t, !.exporters = e, !.signing = g, !.mcp = g,
        !.jetstream = e, !.store = s, !.audit = g, !.tree = v, !.away = w, !.faults = 2] :
        r \in {"runtime", "worker"}, t \in {"in_process", "zmq", "nats"},
        e \in BOOLEAN, g \in BOOLEAN, s \in {"memory", "sqlite"}, v \in BOOLEAN, w \in BOOLEAN}

LifeScenes ==
    {c \in Lives : /\ c.role = "worker" =>
                        /\ c.transport # "in_process" /\ c.tree /\ ~c.signing
                        /\ c.store = "memory"
                   /\ c.away => c.transport = "nats"}

Off == Scene("off", Base, Base, NoName)
MCConfigs == FileScenes \cup LifeScenes \cup {Off}
MCMembers == <<"x", "y">>
-----------------------------------------------------------------------------
MCGateways ==
    {g \in [tls : BOOLEAN, ca : BOOLEAN, http3 : BOOLEAN, quic : {TRUE}, grpc : BOOLEAN,
            gport : BOOLEAN, certs : {"none", "optional", "required"},
            source : {"direct", "proxy_header"}, cidrs : {"none", "valid", "invalid"},
            middleware : {{}, {"jwt"}, {"cert"}, {"key", "cert"}}, routed : {{}, {"jwt"}, {"missing"}},
            jwtset : BOOLEAN, docs : {"auto", "on", "off"}] :
       /\ g.source = "direct" => g.cidrs = "none"
       /\ ~g.grpc => g.gport
       /\ "jwt" \notin ConfiguredMiddleware(g) => g.jwtset
       /\ g.docs # "auto" => g.routed = {} /\ ~g.grpc}
NoGateway == CHOOSE g \in MCGateways : TRUE

Agent(n) == [name |-> n, kind |-> "agent", inc |-> 1, kids |-> {}]
Over(n, kind, kids) == [name |-> n, kind |-> kind, inc |-> 1, kids |-> kids]
MCTree == Over("root", "supervisor",
               {Agent("a"), Agent(Topo), Agent(Limiter), Agent(Eval), Over("d2", "dynamic", {}),
                Over("s", "supervisor", {Over("d1", "dynamic", {Agent("x")})})})

Plan(method, path) ==
    [method |-> method, path |-> path, body |-> <<>>, client |-> "c1", key |-> TRUE,
     token |-> "ann", cert |-> "listed", wellformed |-> TRUE]
Bodies == {<<>>, "type" :> "job", "type" :> "reserved", "name" :> "a" @@ "__op__" :> "resume"}

NoPlay ==
    [requests |-> 0, plans |-> "none", chain |-> <<>>, guard |-> <<>>, rpc |-> <<"jwt", "cert">>, routes |-> <<>>,
     secret |-> TRUE, collector |-> TRUE, docs |-> FALSE, tree |-> MCTree, crashes |-> {}, evals |-> {}, dynamic |-> {},
     parents |-> {}, channels |-> {}, timed |-> FALSE, changes |-> 0]

\* Two requests at a time, writes and reads, while x comes and goes.
Writes ==
    [NoPlay EXCEPT !.requests = 2, !.plans = "control", !.guard = <<"jwt">>, !.dynamic = {"x"},
       !.parents = {"d2"}, !.channels = {"w1", "w2"}, !.changes = 2]
ControlPlans ==
    {[Plan("POST", <<"agents", "x", v>>) EXCEPT !.body = b] :
        v \in {"suspend", "mailbox", "restart"},
        b \in {"type" :> "job", "name" :> "a" @@ "__op__" :> "resume"}}
    \cup {[Plan("POST", <<"agents", "x", "suspend">>) EXCEPT !.token = "bad"],
          Plan("POST", <<"agents", "empty", "suspend">>), Plan("POST", <<"agents", "x">>)}
    \cup {Plan("GET", p) : p \in {<<"health">>, <<"agents", "x">>, <<"processes">>}}

\* One request of every shape, through every middleware.
Shapes ==
    {[NoPlay EXCEPT !.requests = 1, !.plans = "shapes", !.chain = c, !.docs = d, !.secret = s,
       !.collector = s,
       !.routes = <<Entry("POST", <<Lit("jobs"), Par("name")>>, "a", "cast", <<"cert">>, <<>>, FALSE),
                    Entry("GET", <<Lit("agents"), Par("id")>>, "a", "call", <<>>, <<>>, FALSE)>>] :
        c \in {<<>>, <<"cert", "key">>}, d \in {TRUE}, s \in BOOLEAN}
ShapePlans ==
    {[Plan(m, p) EXCEPT !.key = k, !.cert = x, !.body = b, !.wellformed = w] :
        m \in {"GET", "POST"},
        p \in {<<"docs">>, <<"jobs", "j">>, <<"agents", "a">>, <<"agents", "z">>,
               <<"agents", "a", "cast">>, <<"agents", "a", "state">>, <<"agents", "a", "mailbox">>,
               <<"agents", "a", "resume">>, <<"topology">>, <<"snapshot">>, <<"metrics">>},
        k \in BOOLEAN, x \in {"none", "listed", "other"}, b \in Bodies, w \in BOOLEAN}
    \cup {[Plan(m, <<n>>) EXCEPT !.token = t, !.cert = x] :
            m \in Rpc, n \in {"a", "z"}, t \in {"ann", "none", "bad"}, x \in {"none", "listed", "other"}}

\* Three calls of two clients under a limit, and corrections under the other.
Limited ==
    [NoPlay EXCEPT !.requests = 3, !.plans = "clients", !.chain = <<"limit">>, !.timed = TRUE,
       !.crashes = {Limiter}, !.changes = 1]
ClientPlans == {[Plan("POST", <<"agents", "z">>) EXCEPT !.client = c] : c \in {"c1", "c2"}}
Corrected ==
    [NoPlay EXCEPT !.evals = {"a", "x"}, !.timed = TRUE, !.dynamic = {"x"}, !.parents = {"d1"},
       !.changes = 2]

\* The tree under every change.
Changing ==
    [NoPlay EXCEPT !.dynamic = {"x", "y"}, !.parents = {"d1", "d2"}, !.crashes = {"a", "d1", "d2"},
       !.changes = 6]

MCPlays == {Writes, Limited, Corrected, Changing} \cup Shapes
MCPlans(name) ==
    CASE name = "control" -> ControlPlans [] name = "shapes" -> ShapePlans
      [] name = "clients" -> ClientPlans [] OTHER -> {}

Asleep == [NoPlay EXCEPT !.tree.kids = {}]

Resting ==
    /\ Init /\ config.scene = "off"
    /\ gw = NoGateway /\ phase = "off" /\ GwRest
    /\ play = Asleep /\ ServeRest

EdgesInit ==
    \/ Init /\ config.scene # "off" /\ gw = NoGateway /\ phase = "off" /\ GwRest
       /\ play = Asleep /\ ServeRest
    \/ Init /\ config.scene = "off" /\ GwInit /\ play = Asleep /\ ServeRest
    \/ Init /\ config.scene = "off" /\ gw = NoGateway /\ phase = "off" /\ GwRest /\ ServeInit

EdgesVars == <<vars, gwVars, serveVars>>

EdgesNext ==
    \/ Next /\ UNCHANGED <<gwVars, serveVars>>
    \/ GwNext /\ UNCHANGED <<vars, serveVars>>
    \/ ServeNext /\ UNCHANGED <<vars, gwVars>>
=============================================================================
