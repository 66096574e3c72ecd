---------------------------- MODULE ControlPlane ----------------------------
(***************************************************************************)
(* A request's way through the gateway: the middleware chain with its rate *)
(* limiter, the route table, the dispatcher, and the agents behind it, the *)
(* TopologyAgent with its reads and its control-plane writes among them.   *)
(* Beside it, EvalAgent's limit on corrections.                            *)
(*                                                                         *)
(* A path is a sequence of segments and a payload a function from keys to  *)
(* values.  The rate limiter, the topology agent and the other agents take *)
(* one message at a time; a request waits for its reply or its timeout,    *)
(* and a message whose request has timed out is handled all the same.      *)
(***************************************************************************)
EXTENDS Gateway, FiniteSetsExt, SequencesExt

CONSTANTS Plays,      \* the scenes to choose from
          Plans(_),   \* the requests of a scene
          MaxRequests, Names, Clients,
          MaxHits, Window, MaxClock, MaxVerdicts

VARIABLES play,     \* the scene: requests, middleware, the tree
          req,      \* request -> its state
          box,      \* agent -> its mailbox
          tree,     \* the supervision tree of the runtime
          agents,   \* name -> incarnation: the map the runtime keeps
          probing,  \* the topology agent: the channels it still asks, or Idle
          hits,     \* the rate limiter: client -> times
          marks,    \* the eval agent: target -> times
          verdicts, \* every decision of the two limiters
          handled,  \* what reached an agent's mailbox, and for whom
          clock, changes

serveVars == <<play, req, box, tree, agents, probing, hits, marks, verdicts, handled, clock,
               changes>>

Topo == "topology_agent"
Limiter == "rate_limiter"
Eval == "eval_agent"
NoRequest == 0
Requests == 1..MaxRequests
NoPlan == [method |-> "none", path |-> <<>>, wellformed |-> FALSE]
Rest == [at |-> "idle"]
-----------------------------------------------------------------------------
(* The tree.  A node has a name, a kind, an incarnation and children.      *)

RECURSIVE SerializeNode(_), CollectDynamicChildren(_), SearchTree(_, _), SearchTreeFirst(_, _),
          AllAgents(_), Below(_), Subst(_, _, _)

Row(n) == [name |-> n.name, inc |-> n.inc]

\* /topology: the rows below a node, its own first; supervisors have no row.
SerializeNode(n) ==
    (IF n.kind = "supervisor" THEN {} ELSE {Row(n)})
    \cup UNION {SerializeNode(m) : m \in n.kids}

CollectDynamicChildren(n) ==
    CASE n.kind = "dynamic" -> {Row(m) : m \in n.kids}
      [] n.kind = "supervisor" -> UNION {CollectDynamicChildren(m) : m \in n.kids}
      [] OTHER -> {}

\* The agents below a supervisor, those that supervise dynamically included.
AllAgents(n) ==
    UNION {IF m.kind = "supervisor" THEN AllAgents(m) ELSE {Row(m)} : m \in n.kids}

\* /agents: the map of static agents, then the dynamic ones.
AgentsList == {[name |-> x, inc |-> agents[x]] : x \in DOMAIN agents}
              \cup CollectDynamicChildren(tree)

SearchTreeFirst(n, x) ==
    CASE n.kind = "dynamic" -> {Row(m) : m \in {m \in n.kids : m.name = x}}
      [] n.kind = "supervisor" /\ \E m \in n.kids : m.kind # "agent" ->
            SearchTreeFirst(CHOOSE m \in n.kids : m.kind # "agent", x)
      [] OTHER -> {}

\* The dynamic agent of that name: one row, or none.
SearchTree(n, x) ==
    CASE n.kind = "dynamic" -> {Row(m) : m \in {m \in n.kids : m.name = x}}
      [] n.kind = "supervisor" -> UNION {SearchTree(m, x) : m \in n.kids}
      [] OTHER -> {}

\* /agents/{name}: from the map first.
AgentDetail(x) ==
    IF x \in DOMAIN agents THEN {[name |-> x, inc |-> agents[x]]} ELSE SearchTree(tree, x)

Below(n) == n.kids \cup UNION {Below(m) : m \in n.kids}
Node(x) == CHOOSE n \in Below(tree) : n.name = x

\* The tree with the nodes S in the place of the one named x.
Subst(n, x, S) ==
    [n EXCEPT !.kids = UNION {IF m.name = x THEN S ELSE {Subst(m, x, S)} : m \in n.kids}]

Registered == {r.name : r \in SerializeNode(tree)}

\* The channels of the workers that the registry's entries name.
DistinctHealthChannels == play.channels
-----------------------------------------------------------------------------
(* Routes and payloads.                                                    *)

Lit(s) == [param |-> FALSE, name |-> s]
Par(s) == [param |-> TRUE, name |-> s]

\* A table is a sequence of entries; the first that fits is taken.
Entry(method, pattern, agent, mode, chain, extra, principal) ==
    [method |-> method, pattern |-> pattern, agent |-> agent, mode |-> mode, chain |-> chain,
     extra |-> extra, principal |-> principal]

ReadRoute(pattern, op) ==
    Entry("GET", pattern, Topo, "call", IF op = "health" THEN <<>> ELSE play.guard,
          "__op__" :> op, FALSE)
WriteRoute(verb, op) ==
    Entry("POST", <<Lit("agents"), Par("name"), Lit(verb)>>, Topo, "call", play.guard,
          "__op__" :> op, TRUE)

TopologyRouteSpecs ==
    <<ReadRoute(<<Lit("health")>>, "health"), ReadRoute(<<Lit("topology")>>, "topology"),
      ReadRoute(<<Lit("agents")>>, "agents"),
      ReadRoute(<<Lit("agents"), Par("name")>>, "agent_detail"),
      ReadRoute(<<Lit("agents"), Par("name"), Lit("mailbox")>>, "mailbox_peek"),
      ReadRoute(<<Lit("snapshot")>>, "snapshot"), ReadRoute(<<Lit("metrics")>>, "metrics"),
      ReadRoute(<<Lit("processes")>>, "processes")>>

TopologyWriteRouteSpecs ==
    <<WriteRoute("suspend", "suspend"), WriteRoute("resume", "resume"),
      WriteRoute("restart", "restart"), WriteRoute("mailbox", "mailbox_inject")>>

\* HTTPGateway: the routes of the configuration come first.
Table == play.routes \o TopologyRouteSpecs \o TopologyWriteRouteSpecs

MatchSegments(pattern, path) ==
    /\ Len(pattern) = Len(path)
    /\ \A i \in DOMAIN path : ~pattern[i].param => pattern[i].name = path[i]

PathParams(pattern, path) ==
    [k \in {pattern[i].name : i \in {j \in DOMAIN pattern : pattern[j].param}} |->
        path[CHOOSE i \in DOMAIN pattern : pattern[i].param /\ pattern[i].name = k]]

\* The entry a request matches: a set of one, or none.
Match(x) ==
    LET t == Table
        fit == {i \in DOMAIN t : t[i].method = x.method /\ MatchSegments(t[i].pattern, x.path)}
    IN  IF fit = {} THEN {} ELSE {t[Min(fit)]}

Rpc == {"Invoke", "Cast"}

\* Global middleware first, then the route's own; over gRPC the interceptor.
ChainOf(x) == LET m == Match(x) IN
    IF x.method \in Rpc THEN play.rpc ELSE play.chain \o (IF m = {} THEN <<>> ELSE (CHOOSE e \in m : TRUE).chain)

PayloadBodyLast(x, e, who) ==
    x.body @@ (IF e.principal THEN "__principal__" :> who ELSE <<>>)
    @@ e.extra @@ PathParams(e.pattern, x.path)

\* The body, over it the path, over that the route's keys and the principal.
Payload(x, e, who) ==
    (IF e.principal THEN "__principal__" :> who ELSE <<>>)
    @@ e.extra @@ PathParams(e.pattern, x.path) @@ x.body

\* The conventions for paths no route fits: [to, mode, payload], or none.
DefaultRoute(x) ==
    LET Call(mode, payload) == {[to |-> x.path[2], mode |-> mode, payload |-> payload]}
        n == Len(x.path)
    IN  IF n < 2 \/ x.path[1] # "agents" THEN {}
        ELSE CASE x.method = "POST" /\ n = 2 -> Call("call", x.body)
               [] x.method = "POST" /\ n = 3 /\ x.path[3] = "cast" -> Call("cast", x.body)
               [] x.method = "GET" /\ n = 3 /\ x.path[3] = "state" ->
                     Call("call", "__op__" :> "state")
               [] OTHER -> {}

\* A call over gRPC names its agent.
RpcTarget(x) ==
    {[to |-> x.path[1], mode |-> IF x.method = "Cast" THEN "cast" ELSE "call",
      payload |-> x.body]}

\* Where a request goes: a set of one, or none.
Target(r) ==
    LET x == req[r].plan
        m == Match(x)
    IN  IF x.method \in Rpc THEN RpcTarget(x) ELSE IF m = {} THEN DefaultRoute(x)
        ELSE {[to |-> e.agent, mode |-> e.mode,
               payload |-> Payload(x, e, req[r].who)] : e \in m}
-----------------------------------------------------------------------------
(* The chain.                                                              *)

\* What one middleware answers; 0 to go on.
RequireApiKey(x) == IF ~play.secret THEN 500 ELSE IF x.key THEN 0 ELSE 401
RequireJwt(x) == IF x.token \in {"none", "bad"} THEN 401 ELSE 0
RequireClientCert(x) ==
    IF ~play.secret THEN 500 ELSE IF x.cert = "none" THEN 401 ELSE IF x.cert = "listed" THEN 0 ELSE 403

Judge(m, x) ==
    CASE m = "key" -> RequireApiKey(x) [] m = "jwt" -> RequireJwt(x)
      [] m = "cert" -> RequireClientCert(x)

Answer(r, status) == [req EXCEPT ![r].at = "done", ![r].status = status]
Post(n, m) == [box EXCEPT ![n] = Append(@, m)]
Record(r, to, what, by) == Append(handled, [req |-> r, to |-> to, what |-> what, by |-> by])

\* _handle_http() up to the chain: the documentation, then the body.
Arrive(r, x) ==
    /\ r <= play.requests
    /\ req[r].at = "none" /\ \A s \in 1..(r - 1) : req[s].at # "none"
    /\ req' = [req EXCEPT ![r] =
                 LET q == [@ EXCEPT !.plan = x] IN
                 IF play.docs /\ x.method = "GET" /\ x.path = <<"docs">>
                   THEN [q EXCEPT !.at = "done", !.status = 200]
                   ELSE IF ~x.wellformed THEN [q EXCEPT !.at = "done", !.status = 400]
                   ELSE [q EXCEPT !.at = "chain", !.todo = ChainOf(x)]]
    /\ UNCHANGED <<play, box, tree, agents, probing, hits, marks, verdicts, handled, clock, changes>>

\* The next middleware; only rate_limit() has to ask somebody.
RunMiddleware(r) ==
    /\ req[r].at = "chain" /\ req[r].todo # <<>>
    /\ LET m == Head(req[r].todo)
           x == req[r].plan
       IN  IF m = "limit"
             THEN /\ box' = Post(Limiter, [req |-> r, payload |-> "client_id" :> x.client])
                  /\ req' = [req EXCEPT ![r].at = "limit"]
             ELSE /\ req' = IF Judge(m, x) # 0 THEN Answer(r, Judge(m, x))
                            ELSE [req EXCEPT ![r].todo = Tail(@),
                                             ![r].who = IF m = "jwt" THEN x.token ELSE @]
                  /\ UNCHANGED box
    /\ UNCHANGED <<play, tree, agents, probing, hits, marks, verdicts, handled, clock, changes>>

KeepHitsHalfOpen(times) == SelectSeq(times, LAMBDA t : t + Window > clock)

KeepHits(times) == SelectSeq(times, LAMBDA t : t + Window >= clock)

\* RateLimiter.handle_call(), and what rate_limit() makes of its reply.
LimiterHandles ==
    /\ box[Limiter] # <<>>
    /\ LET r == Head(box[Limiter]).req
           c == Head(box[Limiter]).payload["client_id"]
           kept == KeepHits(hits[c])
           ok == Len(kept) < MaxHits
       IN  /\ hits' = [hits EXCEPT ![c] = IF ok THEN Append(kept, clock) ELSE kept]
           /\ verdicts' = Append(verdicts, [by |-> Limiter, inc |-> agents[Limiter], who |-> c,
                                            t |-> clock, ok |-> ok])
           /\ req' = IF req[r].at # "limit" THEN req
                     ELSE IF ok THEN [req EXCEPT ![r].at = "chain", ![r].todo = Tail(@)]
                     ELSE Answer(r, 429)
    /\ box' = [box EXCEPT ![Limiter] = Tail(@)]
    /\ UNCHANGED <<play, tree, agents, probing, marks, handled, clock, changes>>

\* No reply within five seconds: nobody catches it, and the server answers 500.
LimiterTimesOut(r) ==
    /\ req[r].at = "limit"
    /\ req' = Answer(r, 500)
    /\ UNCHANGED <<play, box, tree, agents, probing, hits, marks, verdicts, handled, clock, changes>>
-----------------------------------------------------------------------------
(* The dispatch.                                                           *)

\* A cast is answered when it is queued, a call when its reply is there.
Dispatch(r) ==
    /\ req[r].at = "chain" /\ req[r].todo = <<>>
    /\ LET to == {t \in Target(r) : t.to \in Registered} IN
       IF to # {}
         THEN LET t == CHOOSE t \in to : TRUE IN
              /\ box' = Post(t.to, [req |-> IF t.mode = "cast" THEN NoRequest ELSE r,
                                    payload |-> t.payload])
              /\ req' = IF t.mode = "cast" THEN Answer(r, 202) ELSE [req EXCEPT ![r].at = "wait"]
              /\ handled' = IF t.to = Topo THEN handled ELSE Record(r, t.to, t.mode, req[r].who)
         ELSE req' = Answer(r, 404) /\ UNCHANGED <<box, handled>>
    /\ UNCHANGED <<play, tree, agents, probing, hits, marks, verdicts, clock, changes>>

UpstreamTimeout(r) ==
    /\ req[r].at = "wait"
    /\ req' = Answer(r, 504)
    /\ UNCHANGED <<play, box, tree, agents, probing, hits, marks, verdicts, handled, clock, changes>>

\* _result_to_response(): an error in the reply is 400, but for a raw route
\* the reply carries its status.
ReplyTo(r, status) ==
    IF r # NoRequest /\ req[r].at = "wait" THEN Answer(r, status) ELSE req

Restarted(x) == Subst(tree, x, {[Node(x) EXCEPT !.inc = @ + 1, !.kids = {}]})

\* The runtime's map follows the tree when a child is replaced.
Remapped(x) == IF x \in DOMAIN agents THEN [agents EXCEPT ![x] = @ + 1] ELSE agents

IsForceRestart(m) == m.req = NoRequest /\ "__op__" \in DOMAIN m.payload /\ m.payload["__op__"] = "restart"

\* An agent takes a message; it replies, with an error or without, or not.
\* A forced restart ends its incarnation, and the next one has its mailbox.
AgentHandles(n) ==
    /\ box[n] # <<>> /\ n \in Registered \ {Topo, Limiter}
    /\ \E status \in {200, 400} :
          req' \in {req, ReplyTo(Head(box[n]).req, status)}
    /\ box' = [box EXCEPT ![n] = Tail(@)]
    /\ IF IsForceRestart(Head(box[n]))
         THEN tree' = Restarted(n) /\ agents' = Remapped(n)
         ELSE UNCHANGED <<tree, agents>>
    /\ UNCHANGED <<play, probing, hits, marks, verdicts, handled, clock, changes>>
-----------------------------------------------------------------------------
(* The topology agent.                                                     *)

Control == {"suspend", "resume", "restart", "mailbox_inject"}
TopoFree == probing = Rest /\ box[Topo] # <<>>
Asked == Head(box[Topo])
OpOf == Asked.payload["__op__"]
NamedIn(p) == IF "name" \in DOMAIN p THEN p["name"] ELSE "empty"
PrincipalId(p) == IF "__principal__" \in DOMAIN p THEN p["__principal__"] ELSE "unauthenticated"

\* /snapshot needs a collector; /metrics is empty without one.
SnapshotStatus == IF play.collector THEN 200 ELSE 404

ReadStatus ==
    CASE OpOf \in {"agent_detail", "mailbox_peek"} ->
            IF AgentDetail(NamedIn(Asked.payload)) = {} THEN 404 ELSE 200
      [] OpOf = "snapshot" -> SnapshotStatus
      [] OTHER -> 200

\* The reads that need no await.
TopoReads ==
    /\ TopoFree /\ OpOf \notin Control \cup {"processes"}
    /\ req' = ReplyTo(Asked.req, ReadStatus)
    /\ box' = [box EXCEPT ![Topo] = Tail(@)]
    /\ UNCHANGED <<play, tree, agents, probing, hits, marks, verdicts, handled, clock, changes>>

\* /processes asks one worker after the other, two seconds each at most.
TopoStartsProbing ==
    /\ TopoFree /\ OpOf = "processes"
    /\ probing' = [at |-> "probing", req |-> Asked.req, left |-> DistinctHealthChannels]
    /\ box' = [box EXCEPT ![Topo] = Tail(@)]
    /\ UNCHANGED <<play, req, tree, agents, hits, marks, verdicts, handled, clock, changes>>

\* The worker answers, times out or has no route: the loop goes on.
ProbeWorker(c) ==
    /\ probing # Rest /\ c \in probing.left
    /\ probing' = [probing EXCEPT !.left = @ \ {c}]
    /\ UNCHANGED <<play, req, box, tree, agents, hits, marks, verdicts, handled, clock, changes>>

TopoEndsProbing ==
    /\ probing # Rest /\ probing.left = {}
    /\ req' = ReplyTo(probing.req, 200)
    /\ probing' = Rest
    /\ UNCHANGED <<play, box, tree, agents, hits, marks, verdicts, handled, clock, changes>>

\* The errors a write answers with: no name, no type, a type of the system's.
WriteRefused(p) ==
    \/ NamedIn(p) = "empty"
    \/ p["__op__"] = "mailbox_inject" /\ ("type" \notin DOMAIN p \/ p["type"] = "reserved")

\* A write is routed to the agent it names.  Routing to a name that is not
\* registered raises, and the topology agent is restarted without a reply.
TopoWrites ==
    /\ TopoFree /\ OpOf \in Control
    /\ LET p == Asked.payload
           n == NamedIn(p)
       IN  IF WriteRefused(p)
             THEN /\ req' = ReplyTo(Asked.req, 400)
                  /\ box' = [box EXCEPT ![Topo] = Tail(@)]
                  /\ UNCHANGED <<tree, agents, handled>>
           ELSE IF n \in Registered
             THEN /\ req' = ReplyTo(Asked.req, 200)
                  /\ box' = [Post(n, [req |-> NoRequest, payload |-> p]) EXCEPT ![Topo] = Tail(@)]
                  /\ handled' = Record(Asked.req, n, p["__op__"], PrincipalId(p))
                  /\ UNCHANGED <<tree, agents>>
             ELSE /\ tree' = Restarted(Topo)
                  /\ agents' = Remapped(Topo)
                  /\ box' = [box EXCEPT ![Topo] = Tail(@)]
                  /\ UNCHANGED <<req, handled>>
    /\ UNCHANGED <<play, probing, hits, marks, verdicts, clock, changes>>
-----------------------------------------------------------------------------
(* Around them.                                                            *)

Budgeted == changes < play.changes /\ changes' = changes + 1

\* A static agent crashes and is replaced: the tree and the map change in
\* one step, and what it kept in memory is gone.
RestartChild(x) ==
    /\ x \in play.crashes /\ Budgeted
    /\ tree' = Restarted(x)
    /\ agents' = Remapped(x)
    /\ hits' = IF x = Limiter THEN [c \in DOMAIN hits |-> <<>>] ELSE hits
    /\ UNCHANGED <<play, req, box, probing, marks, verdicts, handled, clock>>

SpawnChild(d, x) ==
    /\ Budgeted /\ x \notin Registered
    /\ tree' = Subst(tree, d, {[Node(d) EXCEPT !.kids = @ \cup
                       {[name |-> x, kind |-> "agent", inc |-> 1, kids |-> {}]}]})
    /\ box' = [box EXCEPT ![x] = <<>>]
    /\ UNCHANGED <<play, req, agents, probing, hits, marks, verdicts, handled, clock>>

\* A dynamic child is despawned, or ends for good: then the asks in its
\* mailbox are answered with an error.
RemoveChild(x) ==
    /\ Budgeted /\ x \in Registered
    /\ tree' = Subst(tree, x, {})
    /\ \/ UNCHANGED req
       \/ req' = [r \in Requests |->
                    IF req[r].at = "wait" /\ \E i \in DOMAIN box[x] : box[x][i].req = r
                      THEN [req[r] EXCEPT !.at = "done", !.status = 400] ELSE req[r]]
    /\ box' = [box EXCEPT ![x] = <<>>]
    /\ UNCHANGED <<play, agents, probing, hits, marks, verdicts, handled, clock>>

KeepMarks(times) == SelectSeq(times, LAMBDA t : clock < t + Window)

\* EvalAgent.handle(): the correction is counted, then sent; a target that is
\* not registered makes the agent fail, and it is restarted.
EvalEvent(x) ==
    /\ x \in play.evals /\ Len(verdicts) < MaxVerdicts
    /\ LET kept == KeepMarks(marks[x])
           ok == Len(kept) < MaxHits
           dies == ok /\ x \notin Registered
       IN  /\ verdicts' = Append(verdicts, [by |-> Eval, inc |-> agents[Eval], who |-> x,
                                            t |-> clock, ok |-> ok])
           /\ marks' = IF dies THEN [y \in DOMAIN marks |-> <<>>]
                       ELSE [marks EXCEPT ![x] = IF ok THEN Append(kept, clock) ELSE kept]
           /\ tree' = IF dies THEN Restarted(Eval) ELSE tree
           /\ agents' = IF dies THEN Remapped(Eval) ELSE agents
    /\ UNCHANGED <<play, req, box, probing, hits, handled, clock, changes>>

PassTime ==
    /\ play.timed /\ clock < MaxClock
    /\ clock' = clock + 1
    /\ UNCHANGED <<play, req, box, tree, agents, probing, hits, marks, verdicts, handled, changes>>

ServeRest ==
    /\ tree = play.tree
    /\ agents = [x \in {r.name : r \in AllAgents(play.tree)} |-> 1]
    /\ req = [r \in Requests |-> [plan |-> NoPlan, at |-> "none", todo |-> <<>>, status |-> 0,
                                  who |-> "unauthenticated"]]
    /\ box = [x \in Names |-> <<>>]
    /\ probing = Rest
    /\ hits = [c \in Clients |-> <<>>] /\ marks = [x \in Names |-> <<>>]
    /\ verdicts = <<>> /\ handled = <<>> /\ clock = 0 /\ changes = 0

ServeInit == play \in Plays /\ ServeRest

ServeNext ==
    \/ \E r \in Requests : \/ \E x \in Plans(play.plans) : Arrive(r, x)
                           \/ RunMiddleware(r) \/ LimiterTimesOut(r)
                           \/ Dispatch(r) \/ UpstreamTimeout(r)
    \/ LimiterHandles \/ TopoReads \/ TopoStartsProbing \/ TopoEndsProbing \/ TopoWrites
    \/ \E c \in DistinctHealthChannels : ProbeWorker(c)
    \/ \E n \in Names : AgentHandles(n) \/ RestartChild(n) \/ EvalEvent(n)
    \/ \E x \in play.dynamic : RemoveChild(x) \/ \E d \in play.parents : SpawnChild(d, x)
    \/ PassTime
-----------------------------------------------------------------------------
Reached(r) == SelectSeq(handled, LAMBDA h : h.req = r)
Judges(x) == ToSet(ChainOf(x)) \ {"limit"}
Actor(x) == IF "jwt" \in Judges(x) THEN x.token ELSE "unauthenticated"

(* The status a client gets tells what its request did, whatever timed     *)
(* out, crashed, was removed or restarted meanwhile: nothing is delivered  *)
(* twice; after 401, 403, 404, 429 or 500 nothing has been delivered and   *)
(* after 202 or the 200 of a write exactly one message; a read touches     *)
(* nobody; and a write reaches the agent its path names, with the          *)
(* operation of its route, in the name of the principal the chain has      *)
(* authenticated, whatever keys the body has.                              *)
AnswersTrue ==
    \A r \in {s \in Requests : req[s].at # "none"} :
      LET q == req[r]
          x == q.plan
          got == Reached(r)
          routed == Match(x)
      IN  /\ Len(got) <= 1
          /\ q.at = "done" /\ q.status \in {401, 403, 404, 429, 500} => got = <<>>
          /\ q.at = "done" /\ q.status = 202 => got # <<>>
          /\ q.at = "done" /\ q.status = 200 => \A e \in routed : e.principal => got # <<>>
          /\ got # <<>> =>
               /\ x.wellformed /\ \A m \in Judges(x) : Judge(m, x) = 0
               /\ IF \E e \in routed : e.agent = Topo
                    THEN \A e \in routed :
                           /\ x.method = "POST" /\ got[1].what = e.extra["__op__"]
                           /\ got[1].to = x.path[2] /\ got[1].by = Actor(x)
                    ELSE got[1].what \notin Control

(* Each decision of the two limiters is the one its definition asks for:   *)
(* a request passes rate_limit() exactly when fewer than max_requests of   *)
(* its client passed in the closed window before it, a correction is sent  *)
(* exactly when fewer than max_corrections_per_window were sent to its     *)
(* target in the half-open one, pruned lists and timed out callers or not; *)
(* a restart of the limiter begins anew.                                   *)
RateExact ==
    \A i \in DOMAIN verdicts :
      LET v == verdicts[i]
          Inside(w) == IF v.by = Eval THEN v.t < w.t + Window ELSE v.t <= w.t + Window
          before == {j \in 1..(i - 1) : LET w == verdicts[j] IN
                       /\ w.by = v.by /\ w.inc = v.inc /\ w.who = v.who
                       /\ w.ok /\ Inside(w)}
      IN  v.ok <=> Cardinality(before) < MaxHits

(* The three views of the running system agree, after any restarts, spawns *)
(* and removals: /agents lists exactly the agents in the tree of           *)
(* /topology, in their present incarnations, and /agents/{name} finds      *)
(* exactly the agents on the list.                                         *)
IntrospectionAgrees ==
    LET listed == AgentsList IN
    /\ listed = SerializeNode(tree)
    /\ \A x \in Names : AgentDetail(x) = {row \in listed : row.name = x}
=============================================================================
