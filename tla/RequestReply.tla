---------------------------- MODULE RequestReply ----------------------------
(***************************************************************************)
(* ask() and reply over the message bus (civitas/bus.py) and its three     *)
(* transports (civitas/transport/inprocess.py, zmq.py, nats.py).           *)
(*                                                                         *)
(* An agent, the caller, is sent messages and asks a server from its       *)
(* handler; a task beside it asks the same server.  The server is a        *)
(* GenServer that may be suspended, that answers a request once, several   *)
(* times (a streamed answer reaches an ask() like any reply), later from a *)
(* task of its own, or never, and that a DynamicSupervisor may remove.     *)
(* Both have bounded mailboxes, an ask has a reply queue of size one, and  *)
(* what carries a message waits for room: the sender in one process, the   *)
(* one receiver loop of the process over ZeroMQ, one callback for each     *)
(* subscription over NATS.                                                 *)
(***************************************************************************)
EXTENDS Integers, Sequences

CONSTANTS
    InHandler,   \* asks the caller makes in its handler
    Beside,      \* asks of a task beside it
    Forever,     \* the asks with timeout=None
    Configs,     \* [net, apart, trouble, loads]: the transport, whether the server is in another
                 \* process, what a behaviour meets ("faults", "removal", "suspension" or
                 \* "none"), and how many fire-and-forget messages are sent
    Capacity,    \* mailbox_size of both agents
    MaxAnswers,  \* frames a handler may answer a request with
    MaxFaults    \* messages lost, or requests delivered twice

Asks == InHandler \cup Beside
Processes == {"here", "there"}
NoAsk == "none"

ASSUME AskAssumption ==
    InHandler \cap Beside = {} /\ Forever \subseteq Asks /\ NoAsk \notin Asks

VARIABLES
    config,     \* configuration: the transport
    ask,        \* each ask: "none", "sending", "waiting", or its outcome
    queue,      \* the reply queue of each ask
    addrs,      \* reply addresses that are registered
    callerBox,  \* messages in the caller's mailbox
    caller,     \* "idle", "handling", or the ask its handler awaits
    serverBox,  \* the server's mailbox: requests and casts
    server,     \* its message loop
    deferred,   \* requests it will answer from a task
    suspended,  \* SUSPENDED, in the registry too
    listed,     \* in the registry
    wire,       \* what is on its way to each process
    blocked,    \* the ask whose full queue a receiver loop is putting to
    loads, faults,
    accepted,   \* requests that have entered the server's mailbox
    unanswered, \* requests whose handling ended without a reply
    raced,      \* asks whose timeout came when a reply was already queued
    lost        \* asks a message of which was lost

callerVars == <<ask, queue, addrs, callerBox, caller>>
serverVars == <<serverBox, server, deferred, suspended, listed>>
netVars == <<wire, blocked>>
history == <<loads, faults, accepted, unanswered, raced, lost>>
askVars == <<config, callerVars, serverVars, netVars, history>>

InProcess == config.net = "inproc"
Home == IF config.apart THEN "there" ELSE "here"
Item(kind, r) == [kind |-> kind, ask |-> r]
Idle == [st |-> "idle", ask |-> NoAsk, left |-> 0]
Done == {"reply", "error", "timeout", "unroutable", "suspended"}

AskInit ==
    /\ config \in Configs
    /\ ask = [r \in Asks |-> "none"]
    /\ queue = [r \in Asks |-> <<>>]
    /\ addrs = {}
    /\ callerBox = 0
    /\ caller = "idle"
    /\ serverBox = <<>>
    /\ server = Idle
    /\ deferred = {}
    /\ suspended = FALSE
    /\ listed = TRUE
    /\ wire = [p \in Processes |-> <<>>]
    /\ blocked = [p \in Processes |-> NoAsk]
    /\ loads = 0 /\ faults = 0
    /\ accepted = {} /\ unanswered = {} /\ raced = {} /\ lost = {}
-----------------------------------------------------------------------------
(* Sending. *)

Publish(p, item) == wire' = [wire EXCEPT ![p] = Append(@, item)]
Subscribed == server.st # "gone"

(* A fire-and-forget message for the caller: send() of anyone, in the same  *)
(* process by a task that waits for room, otherwise over the wire.          *)
SendToCaller ==
    /\ loads < config.loads
    /\ loads' = loads + 1
    /\ IF InProcess
         THEN /\ callerBox < Capacity
              /\ callerBox' = callerBox + 1
              /\ UNCHANGED wire
         ELSE Publish("here", Item("load", NoAsk)) /\ UNCHANGED callerBox
    /\ UNCHANGED <<config, ask, queue, addrs, caller, serverVars, blocked, faults, accepted,
                   unanswered, raced, lost>>

(* cast() to the server: routed if the registry knows it. *)
CastToServer ==
    /\ loads < config.loads /\ listed
    /\ loads' = loads + 1
    /\ IF InProcess
         THEN /\ Len(serverBox) < Capacity
              /\ serverBox' = Append(serverBox, Item("cast", NoAsk))
              /\ UNCHANGED wire
         ELSE Publish(Home, Item("cast", NoAsk)) /\ UNCHANGED serverBox
    /\ UNCHANGED <<config, callerVars, server, deferred, suspended, listed, blocked, faults,
                   accepted, unanswered, raced, lost>>

(* MessageBus.request() up to the transport: fail_if_suspended, then the    *)
(* registry.                                                                *)
Refusal(failFast) ==
    CASE failFast /\ suspended -> "suspended"
      [] ~(failFast /\ suspended) /\ ~listed -> "unroutable"
      [] OTHER -> "none"

(* request() of InProcessTransport: the reply queue is registered and the   *)
(* put to the server's mailbox begins, outside of the timeout.  An address  *)
(* on the registry always has a handler here.                               *)
BeginInProcess(r) ==
    /\ ask' = [ask EXCEPT ![r] = "sending"]
    /\ addrs' = addrs \cup {r}
    /\ UNCHANGED wire

(* request() of ZMQTransport: registered and published, on the subscription *)
(* to all of the process's reply addresses that start() has made.           *)
BeginZmq(r) ==
    /\ ask' = [ask EXCEPT ![r] = "waiting"]
    /\ addrs' = addrs \cup {r}
    /\ Publish(Home, Item("request", r))

(* request() of NATSTransport subscribes to the reply address first. *)
BeginNats(r) ==
    /\ ask' = [ask EXCEPT ![r] = "waiting"]
    /\ addrs' = addrs \cup {r}
    /\ Publish(Home, Item("request", r))

StartAsk(r, failFast) ==
    /\ ask[r] = "none"
    /\ IF Refusal(failFast) # "none"
         THEN /\ ask' = [ask EXCEPT ![r] = Refusal(failFast)]
              /\ UNCHANGED <<addrs, wire>>
         ELSE \/ config.net = "inproc" /\ BeginInProcess(r)
              \/ config.net = "zmq" /\ BeginZmq(r)
              \/ config.net = "nats" /\ BeginNats(r)
    /\ UNCHANGED <<config, queue, callerBox, serverVars, blocked, history>>

AskInHandler(r, failFast) ==
    /\ caller = "handling"
    /\ StartAsk(r, failFast)
    /\ caller' = IF ask'[r] \in Done THEN "idle" ELSE r

AskBeside(r, failFast) ==
    /\ StartAsk(r, failFast)
    /\ UNCHANGED caller

(* There is room: the request is in the mailbox and the timeout begins. *)
PutRequest(r) ==
    /\ ask[r] = "sending" /\ Len(serverBox) < Capacity
    /\ serverBox' = Append(serverBox, Item("request", r))
    /\ accepted' = IF Subscribed THEN accepted \cup {r} ELSE accepted
    /\ ask' = [ask EXCEPT ![r] = "waiting"]
    /\ UNCHANGED <<config, queue, addrs, callerBox, caller, server, deferred, suspended, listed,
                   netVars, loads, faults, unanswered, raced, lost>>
-----------------------------------------------------------------------------
(* The end of an ask. *)

Resumes(r, outcome) ==
    /\ ask' = [ask EXCEPT ![r] = outcome]
    /\ addrs' = addrs \ {r}
    /\ caller' = IF caller = r THEN (IF outcome = "timeout" THEN "idle" ELSE "handling") ELSE caller

GetReply(r) ==
    /\ ask[r] = "waiting" /\ queue[r] # <<>>
    /\ queue' = [queue EXCEPT ![r] = Tail(@)]
    /\ Resumes(r, Head(queue[r]))
    /\ UNCHANGED <<config, callerBox, serverVars, netVars, history>>

TimeOutIfAccepted(r) ==
    /\ ask[r] = "waiting" /\ r \notin Forever /\ r \in accepted
    /\ Resumes(r, "timeout")
    /\ raced' = IF queue[r] = <<>> THEN raced ELSE raced \cup {r}
    /\ UNCHANGED <<config, queue, callerBox, serverVars, netVars, loads, faults, accepted,
                   unanswered, lost>>

TimeOutBeside(r) ==
    /\ ask[r] = "waiting" /\ r \notin Forever /\ caller # r
    /\ Resumes(r, "timeout")
    /\ raced' = IF queue[r] = <<>> THEN raced ELSE raced \cup {r}
    /\ UNCHANGED <<config, queue, callerBox, serverVars, netVars, loads, faults, accepted,
                   unanswered, lost>>

(* asyncio.timeout() may cancel the wait after the reply has been queued    *)
(* and before the task has run: the reply stays in the dead queue.          *)
TimeOut(r) ==
    /\ ask[r] = "waiting" /\ r \notin Forever
    /\ Resumes(r, "timeout")
    /\ raced' = IF queue[r] = <<>> THEN raced ELSE raced \cup {r}
    /\ UNCHANGED <<config, queue, callerBox, serverVars, netVars, loads, faults, accepted,
                   unanswered, lost>>

(* The caller's message loop. *)
CallerTakes ==
    /\ caller = "idle" /\ callerBox > 0
    /\ callerBox' = callerBox - 1
    /\ caller' = "handling"
    /\ UNCHANGED <<config, ask, queue, addrs, serverVars, netVars, history>>

CallerReturns ==
    /\ caller = "handling"
    /\ caller' = "idle"
    /\ UNCHANGED <<config, ask, queue, addrs, callerBox, serverVars, netVars, history>>
-----------------------------------------------------------------------------
(* Receiving from the wire. *)

Destination(item) ==
    CASE item.kind = "load" -> "caller"
      [] item.kind \in {"reply", "error"} -> item.ask
      [] OTHER -> "server"

(* A connection from which the i-th message has been taken. *)
Without(s, i) == SubSeq(s, 1, i - 1) \o SubSeq(s, i + 1, Len(s))

(* ZeroMQ: the receiver loop takes one message after the other, and none    *)
(* while it waits in a put.                                                 *)
NextOnSocket(p, i) == i = 1 /\ blocked[p] = NoAsk

(* NATS: each subscription has its own callbacks. *)
NextOnSubject(p, i) == \A j \in 1..(i - 1) : Destination(wire[p][j]) # Destination(wire[p][i])

NextOf(p, i) == IF config.net = "zmq" THEN NextOnSocket(p, i) ELSE NextOnSubject(p, i)

ReceiveLoad(p, i) ==
    /\ NextOf(p, i) /\ wire[p][i].kind = "load"
    /\ callerBox < Capacity
    /\ callerBox' = callerBox + 1
    /\ wire' = [wire EXCEPT ![p] = Without(@, i)]
    /\ UNCHANGED <<config, ask, queue, addrs, caller, serverVars, blocked, history>>

(* A message for the server, if its handler is still registered. *)
ReceiveForServer(p, i) ==
    /\ NextOf(p, i) /\ wire[p][i].kind \in {"request", "cast"}
    /\ IF Subscribed
         THEN /\ Len(serverBox) < Capacity
              /\ serverBox' = Append(serverBox, wire[p][i])
              /\ accepted' = accepted \cup ({wire[p][i].ask} \ {NoAsk})
         ELSE UNCHANGED <<serverBox, accepted>>
    /\ wire' = [wire EXCEPT ![p] = Without(@, i)]
    /\ UNCHANGED <<config, callerVars, server, deferred, suspended, listed, blocked, loads,
                   faults, unanswered, raced, lost>>

(* A priority message has a queue of its own, and is taken at once. *)
ReceiveResume(p, i) ==
    /\ NextOf(p, i) /\ wire[p][i].kind = "resume"
    /\ suspended' = FALSE
    /\ wire' = [wire EXCEPT ![p] = Without(@, i)]
    /\ UNCHANGED <<config, callerVars, serverBox, server, deferred, listed, blocked, history>>

(* A reply whose address is registered goes to its queue; the ZeroMQ loop   *)
(* waits if that is full.  Any other is dropped.                            *)
ReceiveReply(p, i) ==
    /\ NextOf(p, i) /\ wire[p][i].kind \in {"reply", "error"}
    /\ LET r == wire[p][i].ask IN
         IF r \notin addrs
           THEN UNCHANGED <<queue, blocked>>
           ELSE IF queue[r] = <<>>
             THEN /\ queue' = [queue EXCEPT ![r] = <<wire[p][i].kind>>]
                  /\ UNCHANGED blocked
             ELSE /\ config.net = "zmq"
                  /\ blocked' = [blocked EXCEPT ![p] = r]
                  /\ UNCHANGED queue
    /\ wire' = [wire EXCEPT ![p] = Without(@, i)]
    /\ UNCHANGED <<config, ask, addrs, callerBox, caller, serverVars, history>>

ReceiverPuts(p) ==
    /\ blocked[p] # NoAsk /\ queue[blocked[p]] = <<>>
    /\ queue' = [queue EXCEPT ![blocked[p]] = <<"reply">>]
    /\ blocked' = [blocked EXCEPT ![p] = NoAsk]
    /\ UNCHANGED <<config, ask, addrs, callerBox, caller, serverVars, wire, history>>
-----------------------------------------------------------------------------
(* The server. *)

(* GenServer.handle(): a cast is done at once, a request is a call. *)
ServerTakes ==
    /\ server.st = "idle" /\ ~suspended /\ serverBox # <<>> /\ listed
    /\ serverBox' = Tail(serverBox)
    /\ server' = IF Head(serverBox).kind = "cast" THEN server
                 ELSE [st |-> "handling", ask |-> Head(serverBox).ask, left |-> 0]
    /\ UNCHANGED <<config, callerVars, deferred, suspended, listed, netVars, history>>

(* The handler answers with n frames, or puts the answer off to a task. *)
Answers(n) ==
    /\ server.st = "handling"
    /\ server' = [server EXCEPT !.st = "replying", !.left = n]
    /\ UNCHANGED <<config, callerVars, serverBox, deferred, suspended, listed, netVars, history>>

Defers ==
    /\ server.st = "handling"
    /\ deferred' = deferred \cup {server.ask}
    /\ server' = Idle
    /\ UNCHANGED <<config, callerVars, serverBox, suspended, listed, netVars, history>>

(* It raises, or returns nothing: no reply is sent, whatever on_error says. *)
FailsToAnswer ==
    /\ server.st = "handling"
    /\ unanswered' = unanswered \cup {server.ask}
    /\ server' = Idle
    /\ UNCHANGED <<config, callerVars, serverBox, deferred, suspended, listed, netVars, loads,
                   faults, accepted, raced, lost>>

(* MessageBus.route() of a reply: put to the queue when the address is in   *)
(* this process, which may have to wait; dropped there when it is not       *)
(* registered any more; otherwise published.                                *)
CanRoute(r) == config.apart \/ r \notin addrs \/ queue[r] = <<>>
RouteReply(kind, r) ==
    IF config.apart
      THEN Publish("here", Item(kind, r)) /\ UNCHANGED queue
      ELSE /\ queue' = IF r \in addrs THEN [queue EXCEPT ![r] = <<kind>>] ELSE queue
           /\ UNCHANGED wire

AfterReply == IF server.left = 1 THEN Idle ELSE [server EXCEPT !.left = @ - 1]

Replies ==
    /\ server.st = "replying"
    /\ IF CanRoute(server.ask)
         THEN RouteReply("reply", server.ask) /\ server' = AfterReply
         ELSE server' = [server EXCEPT !.st = "blocked"] /\ UNCHANGED <<queue, wire>>
    /\ UNCHANGED <<config, ask, addrs, callerBox, caller, serverBox, deferred, suspended, listed,
                   blocked, history>>

(* The put goes to the queue the address named when it began. *)
ServerPuts ==
    /\ server.st = "blocked" /\ queue[server.ask] = <<>>
    /\ queue' = [queue EXCEPT ![server.ask] = <<"reply">>]
    /\ server' = IF server.left = 1 THEN Idle
                 ELSE [server EXCEPT !.st = "replying", !.left = @ - 1]
    /\ UNCHANGED <<config, ask, addrs, callerBox, caller, serverBox, deferred, suspended, listed,
                   netVars, history>>

RepliesLater(r) ==
    /\ r \in deferred /\ CanRoute(r)
    /\ deferred' = deferred \ {r}
    /\ RouteReply("reply", r)
    /\ UNCHANGED <<config, ask, addrs, callerBox, caller, serverBox, server, suspended, listed,
                   blocked, history>>

(* Suspension at a message boundary, and its end: resume() of the runtime   *)
(* is a priority message on the same bus.                                   *)
Suspend ==
    /\ config.trouble = "suspension"
    /\ server.st = "idle" /\ ~suspended /\ listed
    /\ suspended' = TRUE
    /\ UNCHANGED <<config, callerVars, serverBox, server, deferred, listed, netVars, history>>

Resume ==
    /\ suspended /\ listed
    /\ IF InProcess
         THEN suspended' = FALSE /\ UNCHANGED wire
         ELSE /\ \A i \in DOMAIN wire[Home] : wire[Home][i].kind # "resume"
              /\ Publish(Home, Item("resume", NoAsk))
              /\ UNCHANGED suspended
    /\ UNCHANGED <<config, callerVars, serverBox, server, deferred, listed, blocked, history>>
-----------------------------------------------------------------------------
(* Removal by the DynamicSupervisor. *)

(* The server ends for good: _terminal_cleanup() takes it off the registry  *)
(* and teardown_agent() off the transport.                                  *)
TearDown ==
    /\ config.trouble = "removal"
    /\ server.st \in {"idle", "handling"} /\ listed
    /\ listed' = FALSE
    /\ suspended' = FALSE
    /\ unanswered' = unanswered \cup ({server.ask} \ {NoAsk}) \cup deferred
    /\ deferred' = {}
    /\ server' = [Idle EXCEPT !.st = "draining"]
    /\ UNCHANGED <<config, callerVars, serverBox, netVars, loads, faults, accepted, raced, lost>>

DrainSkipsAsks ==
    /\ server.st = "draining"
    /\ server' = [Idle EXCEPT !.st = "gone"]
    /\ serverBox' = <<>>
    /\ UNCHANGED <<config, callerVars, deferred, suspended, listed, netVars, history>>

(* teardown_agent() answers every request still in the mailbox. *)
Drain ==
    /\ server.st = "draining"
    /\ IF serverBox = <<>>
         THEN server' = [Idle EXCEPT !.st = "gone"] /\ UNCHANGED <<serverBox, queue, wire>>
         ELSE /\ serverBox' = Tail(serverBox)
              /\ IF Head(serverBox).kind = "cast"
                   THEN UNCHANGED <<queue, wire>>
                   ELSE CanRoute(Head(serverBox).ask) /\ RouteReply("error", Head(serverBox).ask)
              /\ UNCHANGED server
    /\ UNCHANGED <<config, ask, addrs, callerBox, caller, deferred, suspended, listed, blocked,
                   history>>

(* _handle_despawn(): the task is cancelled and the name deregistered; the  *)
(* mailbox is left as it is and the transport keeps delivering to it.       *)
Despawn ==
    /\ config.trouble = "removal"
    /\ server.st \in {"idle", "handling", "replying", "blocked"} /\ listed
    /\ listed' = FALSE
    /\ suspended' = FALSE
    /\ unanswered' = unanswered \cup ({server.ask} \ {NoAsk}) \cup deferred
    /\ deferred' = {}
    /\ server' = [Idle EXCEPT !.st = "despawned"]
    /\ UNCHANGED <<config, callerVars, serverBox, netVars, loads, faults, accepted, raced, lost>>
-----------------------------------------------------------------------------
(* Faults of publish/subscribe: a subscription that is not known yet, a     *)
(* high-water mark, a slow consumer; and JetStream's second delivery.       *)
Lose(p, i) ==
    /\ config.trouble = "faults" /\ faults < MaxFaults
    /\ faults' = faults + 1
    /\ lost' = lost \cup ({wire[p][i].ask} \ {NoAsk})
    /\ wire' = [wire EXCEPT ![p] = Without(@, i)]
    /\ UNCHANGED <<config, callerVars, serverVars, blocked, loads, accepted, unanswered, raced>>

DeliverTwice(i) ==
    /\ config.trouble = "faults" /\ faults < MaxFaults /\ config.net = "nats"
    /\ wire[Home][i].kind = "request"
    /\ faults' = faults + 1
    /\ Publish(Home, wire[Home][i])
    /\ UNCHANGED <<config, callerVars, serverVars, blocked, loads, accepted, unanswered, raced,
                   lost>>

AskProceeds(r) == PutRequest(r) \/ GetReply(r) \/ TimeOut(r)

CallerProceeds == CallerTakes \/ CallerReturns

Receives(p) ==
    \/ ReceiverPuts(p)
    \/ \E i \in DOMAIN wire[p] :
           ReceiveLoad(p, i) \/ ReceiveForServer(p, i) \/ ReceiveResume(p, i) \/ ReceiveReply(p, i)

ServerProceeds ==
    \/ ServerTakes
    \/ \E n \in 1..MaxAnswers : Answers(n)
    \/ Defers \/ FailsToAnswer
    \/ Replies \/ ServerPuts
    \/ Drain

AskNext ==
    \/ \E r \in Asks : AskProceeds(r) \/ RepliesLater(r)
    \/ CallerProceeds
    \/ ServerProceeds
    \/ \E p \in Processes : Receives(p)
    \/ SendToCaller
    \/ CastToServer
    \/ \E r \in InHandler, failFast \in BOOLEAN : AskInHandler(r, failFast)
    \/ \E r \in Beside, failFast \in BOOLEAN : AskBeside(r, failFast)
    \/ Suspend \/ Resume
    \/ TearDown \/ Despawn
    \/ \E p \in Processes : \E i \in DOMAIN wire[p] : Lose(p, i)
    \/ \E i \in DOMAIN wire[Home] : DeliverTwice(i)

(* Every task that can go on does so in the end; nobody is bound to resume  *)
(* a suspended agent or to send anything.                                   *)
AskFairness ==
    /\ \A r \in Asks : WF_askVars(AskProceeds(r)) /\ WF_askVars(RepliesLater(r))
    /\ WF_askVars(CallerProceeds)
    /\ WF_askVars(ServerProceeds)
    /\ \A p \in Processes : WF_askVars(Receives(p))

AskSpec == AskInit /\ [][AskNext]_askVars /\ AskFairness
-----------------------------------------------------------------------------
OnWire(r) == \E p \in Processes : \E i \in DOMAIN wire[p] : wire[p][i].ask = r

(* teardown_agent() leaves no ask behind: when the server is torn down, an  *)
(* ask whose request it had accepted has its answer, or the answer is on    *)
(* its way.  Left out: the request it was just handling, and lost messages. *)
TornDownTold ==
    server.st = "gone" =>
        \A r \in accepted \ (unanswered \cup lost) :
            ask[r] \in {"sending", "waiting"} =>
                queue[r] # <<>> \/ OnWire(r) \/ \E p \in Processes : blocked[p] = r

(* process.py says of despawn(): "Pending ask() callers into the agent      *)
(* receive SpawnError."                                                     *)
DespawnTellsAskers ==
    server.st = "despawned" =>
        \A i \in DOMAIN serverBox : serverBox[i].kind = "request" => ask[serverBox[i].ask] \in Done

(* An ask with a timeout ends once its request has been handed over, over   *)
(* every transport, whatever the server does and whatever is lost.          *)
BoundedWait ==
    \A r \in Asks \ Forever : (ask[r] = "waiting") ~> (ask[r] \in Done)

(* A receiver loop that waits for room in a mailbox or a reply queue gets   *)
(* it: a full mailbox delays the process, and the timeouts of the asks its  *)
(* agents are waiting in bring it back.  Left out: a suspended server, and  *)
(* the timeout that fires when an answer is queued.                         *)
NeverDeaf ==
    \A p \in Processes :
        (wire[p] # <<>>) ~> (wire[p] = <<>> \/ suspended \/ raced # {} \/ server.st = "despawned")
=============================================================================
