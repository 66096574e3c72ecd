------------------------------ MODULE Streaming ------------------------------
(***************************************************************************)
(* Streamed replies (civitas/streaming.py, the streaming half of           *)
(* civitas/process.py, and the gateway's SSE, gRPC and WebSocket surfaces).*)
(* One producer serves stream requests one at a time.  Each stream has a   *)
(* consumer: another agent that iterates stream(), an SSE or gRPC response *)
(* of the gateway, or a WebSocket session.  Frames reach an agent's sink   *)
(* on the sender's task when both share a process, and over a wire         *)
(* otherwise; the gateway's frames always queue in its own mailbox.        *)
(***************************************************************************)
EXTENDS Integers, Sequences, SequencesExt, FiniteSets

CONSTANTS
    AgentStreams,   \* correlation ids of streams an agent consumes
    GatewayStreams, \* correlation ids of streams the gateway consumes: "sse" or "ws"
    Styles,       \* how a handler answers: "stream_reply", "emit", "emit_open", "reply"
    Loads,        \* what a behaviour exercises: the streams used, the net ("direct" for
                  \* one process, "lossy" for publish/subscribe), the chunks of a request
    MaxFrames,    \* max_frames of stream_reply()
    MaxSize,      \* maxsize of a sink
    MaxRequests,  \* frames a WebSocket client sends
    MaxFaults,    \* frames lost or delivered twice
    MaxEnds       \* handlers that end abnormally

Streams == AgentStreams \cup GatewayStreams

VARIABLES
    surface,   \* configuration: the consumer of each stream
    load,      \* configuration: the streams used, the transport, the chunks
    open,      \* streams whose sink is registered
    sink,      \* each stream's StreamSink
    consumer,  \* what each consumer's iteration is doing, or how it ended
    got,       \* the chunks each consumer has been given
    inbox,     \* the producer's mailbox: requests, and cancels nobody claimed
    handler,   \* the request being handled, or Idle
    out,       \* the producer's _out_streams
    wire,      \* frames on their way to each consumer
    cancels,   \* cancel messages on their way to the producer
    emitted,   \* chunks emitted so far on each stream
    requests,  \* stream requests sent
    stray,     \* frames of a closed stream that reached the consumer's mailbox
    silenced,  \* streams whose handler ended without any terminator
    missed,    \* streams whose cancel found nothing registered
    faults, ends

config == <<surface, load>>
consumerVars == <<open, sink, consumer, got, stray>>
producerVars == <<inbox, handler, out, emitted, silenced, missed, ends>>
vars == <<config, consumerVars, producerVars, wire, cancels, requests, faults>>

Idle == [cid |-> "none"]
NoStream == [seq |-> -1]
EmptySink == [queue |-> <<>>, pending |-> 0, done |-> FALSE, next |-> 0]
Frame(type, n, seq) == [type |-> type, n |-> n, seq |-> seq]
NoSeq == -1

Gateway(c) == surface[c] \in {"sse", "ws"}
(* Only the frame for an agent in the same process is handed over at once. *)
Direct(c) == load.net = "direct" /\ ~Gateway(c)

StreamInit ==
    /\ surface \in {f \in [Streams -> {"agent", "sse", "ws"}] :
                        \A c \in Streams : f[c] = "agent" <=> c \in AgentStreams}
    /\ load \in Loads
    /\ open = {}
    /\ sink = [c \in Streams |-> EmptySink]
    /\ consumer = [c \in Streams |-> "idle"]
    /\ got = [c \in Streams |-> <<>>]
    /\ inbox = <<>>
    /\ handler = Idle
    /\ out = [c \in Streams |-> NoStream]
    /\ wire = [c \in Streams |-> <<>>]
    /\ cancels = {}
    /\ emitted = [c \in Streams |-> 0]
    /\ requests = [c \in Streams |-> 0]
    /\ stray = [c \in Streams |-> 0]
    /\ silenced = {}
    /\ missed = {}
    /\ faults = 0
    /\ ends = 0
-----------------------------------------------------------------------------
(* StreamSink: push, end and fail. *)

Close(s, how) == [s EXCEPT !.done = TRUE, !.queue = Append(@, Frame(how, 0, NoSeq))]

PushUnchecked(s, f) ==
    CASE s.done -> s
      [] ~s.done /\ s.pending >= MaxSize -> Close(s, "slow_consumer")
      [] OTHER -> [s EXCEPT !.queue = Append(@, f), !.pending = @ + 1]

Push(s, f) ==
    CASE s.done -> s
      [] ~s.done /\ f.seq # NoSeq /\ f.seq # s.next -> Close(s, "out_of_order")
      [] ~s.done /\ f.seq \in {NoSeq, s.next} /\ s.pending >= MaxSize ->
             Close(s, "slow_consumer")
      [] OTHER ->
             [s EXCEPT !.queue = Append(@, f), !.pending = @ + 1,
                       !.next = IF f.seq = NoSeq THEN @ ELSE @ + 1]

End(s, total) ==
    IF s.done THEN s
    ELSE Close(s, IF total # NoSeq /\ total # s.next THEN "truncated_stream" ELSE "end")

Fail(s, reason) == IF s.done THEN s ELSE Close(s, reason)

(* One frame into its sink.  _consume_stream_frame() of an agent takes a    *)
(* plain reply for one chunk and the end; HTTPGateway.handle() passes no    *)
(* sequence numbers on and knows no reply.                                  *)
IntoAgentSink(s, f) ==
    CASE f.type = "chunk" -> Push(s, f)
      [] f.type = "end" -> End(s, f.seq)
      [] f.type \in {"error", "producer_stopped"} -> Fail(s, f.type)
      [] OTHER -> End(Push(s, [f EXCEPT !.seq = NoSeq]), NoSeq)

IntoGatewaySink(s, f) ==
    CASE f.type = "chunk" -> Push(s, [f EXCEPT !.seq = NoSeq])
      [] f.type = "end" -> End(s, NoSeq)
      [] f.type \in {"error", "producer_stopped"} -> Fail(s, f.type)
      [] OTHER -> s

IntoSink(c, s, f) == IF Gateway(c) THEN IntoGatewaySink(s, f) ELSE IntoAgentSink(s, f)

(* The frames fs arrive for stream c.  Without a registered sink an agent   *)
(* puts them into its mailbox, and the gateway drops them.                  *)
Arrive(c, fs) ==
    /\ sink' = [sink EXCEPT ![c] = IF c \in open
                                     THEN FoldLeft(LAMBDA s, f : IntoSink(c, s, f), @, fs)
                                     ELSE @]
    /\ stray' = [stray EXCEPT ![c] = IF c \in open \/ Gateway(c) THEN @ ELSE @ + Len(fs)]

(* The producer routes fs[c] to the consumer of each stream c. *)
RouteAll(fs) ==
    /\ sink' = [c \in Streams |->
                  IF Direct(c) /\ c \in open
                    THEN FoldLeft(LAMBDA s, f : IntoSink(c, s, f), sink[c], fs[c])
                    ELSE sink[c]]
    /\ stray' = [c \in Streams |->
                   IF Direct(c) /\ c \notin open THEN stray[c] + Len(fs[c]) ELSE stray[c]]
    /\ wire' = [c \in Streams |-> IF Direct(c) THEN wire[c] ELSE wire[c] \o fs[c]]

Route(c, fs) == RouteAll([d \in Streams |-> IF d = c THEN fs ELSE <<>>])
-----------------------------------------------------------------------------
(* The consumer. *)

(* The request goes to the producer under the stream's id. *)
SendStreamRequest(c) ==
    /\ c \in load.streams
    /\ requests' = [requests EXCEPT ![c] = @ + 1]
    /\ inbox' = Append(inbox, [type |-> "request", cid |-> c])
    /\ UNCHANGED <<config, sink, got, stray, handler, out, emitted, silenced, missed,
                   ends, wire, cancels, faults>>

(* AgentProcess.stream(): the sink is registered before the request is sent. *)
OpenAgentStream(c) ==
    /\ surface[c] = "agent" /\ requests[c] = 0
    /\ open' = open \cup {c}
    /\ consumer' = [consumer EXCEPT ![c] = "draining"]
    /\ SendStreamRequest(c)

(* GatewayDispatcher.stream(), for an SSE response or a gRPC call. *)
OpenSse(c) ==
    /\ surface[c] = "sse" /\ requests[c] = 0
    /\ open' = open \cup {c}
    /\ consumer' = [consumer EXCEPT ![c] = "draining"]
    /\ SendStreamRequest(c)

(* A WebSocket session keeps one sink and sends a request under its id for  *)
(* every frame of the client.                                               *)
WsFrame(c) ==
    /\ surface[c] = "ws" /\ requests[c] < MaxRequests
    /\ requests[c] = 0 \/ c \in open
    /\ open' = open \cup {c}
    /\ consumer' = [consumer EXCEPT ![c] = IF @ = "idle" THEN "draining" ELSE @]
    /\ SendStreamRequest(c)

(* _consume_stream_frame() for a cancel: it marks the stream the producer   *)
(* has registered, and is put into the mailbox when there is none.          *)
ReceiveCancel(c) ==
    /\ out' = [out EXCEPT ![c] = IF @ = NoStream THEN @ ELSE [@ EXCEPT !.cancelled = TRUE]]
    /\ missed' = IF out[c] = NoStream THEN missed \cup {c} ELSE missed
    /\ inbox' = IF out[c] = NoStream THEN Append(inbox, [type |-> "cancel", cid |-> c])
                                     ELSE inbox

(* The finally of stream(): the sink is unregistered and _emit_cancel()     *)
(* sends a cancel, on a clean end too.                                      *)
LeaveAgent(c) ==
    /\ open' = open \ {c}
    /\ IF Direct(c)
         THEN ReceiveCancel(c) /\ UNCHANGED cancels
         ELSE cancels' = cancels \cup {c} /\ UNCHANGED <<out, missed, inbox>>

(* GatewayDispatcher.stream() only unregisters.  The pump of a WebSocket    *)
(* ends, its session stays.                                                 *)
Leave(c, how) ==
    /\ consumer' = [consumer EXCEPT ![c] = how]
    /\ \/ surface[c] = "agent" /\ LeaveAgent(c)
       \/ surface[c] = "sse" /\ open' = open \ {c} /\ UNCHANGED <<cancels, out, missed, inbox>>
       \/ surface[c] = "ws" /\ UNCHANGED <<open, cancels, out, missed, inbox>>

(* One turn of StreamSink.drain(): a chunk is yielded, or the iteration ends. *)
Take(c) ==
    /\ consumer[c] = "draining" /\ sink[c].queue # <<>>
    /\ LET item == Head(sink[c].queue) IN
         IF item.type \in {"chunk", "reply"}
           THEN /\ sink' = [sink EXCEPT ![c].queue = Tail(@), ![c].pending = @ - 1]
                /\ got' = [got EXCEPT ![c] = Append(@, item.n)]
                /\ UNCHANGED <<open, consumer, cancels, out, missed, inbox>>
           ELSE /\ sink' = [sink EXCEPT ![c].queue = Tail(@)]
                /\ Leave(c, item.type)
                /\ UNCHANGED got
    /\ UNCHANGED <<config, stray, handler, emitted, silenced, ends, wire, requests, faults>>

(* The idle limit passes with nothing queued, or the limit on the whole     *)
(* stream passes.  The pump of a WebSocket has neither.                     *)
TimeOut(c) ==
    /\ consumer[c] = "draining" /\ surface[c] # "ws"
    /\ Leave(c, "timeout")
    /\ UNCHANGED <<config, sink, got, stray, handler, emitted, silenced, ends, wire,
                   requests, faults>>

(* The consumer breaks out of its loop, or the client of the response is gone. *)
Abandon(c) ==
    /\ consumer[c] = "draining" /\ surface[c] # "ws"
    /\ Leave(c, "abandoned")
    /\ UNCHANGED <<config, sink, got, stray, handler, emitted, silenced, ends, wire,
                   requests, faults>>

(* The client of a WebSocket disconnects: the pump is cancelled, the sink   *)
(* unregistered, and the producer told.                                     *)
CloseSession(c) ==
    /\ surface[c] = "ws" /\ c \in open
    /\ consumer' = [consumer EXCEPT ![c] = IF @ = "draining" THEN "abandoned" ELSE @]
    /\ open' = open \ {c}
    /\ inbox' = Append(inbox, [type |-> "close", cid |-> c])
    /\ UNCHANGED <<config, sink, got, stray, cancels, out, missed, handler, emitted, silenced,
                   ends, wire, requests, faults>>

(* The consuming agent's loop ends while a helper task iterates:            *)
(* _fail_local_streams("agent_stopped") on every stream it consumes.        *)
ConsumerStops ==
    /\ \E c \in open : surface[c] = "agent" /\ ~sink[c].done
    /\ sink' = [c \in Streams |-> IF c \in open /\ surface[c] = "agent"
                                    THEN Fail(sink[c], "agent_stopped") ELSE sink[c]]
    /\ UNCHANGED <<config, open, consumer, got, stray, producerVars, wire, cancels,
                   requests, faults>>
-----------------------------------------------------------------------------
(* The producer. *)

(* Its loop takes the next message.  stream_reply() registers the stream at *)
(* once and without the recipient; emit() registers it with the first       *)
(* chunk.  A cancel or close taken from the mailbox is handled as business. *)
TakeRequest(style) ==
    /\ handler = Idle /\ inbox # <<>>
    /\ inbox' = Tail(inbox)
    /\ LET c == Head(inbox).cid IN
         IF Head(inbox).type = "request"
           THEN /\ handler' = [cid |-> c, style |-> style, left |-> load.chunks]
                /\ out' = [out EXCEPT ![c] = IF style = "stream_reply"
                             THEN [seq |-> 0, frames |-> 0, cancelled |-> FALSE, known |-> FALSE]
                             ELSE @]
           ELSE /\ style = "reply"
                /\ UNCHANGED <<handler, out>>
    /\ UNCHANGED <<config, consumerVars, emitted, silenced, missed, ends, wire, cancels,
                   requests, faults>>

Busy(styles) == handler # Idle /\ handler.style \in styles
Total(c) == IF out[c] = NoStream THEN NoSeq ELSE out[c].seq

StoppedByCapOnly(c) == out[c] # NoStream /\ out[c].frames >= MaxFrames

(* _raise_if_stream_stopped(): cancelled, or the cap reached. *)
Stopped(c) == out[c] # NoStream /\ (out[c].cancelled \/ out[c].frames >= MaxFrames)

(* StreamReply.send() and emit() through _emit_stream().  The first stops   *)
(* the handler of a cancelled stream, the second sends nothing and goes on. *)
EmitChunk ==
    /\ Busy({"stream_reply", "emit", "emit_open"}) /\ handler.left > 0
    /\ LET c == handler.cid
           new == [seq |-> 0, frames |-> 0, cancelled |-> FALSE, known |-> TRUE]
           o == IF out[c] = NoStream THEN new ELSE out[c]
       IN IF handler.style # "stream_reply" /\ o.cancelled
            THEN /\ handler' = [handler EXCEPT !.left = @ - 1]
                 /\ UNCHANGED <<out, emitted, sink, stray, wire>>
            ELSE /\ handler.style = "stream_reply" => ~Stopped(c)
                 /\ handler' = [handler EXCEPT !.left = @ - 1]
                 /\ out' = [out EXCEPT ![c] = [o EXCEPT !.seq = @ + 1, !.frames = @ + 1]]
                 /\ emitted' = [emitted EXCEPT ![c] = @ + 1]
                 /\ Route(c, <<Frame("chunk", emitted[c] + 1, o.seq)>>)
    /\ UNCHANGED <<config, open, consumer, got, inbox, silenced, missed, ends, cancels,
                   requests, faults>>

(* The handler ends: stream_reply() and end_stream() send the terminator    *)
(* and drop the stream, a plain reply answers, and a handler that emitted   *)
(* without end_stream() leaves its stream registered.                       *)
Finish ==
    /\ handler # Idle
    /\ LET c == handler.cid
           ends_stream == handler.style \in {"stream_reply", "emit"}
       IN /\ handler.style = "stream_reply" => handler.left = 0 \/ Stopped(c)
          /\ handler.style = "emit" => handler.left = 0
          /\ out' = [out EXCEPT ![c] = IF ends_stream THEN NoStream ELSE @]
          /\ CASE ends_stream -> Route(c, <<Frame("end", 0, Total(c))>>)
               [] handler.style = "reply" -> Route(c, <<Frame("reply", emitted[c] + 1, NoSeq)>>)
               [] OTHER -> UNCHANGED <<sink, stray, wire>>
          /\ emitted' = [emitted EXCEPT ![c] = IF handler.style = "reply" /\ ~Gateway(c)
                                                  THEN @ + 1 ELSE @]
          /\ silenced' = IF \/ handler.style = "reply" /\ Gateway(c)
                            \/ handler.style = "emit_open" /\ out[c] = NoStream
                           THEN silenced \cup {c} ELSE silenced
    /\ handler' = Idle
    /\ UNCHANGED <<config, open, consumer, got, inbox, missed, ends, cancels, requests, faults>>

InterruptNobody(o) == [c \in Streams |-> <<>>]

(* _interrupt_out_streams() in the teardown of the loop: an error frame for *)
(* every registered stream whose recipient is known; then all are dropped.  *)
Interrupts(o) ==
    [c \in Streams |-> IF o[c] # NoStream /\ o[c].known
                         THEN <<Frame("producer_stopped", 0, o[c].seq)>> ELSE <<>>]

Untold(o) == {c \in Streams : o[c] # NoStream /\ ~o[c].known}

(* The handler raises and the agent crashes.  stream_reply() answers with   *)
(* an error frame first; the teardown interrupts what is still registered.  *)
Raise ==
    /\ handler # Idle /\ ends < MaxEnds
    /\ ends' = ends + 1
    /\ LET c == handler.cid
           replying == handler.style = "stream_reply"
           rest == IF replying THEN [out EXCEPT ![c] = NoStream] ELSE out
           told == Interrupts(rest)
       IN /\ RouteAll([told EXCEPT ![c] = (IF replying THEN <<Frame("error", 0, Total(c))>>
                                                       ELSE <<>>) \o @])
          /\ silenced' = silenced \cup Untold(rest)
                           \cup (IF ~replying /\ out[c] = NoStream THEN {c} ELSE {})
    /\ out' = [c \in Streams |-> NoStream]
    /\ handler' = Idle
    /\ UNCHANGED <<config, open, consumer, got, inbox, emitted, missed, cancels, requests,
                   faults>>

(* The agent's task is cancelled (despawn, or a stop that timed out), in a  *)
(* handler or between two.  stream_reply() does not catch the cancellation: *)
(* its finally drops the stream and nobody is told.                         *)
Cancelled ==
    /\ ends < MaxEnds
    /\ ends' = ends + 1
    /\ LET rest == IF Busy({"stream_reply"}) THEN [out EXCEPT ![handler.cid] = NoStream] ELSE out
       IN /\ RouteAll(Interrupts(rest))
          /\ silenced' = silenced \cup Untold(rest)
                \cup (IF handler # Idle /\ rest[handler.cid] = NoStream
                        THEN {handler.cid} ELSE {})
    /\ out' = [c \in Streams |-> NoStream]
    /\ handler' = Idle
    /\ UNCHANGED <<config, open, consumer, got, inbox, emitted, missed, cancels, requests,
                   faults>>
-----------------------------------------------------------------------------
(* The wire, and the gateway's mailbox. *)

DeliverFrame(c) ==
    /\ wire[c] # <<>>
    /\ wire' = [wire EXCEPT ![c] = Tail(@)]
    /\ Arrive(c, <<Head(wire[c])>>)
    /\ UNCHANGED <<config, open, consumer, got, producerVars, cancels, requests, faults>>

DeliverCancel(c) ==
    /\ c \in cancels
    /\ cancels' = cancels \ {c}
    /\ ReceiveCancel(c)
    /\ UNCHANGED <<config, consumerVars, handler, emitted, silenced, ends, wire, requests, faults>>

(* ZeroMQ drops at its high-water mark, NATS for a slow consumer. *)
LoseFrame(c) ==
    /\ load.net = "lossy" /\ faults < MaxFaults
    /\ faults' = faults + 1
    /\ \E i \in DOMAIN wire[c] : wire' = [wire EXCEPT ![c] = RemoveAt(@, i)]
    /\ UNCHANGED <<config, consumerVars, producerVars, cancels, requests>>

(* JetStream delivers an unacknowledged message again, after later ones. *)
Redeliver(c) ==
    /\ load.net = "lossy" /\ faults < MaxFaults /\ wire[c] # <<>>
    /\ faults' = faults + 1
    /\ wire' = [wire EXCEPT ![c] = Append(@, Head(@))]
    /\ UNCHANGED <<config, consumerVars, producerVars, cancels, requests>>

LoseCancel(c) ==
    /\ load.net = "lossy" /\ faults < MaxFaults /\ c \in cancels
    /\ faults' = faults + 1
    /\ cancels' = cancels \ {c}
    /\ UNCHANGED <<config, consumerVars, producerVars, wire, requests>>

Terminated ==
    /\ \A c \in load.streams : consumer[c] # "draining" /\ c \notin open /\ requests[c] > 0
    /\ inbox = <<>> /\ handler = Idle /\ cancels = {} /\ \A c \in Streams : wire[c] = <<>>
    /\ UNCHANGED vars

StreamNext ==
    \/ \E c \in Streams : OpenAgentStream(c)
    \/ \E c \in Streams : OpenSse(c)
    \/ \E c \in Streams : WsFrame(c)
    \/ \E c \in Streams : Take(c)
    \/ \E c \in Streams : TimeOut(c)
    \/ \E c \in Streams : Abandon(c)
    \/ \E c \in Streams : CloseSession(c)
    \/ ConsumerStops
    \/ \E style \in Styles : TakeRequest(style)
    \/ EmitChunk
    \/ Finish
    \/ Raise
    \/ Cancelled
    \/ \E c \in Streams : DeliverFrame(c)
    \/ \E c \in Streams : DeliverCancel(c)
    \/ \E c \in Streams : LoseFrame(c)
    \/ \E c \in Streams : Redeliver(c)
    \/ \E c \in Streams : LoseCancel(c)
    \/ Terminated

StreamSpec == StreamInit /\ [][StreamNext]_vars
-----------------------------------------------------------------------------
(* What a consumer is given is what the handler emitted, from the first     *)
(* chunk on and without gap, duplicate or swap; and an iteration that ends  *)
(* without an error has been given every chunk.  For an agent this holds    *)
(* over a lossy transport: StreamSink compares sequence numbers and the     *)
(* total.  The gateway passes none, so it is promised only without faults;  *)
(* a WebSocket sends later answers to a sink that has ended.  Meanwhile no  *)
(* sink holds more than maxsize chunks and a terminator, however far behind *)
(* its consumer is, and its counter agrees with what is queued.             *)
StreamFaithful ==
    \A c \in Streams :
        LET chunks == SelectSeq(sink[c].queue, LAMBDA f : f.type \in {"chunk", "reply"}) IN
        /\ ~Gateway(c) \/ faults = 0 =>
              /\ got[c] = [i \in 1..Len(got[c]) |-> i]
              /\ consumer[c] = "end" /\ requests[c] = 1 => Len(got[c]) = emitted[c]
        /\ sink[c].pending = Len(chunks) /\ Len(chunks) <= MaxSize
        /\ Len(sink[c].queue) <= Len(chunks) + 1

(* No consumer waits for a producer that has forgotten it: unless its sink  *)
(* is already closed, its request is queued or being handled, or the stream *)
(* is registered and _interrupt_out_streams() will close it, or a frame is  *)
(* on its way.  Left out: handlers that ended without a terminator.         *)
LossTold ==
    load.net = "direct" =>
        \A c \in open \ silenced :
            \/ sink[c].done
            \/ \E i \in DOMAIN inbox : inbox[i] = [type |-> "request", cid |-> c]
            \/ handler.cid = c
            \/ out[c] # NoStream
            \/ wire[c] # <<>>

(* After an agent has left its stream the cancel stops the producer: at     *)
(* most one more frame, the terminator, gets into the agent's mailbox, and  *)
(* none after a clean end.  Left out: a cancel that finds nothing           *)
(* registered, because the request still waits or nothing was emitted yet.  *)
StrayBounded ==
    load.net = "direct" =>
        \A c \in Streams :
            /\ consumer[c] = "end" => stray[c] = 0
            /\ c \notin missed => stray[c] <= 1
=============================================================================
