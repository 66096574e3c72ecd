------------------------------ MODULE Gateway ------------------------------
(***************************************************************************)
(* HTTPGateway as a process under supervision: the configurations it       *)
(* accepts, the listeners on_start() opens one after the other, and the    *)
(* order in which on_stop() closes them.                                   *)
(*                                                                         *)
(* on_start() starts the HTTP server as a task of its own, which binds its *)
(* port later; the HTTP/3 and the gRPC server are awaited.  A start that   *)
(* raises is followed by on_stop(); one that is cancelled is not.          *)
(***************************************************************************)
EXTENDS Naturals, Sequences

CONSTANTS Gateways,  \* the configurations to try
          MaxStarts  \* incarnations of the gateway

VARIABLES gw,      \* the GatewayConfig
          phase,   \* where the gateway is in its life
          open,    \* the listeners that accept connections: name -> how
          task,    \* the HTTP server's task: "none", "binding" or "serving"
          starts,
          cut      \* some on_start() or on_stop() has been cancelled

gwVars == <<gw, phase, open, task, starts, cut>>

AuthMiddleware == {"key", "jwt", "cert"}
With(f, x, v) == [y \in DOMAIN f \cup {x} |-> IF y = x THEN v ELSE f[y]]
Without(f, x) == [y \in DOMAIN f \ {x} |-> f[y]]
-----------------------------------------------------------------------------
(* The configuration.                                                      *)

PostInitRaisesLax(g) ==
    \/ g.http3 /\ (~g.tls \/ ~g.quic)
    \/ g.grpc /\ ~g.gport
    \/ g.certs # "none" /\ (~g.ca \/ ~g.tls)
    \/ g.certs = "optional" /\ g.grpc
    \/ g.source = "proxy_header" /\ (g.cidrs # "valid" \/ g.certs # "none")

\* The combinations GatewayConfig refuses.
PostInitRaises(g) ==
    \/ g.http3 /\ (~g.tls \/ ~g.quic)
    \/ g.grpc /\ ~g.gport
    \/ g.certs \notin {"none", "optional", "required"}
    \/ g.certs # "none" /\ (~g.ca \/ ~g.tls \/ g.http3)
    \/ g.certs = "optional" /\ g.grpc
    \/ g.source \notin {"direct", "proxy_header"}
    \/ g.source = "proxy_header" /\ (g.cidrs # "valid" \/ g.certs # "none")

AuthConfigured(g) == g.certs # "none" \/ g.middleware \cap AuthMiddleware # {}

\* The documentation is served unless authentication is configured.
DocsEnabled(g) == IF g.docs = "auto" THEN ~AuthConfigured(g) ELSE g.docs = "on"

\* What the chains name: the middleware of the gateway and of every route.
ConfiguredMiddleware(g) == g.middleware \cup g.routed

\* GatewayASGI imports every middleware when it is made.
LoadFails(g) == "missing" \in ConfiguredMiddleware(g)

\* JwtVerifier: one source of keys, audience and issuer, algorithms that fit.
VerifierRaises(g) == "jwt" \in ConfiguredMiddleware(g) /\ ~g.jwtset

\* A forwarded certificate must be authorized by somebody.
ForwardedUnchecked(g) ==
    g.source = "proxy_header" /\ "cert" \notin ConfiguredMiddleware(g)

\* A bearer token must not travel in the clear.
TokenInClear(g) == g.grpc /\ "jwt" \in ConfiguredMiddleware(g) /\ ~g.tls

StartRaises(g) ==
    LoadFails(g) \/ VerifierRaises(g) \/ ForwardedUnchecked(g) \/ TokenInClear(g)
-----------------------------------------------------------------------------
(* The listeners.  certs: whether a client certificate is asked for;       *)
(* dn: where the name in the certificate is read; jwt: who checks tokens.  *)

HttpListener(g) ==
    [tls |-> g.tls, certs |-> g.certs,
     dn |-> IF g.source = "proxy_header" THEN "header"
            ELSE IF g.certs # "none" THEN "peer" ELSE "none",
     jwt |-> "jwt" \in g.middleware]

\* The same application; aioquic asks for no client certificate.
H3Listener(g) == [tls |-> TRUE, certs |-> "none", dn |-> "none", jwt |-> "jwt" \in g.middleware]

\* The interceptor checks tokens and, with "required", the certificate's name.
GrpcListener(g) ==
    [tls |-> g.tls, certs |-> IF g.certs = "required" THEN "required" ELSE "none",
     dn |-> IF g.certs = "required" THEN "peer" ELSE "none",
     jwt |-> "jwt" \in ConfiguredMiddleware(g)]

Configured(g) ==
    {"http"} \cup (IF g.http3 THEN {"h3"} ELSE {}) \cup (IF g.grpc THEN {"grpc"} ELSE {})
-----------------------------------------------------------------------------
(* The life.                                                               *)

GwRest == open = <<>> /\ task = "none" /\ starts = 0 /\ cut = FALSE
GwInit == gw \in Gateways /\ phase = "new" /\ GwRest

Construct ==
    /\ phase = "new"
    /\ phase' = IF PostInitRaises(gw) THEN "refused" ELSE "down"
    /\ UNCHANGED <<gw, open, task, starts, cut>>

\* Started by its supervisor, for the first time or again.
StartGateway ==
    /\ phase \in {"down", "crashed"} /\ ~cut /\ starts < MaxStarts
    /\ starts' = starts + 1
    /\ phase' = "checks"
    /\ UNCHANGED <<gw, open, task, cut>>

\* on_start() up to the HTTP server's task: there is no await on the way.
CheckAndServe ==
    /\ phase = "checks"
    /\ IF StartRaises(gw)
         THEN phase' = "undo_grpc" /\ UNCHANGED task
         ELSE phase' = "h3" /\ task' = "binding"
    /\ UNCHANGED <<gw, open, starts, cut>>

\* uvicorn binds its port in its own task; if it cannot it leaves the program.
BindHttp ==
    /\ task = "binding"
    /\ \/ /\ task' = "serving"
          /\ open' = With(open, "http", HttpListener(gw))
          /\ UNCHANGED phase
       \/ task' = "none" /\ phase' = "exited" /\ open' = <<>>
    /\ UNCHANGED <<gw, starts, cut>>

StartH3 ==
    /\ phase = "h3"
    /\ \/ ~gw.http3 /\ phase' = "grpc" /\ UNCHANGED open
       \/ gw.http3 /\ phase' = "grpc" /\ open' = With(open, "h3", H3Listener(gw))
       \/ gw.http3 /\ phase' = "undo_grpc" /\ UNCHANGED open
    /\ UNCHANGED <<gw, task, starts, cut>>

StartGrpc ==
    /\ phase = "grpc"
    /\ \/ ~gw.grpc /\ phase' = "running" /\ UNCHANGED open
       \/ gw.grpc /\ phase' = "running" /\ open' = With(open, "grpc", GrpcListener(gw))
       \/ gw.grpc /\ phase' = "undo_grpc" /\ UNCHANGED open
    /\ UNCHANGED <<gw, task, starts, cut>>

\* The loop ends: a shutdown message, or a crash.
LoopEnds ==
    /\ phase = "running"
    /\ phase' \in {"stop_grpc", "undo_grpc"}
    /\ UNCHANGED <<gw, open, task, starts, cut>>

StopGrpc ==
    /\ phase \in {"stop_grpc", "undo_grpc"}
    /\ phase' = IF phase = "stop_grpc" THEN "stop_h3" ELSE "undo_h3"
    /\ open' = Without(open, "grpc")
    /\ UNCHANGED <<gw, task, starts, cut>>

StopH3 ==
    /\ phase \in {"stop_h3", "undo_h3"}
    /\ phase' = IF phase = "stop_h3" THEN "stop_http" ELSE "undo_http"
    /\ open' = Without(open, "h3")
    /\ UNCHANGED <<gw, task, starts, cut>>

\* The task is told to exit and awaited; after five seconds it is cancelled.
StopHttp ==
    /\ phase \in {"stop_http", "undo_http"}
    /\ phase' = IF phase = "stop_http" THEN "down" ELSE "crashed"
    /\ open' = Without(open, "http")
    /\ task' = "none"
    /\ UNCHANGED <<gw, starts, cut>>

\* _stop() ran out of time and cancels the task where it is.
CancelGateway ==
    /\ \/ phase = "h3" /\ gw.http3
       \/ phase = "grpc" /\ gw.grpc
       \/ phase \in {"stop_grpc", "undo_grpc"} /\ "grpc" \in DOMAIN open
       \/ phase \in {"stop_http", "undo_http"} /\ task # "none"
    /\ phase' = "down"
    /\ cut' = TRUE
    /\ UNCHANGED <<gw, open, task, starts>>

GwNext ==
    \/ Construct \/ StartGateway \/ CheckAndServe \/ BindHttp \/ StartH3 \/ StartGrpc
    \/ LoopEnds \/ StopGrpc \/ StopH3 \/ StopHttp \/ CancelGateway

GwSpec == GwInit /\ [][GwNext]_gwVars
-----------------------------------------------------------------------------
(* Whatever the configuration and wherever a start fails, each port of a   *)
(* gateway asks for the certificate and the token that the configuration   *)
(* asks for, never takes a token in the clear over gRPC, reads the         *)
(* certificate's name where client_cert_mode and mtls_source say, and no   *)
(* port is served by a gateway that is down, unless on_start() or          *)
(* on_stop() was cancelled.                                                *)
ListenersAsConfigured ==
    /\ \A l \in DOMAIN open :
          /\ l \in Configured(gw)
          /\ open[l].certs = gw.certs
          /\ gw.certs # "none" => open[l].tls /\ open[l].dn = "peer"
          /\ "jwt" \in gw.middleware => open[l].jwt
          /\ l = "grpc" /\ open[l].jwt => open[l].tls
    /\ gw.source = "proxy_header" /\ open # <<>> => "cert" \in ConfiguredMiddleware(gw)
    /\ "http" \in DOMAIN open /\ gw.docs = "auto" /\ DocsEnabled(gw) =>
          gw.middleware \cap AuthMiddleware = {} /\ open["http"].certs = "none"
    /\ phase = "running" => Configured(gw) \ {"http"} \subseteq DOMAIN open
    /\ phase \in {"new", "refused", "down", "crashed"} /\ ~cut => open = <<>> /\ task = "none"
=============================================================================
