--------------------------- MODULE MCRequestReply ---------------------------
(* The transports: in one process, and publish/subscribe with the server    *)
(* in the caller's process or in another.                                   *)
EXTENDS RequestReply

MCConfig(net, apart, trouble, n) ==
    [net |-> net, apart |-> apart, trouble |-> trouble, loads |-> n]

MCConfigs ==
    {MCConfig("inproc", FALSE, "removal", 1), MCConfig("inproc", FALSE, "suspension", 1),
     MCConfig("zmq", FALSE, "removal", 1), MCConfig("zmq", TRUE, "suspension", 1),
     MCConfig("zmq", TRUE, "faults", 1), MCConfig("zmq", TRUE, "none", 3),
     MCConfig("nats", TRUE, "faults", 1), MCConfig("nats", TRUE, "removal", 1)}

MCDespawn == {MCConfig("inproc", FALSE, "removal", 1)}
=============================================================================
