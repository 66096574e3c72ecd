----------------------------- MODULE MCCluster -----------------------------
(* Two agents on one Worker that may be started twice, and a child that is  *)
(* spawned up to twice.                                                     *)
EXTENDS Cluster

MCAgents == <<"a1", "a2">>
MCChannels == <<"h1", "h2">>
MCNames == {"a1", "a2", "c", "restart", "h1", "h2"}

MCConfig(scene, net, legacy, returns, n) ==
    [scene |-> scene, net |-> net, legacy |-> legacy, returns |-> returns, faults |-> n]

MCConfigs ==
    {MCConfig("spawning", "zmq", FALSE, FALSE, 1), MCConfig("probing", "zmq", FALSE, FALSE, 2),
     MCConfig("probing", "nats", FALSE, FALSE, 1), MCConfig("probing", "zmq", FALSE, TRUE, 1),
     MCConfig("probing", "zmq", TRUE, FALSE, 1)}

MCAnnouncements ==
    {Announcement(k, "c", e, "dyn", "none") : k \in Kinds, e \in 1..MaxSpawns}
    \cup {Announcement(k, n, 0, "none", ch) : k \in Kinds, n \in MCNames \ {"c"}, ch \in {"none", "h1", "h2"}}
=============================================================================
