----------------------------- MODULE MCStreaming -----------------------------
EXTENDS Streaming

Load(streams, net, chunks) == [streams |-> streams, net |-> net, chunks |-> chunks]

MCLoads == {Load({"c1"}, "direct", 3), Load({"c1"}, "lossy", 3),
            Load({"c2"}, "direct", 2), Load({"c2"}, "lossy", 2),
            Load({"c1", "c2"}, "direct", 1)}
=============================================================================
