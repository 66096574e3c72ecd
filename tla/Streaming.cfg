SPECIFICATION StreamSpec
CONSTANTS
  AgentStreams = {"c1"}
  GatewayStreams = {"c2"}
  Styles = {"stream_reply", "emit", "emit_open", "reply"}
  Loads <- MCLoads
  MaxFrames = 2
  MaxSize = 1
  MaxRequests = 2
  MaxFaults = 1
  MaxEnds = 1
INVARIANTS StreamFaithful LossTold StrayBounded
